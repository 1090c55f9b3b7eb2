-------------------------- MODULE Scripter_proofs ---------------------------
(***************************************************************************)
(* Proofs about the scripter's lifecycle and the way of a Setting to the   *)
(* engine, for every number of reloads, Settings and user functions and    *)
(* every size of the pipes; and, in the second half, about the stream of a *)
(* Setting (SettingScript), for every configuration.                       *)
(***************************************************************************)
EXTENDS Scripter, SettingScript, FiniteSetTheorems, SequenceTheorems,
        WellFoundedInduction, TLAPS

Closing == {"closeHandles", "done"}
UiStopping == {"sendQuit", "stopReaders", "phaseD", "forceStop", "killWait"}
              \cup Closing
Fresh == {"pipes", "spawn"}

\* Where everybody is, and the ctrl pipe.
PlaceOK ==
  /\ ui \in {"loop", "waitForPendingStart"} \cup UiStopping
  /\ launch \in {"idle", "begin", "quit", "stopReaders", "grace", "killWait",
                 "close", "pipes", "spawn", "lock", "start", "setNonBlocking"}
  /\ engine \in {"idle", "exec"}
  /\ loads \in 0..MaxLoad
  /\ execs \in 0..MaxExec /\ levels \in 0..MaxLevel
  /\ level \in Levels /\ request \in Levels /\ told \in Levels \cup {"none"}
  /\ writer \in {"none", "blocking", "nonblocking"}
  /\ readerStop \in BOOLEAN /\ ctrlOpen \in BOOLEAN /\ quitSent \in BOOLEAN

CtrlOK == ctrl \in Seq(CtrlMessage) /\ Len(ctrl) <= CtrlCap

\* A Setting is newer than every one put into the slot before it, on its way
\* through the pipe and in the slot, and the slot holds none the engine has.
SettingsOK ==
  /\ commits \in 0..MaxCommit
  /\ newest \in Nat /\ given \in Nat /\ slot \in Nat /\ posted \in Nat
  /\ newest <= commits /\ given <= newest
  /\ slot # 0 => slot = newest /\ given < newest
  /\ data \in Seq(1..MaxCommit) /\ Len(data) <= DataCap
  /\ posted + Len(data) <= commits
  /\ \A i \in 1..Len(data) : newest < data[i] /\ data[i] <= commits
  /\ \A i, j \in 1..Len(data) : i < j => data[i] < data[j]

\* Each reload takes at most one generation.
GenerationOK ==
  /\ gen \in 0..MaxLoad /\ gen <= loads
  /\ launch \in {"begin", "quit", "stopReaders", "grace", "killWait", "close",
                 "pipes"} => gen < loads

\* The handles belong to the newest scripter, and the reader's is there
\* exactly as long as the process's, but for the time it takes to start one.
HandlesOK ==
  /\ process \in {0, gen} /\ thread \in {0, process}
  /\ thread # 0 => dataRead = thread
  /\ dataRead \in 0..MaxLoad
  /\ process # 0 /\ launch # "lock" => thread # 0
  /\ launch \in Fresh => process = 0
  /\ launch = "lock" => /\ process = gen /\ gen # 0 /\ thread = 0
                        /\ dataRead = gen
  /\ launch = "spawn" => gen # 0 /\ dataRead = gen

\* A scripter that runs is the one process is the handle of; once forceStop()
\* is past its wait none does.
RunningOK ==
  /\ running \subseteq Generation /\ dying \subseteq Generation
  /\ \A g \in running : g = process
  /\ launch \in {"killWait", "close"} => running = {}
  /\ ui \in {"killWait"} \cup Closing => running = {}

\* And so for the readers, unless one was left behind.
ReadersOK ==
  /\ readers \subseteq Generation
  /\ outlived \in BOOLEAN /\ freed \in BOOLEAN
  /\ ~outlived => \A g \in readers : g = thread
  /\ ~outlived /\ launch = "close" => readers = {}
  /\ ~outlived /\ ui \in Closing => readers = {}
  /\ freed => ui = "done"

\* ~Mayu goes on only when no launch is pending, and none begins after that.
LaunchOver == ui \in UiStopping => launch = "idle"

LifeOK == GenerationOK /\ HandlesOK /\ RunningOK /\ ReadersOK /\ LaunchOver

IInv == PlaceOK /\ CtrlOK /\ SettingsOK /\ LifeOK

-----------------------------------------------------------------------------
LEMMA InitInv == Init => IInv
<1> SUFFICES ASSUME Init PROVE IInv  OBVIOUS
<1> USE BoundsAssumption DEF Init
<1>1. PlaceOK
  <2>1. 0 \in 0..MaxLoad /\ 0 \in 0..MaxExec /\ 0 \in 0..MaxLevel  OBVIOUS
  <2>2. "normal" \in Levels  BY DEF Levels
  <2> QED  BY <2>1, <2>2 DEF PlaceOK
<1>2. CtrlOK  BY DEF CtrlOK
<1>3. SettingsOK  BY DEF SettingsOK
<1>4. GenerationOK /\ HandlesOK
  BY DEF GenerationOK, HandlesOK, Fresh
<1>5. RunningOK /\ ReadersOK
  BY DEF RunningOK, ReadersOK, Closing
<1>6. LaunchOver  BY DEF LaunchOver, UiStopping, Closing
<1>7. LifeOK  BY <1>4, <1>5, <1>6 DEF LifeOK
<1> QED  BY <1>1, <1>2, <1>3, <1>7 DEF IInv

\* What is written into the ctrl pipe is a message, and there is room for it.
LEMMA WriteKeeps ==
  ASSUME CtrlOK, NEW m \in CtrlMessage, Write(m)  PROVE CtrlOK'
<1>1. CASE ctrl' = ctrl  BY <1>1 DEF CtrlOK
<1>2. CASE ctrl' = Append(ctrl, m) /\ Len(ctrl) < CtrlCap
  BY <1>2, BoundsAssumption DEF CtrlOK
<1> QED  BY <1>1, <1>2 DEF Write, Room

LEMMA Messages ==
  /\ \A l \in Levels : Start(l) \in CtrlMessage /\ SetLogLevel(l) \in CtrlMessage
  /\ ExecUserFunc \in CtrlMessage /\ Quit \in CtrlMessage
BY DEF CtrlMessage

LEMMA SendQuitKeeps ==
  ASSUME CtrlOK, PlaceOK, SendQuit
  PROVE  /\ CtrlOK' /\ writer' \in {"none", "blocking", "nonblocking"}
         /\ ctrlOpen' \in BOOLEAN /\ quitSent' \in BOOLEAN
<1>1. CASE quitSent
  BY <1>1 DEF SendQuit, ctrlVars, CtrlOK, PlaceOK
<1>2. CASE ~quitSent
  <2>1. CtrlOK'  BY <1>2, WriteKeeps, Messages DEF SendQuit
  <2> QED  BY <1>2, <2>1 DEF SendQuit
<1> QED  BY <1>1, <1>2

LEMMA PlaceKeeps == IInv /\ Next => PlaceOK' /\ CtrlOK'
<1> SUFFICES ASSUME IInv, Next PROVE PlaceOK' /\ CtrlOK'  OBVIOUS
<1> USE DEF IInv
<1> USE DEF bounds, uiVars, launchVars, handles, ctrlVars, childVars,
            slotVars, uiOnly, launchOnly, engineOnly, childOnly, Goto,
            UiGoto
<1>1. ASSUME Load PROVE PlaceOK' /\ CtrlOK'
  BY <1>1, BoundsAssumption DEF Load, PlaceOK, CtrlOK
<1>2. ASSUME ChangeLevel PROVE PlaceOK' /\ CtrlOK'
  <2>1. level' \in Levels  BY <1>2 DEF ChangeLevel
  <2>2. CtrlOK'  BY <1>2, <2>1, WriteKeeps, Messages DEF ChangeLevel
  <2> QED  BY <1>2, <2>1, <2>2, BoundsAssumption DEF ChangeLevel, PlaceOK
<1>3. ASSUME TakeSetting \/ EndLoop PROVE PlaceOK' /\ CtrlOK'
  BY <1>3 DEF TakeSetting, EndLoop, PlaceOK, CtrlOK
<1>4. ASSUME Shutdown PROVE PlaceOK' /\ CtrlOK'
  <2>1. CASE UiSendQuit
    BY <2>1, SendQuitKeeps DEF UiSendQuit, PlaceOK, UiStopping, Closing
  <2>2. CASE UiForceStop
    BY <2>2 DEF UiForceStop, PlaceOK, CtrlOK, Terminate, UiStopping, Closing
  <2> QED
    BY <1>4, <2>1, <2>2 DEF Shutdown, WaitForPendingStart, UiStopReaders,
       UiWait, UiKillWait, UiCloseHandles, CloseHandles, PlaceOK, CtrlOK,
       UiStopping, Closing
<1>5. ASSUME Launch PROVE PlaceOK' /\ CtrlOK'
  <2>1. CASE LaunchQuit
    BY <2>1, SendQuitKeeps DEF LaunchQuit, PlaceOK
  <2>2. CASE LaunchStart
    <3>1. CtrlOK'
      BY <2>2, WriteKeeps, Messages DEF LaunchStart, PlaceOK
    <3> QED  BY <2>2, <3>1 DEF LaunchStart, PlaceOK
  <2>3. CASE LaunchPipes
    <3>1. ctrl' \in {ctrl, <<>>} /\ told' \in {told, "none"}
      BY <2>3 DEF LaunchPipes
    <3>2. CtrlOK'
      <4>1. CASE ctrl' = ctrl  BY <4>1 DEF CtrlOK
      <4>2. CASE ctrl' = <<>>  BY <4>2, BoundsAssumption DEF CtrlOK
      <4> QED  BY <3>1, <4>1, <4>2
    <3>3. ctrlOpen' \in BOOLEAN /\ launch' \in {"idle", "spawn"}
      BY <2>3 DEF LaunchPipes
    <3> QED  BY <2>3, <3>1, <3>2, <3>3 DEF LaunchPipes, PlaceOK
  <2>4. CASE LaunchGrace
    BY <2>4 DEF LaunchGrace, Terminate, PlaceOK, CtrlOK
  <2>5. CASE LaunchBegin \/ LaunchStopReaders \/ LaunchKillWait \/ LaunchClose
    BY <2>5 DEF LaunchBegin, LaunchStopReaders, LaunchKillWait, LaunchClose,
       CloseHandles, PlaceOK, CtrlOK
  <2>6. CASE LaunchSpawn \/ LaunchThreads \/ LaunchSetNonBlocking
    BY <2>6 DEF LaunchSpawn, LaunchThreads, LaunchSetNonBlocking, PlaceOK,
       CtrlOK
  <2> QED  BY <1>5, <2>1, <2>2, <2>3, <2>4, <2>5, <2>6 DEF Launch
<1>6. ASSUME CallUserFunc PROVE PlaceOK' /\ CtrlOK'
  BY <1>6, BoundsAssumption DEF CallUserFunc, PlaceOK, CtrlOK
<1>7. ASSUME SendUserFunc PROVE PlaceOK' /\ CtrlOK'
  <2>1. CtrlOK'  BY <1>7, WriteKeeps, Messages DEF SendUserFunc
  <2> QED  BY <1>7, <2>1 DEF SendUserFunc, PlaceOK
<1>8. ASSUME ChildReads PROVE PlaceOK' /\ CtrlOK'
  <2>0. /\ ctrl # <<>> /\ ctrl' = Tail(ctrl)
        /\ ctrl \in Seq(CtrlMessage) /\ Len(ctrl) <= CtrlCap
    BY <1>8 DEF ChildReads, CtrlOK
  <2>1. Head(ctrl) \in CtrlMessage /\ CtrlOK'
    <3> HIDE DEF IInv
    <3> QED  BY <2>0, BoundsAssumption DEF CtrlOK
  <2>2. told' \in Levels \cup {"none"}
    BY <1>8, <2>1 DEF ChildReads, PlaceOK, CtrlMessage, Start, SetLogLevel
  <2> QED  BY <1>8, <2>1, <2>2 DEF ChildReads, PlaceOK
<1>9. ASSUME ChildCommits PROVE PlaceOK' /\ CtrlOK'
  BY <1>9 DEF ChildCommits, PlaceOK, CtrlOK
<1>10. ASSUME NEW g \in Generation, ReadSetting(g) \/ EndReader(g) \/ ChildEnds(g)
       PROVE  PlaceOK' /\ CtrlOK'
  BY <1>10 DEF ReadSetting, EndReader, ChildEnds, PlaceOK, CtrlOK
<1> QED
  BY <1>1, <1>2, <1>3, <1>4, <1>5, <1>6, <1>7, <1>8, <1>9, <1>10 DEF Next

-----------------------------------------------------------------------------
(* Settings *)

LEMMA SeqElement ==
  ASSUME NEW S, NEW s \in Seq(S), NEW i \in 1..Len(s)  PROVE s[i] \in S
OBVIOUS

LEMMA DataElements ==
  ASSUME SettingsOK, NEW i \in 1..Len(data)
  PROVE  data[i] \in 1..MaxCommit /\ newest < data[i] /\ data[i] <= commits
<1>1. newest < data[i] /\ data[i] <= commits  BY DEF SettingsOK
<1>2. data[i] \in 1..MaxCommit
  <2>1. data \in Seq(1..MaxCommit)  BY DEF SettingsOK
  <2> QED  BY <2>1, SeqElement
<1> QED  BY <1>1, <1>2

\* Every other step leaves them alone or drops what is in the pipe.
LEMMA SettingsIdle ==
  ASSUME SettingsOK, UNCHANGED <<commits, newest, given, slot, posted>>,
         data' = data \/ data' = <<>>
  PROVE  SettingsOK'
<1>1. CASE data' = data  BY <1>1 DEF SettingsOK
<1>2. CASE data' = <<>>
  <2>1. posted' + Len(data') <= commits'
    BY <1>2 DEF SettingsOK
  <2> QED  BY <1>2, <2>1, BoundsAssumption DEF SettingsOK
<1> QED  BY <1>1, <1>2

LEMMA ReadSettingKeeps ==
  ASSUME SettingsOK, NEW g, ReadSetting(g)
  PROVE  SettingsOK' /\ newest' > newest /\ UNCHANGED <<given, commits>>
<1>1. /\ data # <<>> /\ data' = Tail(data) /\ slot' = Head(data)
      /\ newest' = Head(data) /\ posted' = posted + 1
      /\ UNCHANGED <<given, commits>>
  BY DEF ReadSetting, Slot, uiVars, bounds
<1>2. /\ data \in Seq(1..MaxCommit) /\ Len(data) \in Nat /\ Len(data) # 0
      /\ Head(data) = data[1] /\ data' \in Seq(1..MaxCommit)
      /\ Len(data') = Len(data) - 1
      /\ \A i \in 1..Len(data') : data'[i] = data[i + 1]
  BY <1>1 DEF SettingsOK
<1>3. newest < data[1] /\ data[1] <= commits /\ data[1] \in 1..MaxCommit
  <2>1. 1 \in 1..Len(data)  BY <1>2
  <2> QED  BY <2>1, DataElements
<1>4. \A i \in 1..Len(data') : /\ i + 1 \in 1..Len(data)
                              /\ data[1] < data[i + 1]
                              /\ data[i + 1] <= commits
  BY <1>2 DEF SettingsOK
<1>5. \A i, j \in 1..Len(data') : i < j => data'[i] < data'[j]
  <2> SUFFICES ASSUME NEW i \in 1..Len(data'), NEW j \in 1..Len(data'), i < j
               PROVE  data[i + 1] < data[j + 1]
    BY <1>2
  <2>1. i + 1 < j + 1 /\ i + 1 \in 1..Len(data) /\ j + 1 \in 1..Len(data)
    BY <1>2
  <2> QED  BY <2>1 DEF SettingsOK
<1>6. posted' + Len(data') <= commits'  BY <1>1, <1>2 DEF SettingsOK
<1> QED
  BY <1>1, <1>2, <1>3, <1>4, <1>5, <1>6, BoundsAssumption, SMTT(30) DEF SettingsOK

LEMMA CommitKeeps == ASSUME SettingsOK, ChildCommits PROVE SettingsOK'
<1>1. /\ commits < MaxCommit /\ commits' = commits + 1
      /\ data' = Append(data, commits + 1) /\ Len(data) < DataCap
      /\ UNCHANGED <<newest, given, slot, posted>>
  BY DEF ChildCommits, childOnly, uiVars, slotVars
<1>2. commits + 1 \in 1..MaxCommit  BY <1>1, BoundsAssumption DEF SettingsOK
<1>3. /\ data' \in Seq(1..MaxCommit) /\ Len(data) \in Nat
      /\ Len(data') = Len(data) + 1
      /\ \A i \in 1..Len(data) : data'[i] = data[i]
      /\ data'[Len(data) + 1] = commits + 1
  BY <1>1, <1>2 DEF SettingsOK
<1>4. \A i \in 1..Len(data') : newest < data'[i] /\ data'[i] <= commits'
  <2> SUFFICES ASSUME NEW i \in 1..Len(data')
               PROVE  newest < data'[i] /\ data'[i] <= commits'
    OBVIOUS
  <2>1. CASE i \in 1..Len(data)
    <3>1. /\ newest < data[i] /\ data[i] <= commits
          /\ data[i] \in 1..MaxCommit
      BY <2>1, DataElements
    <3>2. newest \in Nat /\ commits \in Nat
      BY BoundsAssumption DEF SettingsOK
    <3> QED  BY <1>1, <1>3, <2>1, <3>1, <3>2, BoundsAssumption
  <2>2. CASE i = Len(data) + 1
    BY <1>1, <1>3, <2>2, BoundsAssumption DEF SettingsOK
  <2> QED  BY <1>3, <2>1, <2>2
<1>5. \A i, j \in 1..Len(data') : i < j => data'[i] < data'[j]
  <2> SUFFICES ASSUME NEW i \in 1..Len(data'), NEW j \in 1..Len(data'), i < j
               PROVE  data'[i] < data'[j]
    OBVIOUS
  <2>0. i \in 1..Len(data)  BY <1>3
  <2>1. i \in 1..Len(data) /\ data[i] <= commits /\ data[i] \in 1..MaxCommit
    BY <2>0, DataElements
  <2>2. CASE j = Len(data) + 1  BY <1>1, <1>3, <2>1, <2>2 DEF SettingsOK
  <2>3. CASE j \in 1..Len(data)  BY <1>3, <2>1, <2>3 DEF SettingsOK
  <2> QED  BY <1>3, <2>2, <2>3
<1>6. posted' + Len(data') <= commits' /\ Len(data') <= DataCap
  BY <1>1, <1>3, BoundsAssumption DEF SettingsOK
<1> QED  BY <1>1, <1>2, <1>3, <1>4, <1>5, <1>6 DEF SettingsOK

\* The actions that are neither a Setting's arrival nor its delivery
Elsewhere ==
  /\ Next /\ ~TakeSetting /\ ~ChildCommits /\ ~UiCloseHandles
  /\ \A g \in Generation : ~ReadSetting(g)

LEMMA ElsewhereIdle ==
  ASSUME Elsewhere
  PROVE  /\ UNCHANGED <<commits, newest, given, slot, posted>>
         /\ data' = data \/ data' = <<>>
<1> USE DEF bounds, uiVars, launchVars, handles, ctrlVars, childVars,
            slotVars, uiOnly, launchOnly, engineOnly, childOnly
<1>1. CASE Load \/ ChangeLevel \/ EndLoop \/ CallUserFunc \/ SendUserFunc
             \/ ChildReads
  BY <1>1 DEF Load, ChangeLevel, EndLoop, CallUserFunc, SendUserFunc,
     ChildReads
<1>2. CASE Shutdown
  BY <1>2 DEF Elsewhere, Shutdown, WaitForPendingStart, UiSendQuit,
     UiStopReaders, UiWait, UiForceStop, UiKillWait
<1>3. CASE Launch
  BY <1>3 DEF Launch, LaunchBegin, LaunchQuit, LaunchStopReaders,
     LaunchGrace, LaunchKillWait, LaunchClose, CloseHandles, LaunchPipes,
     LaunchSpawn, LaunchThreads, LaunchStart, LaunchSetNonBlocking
<1>4. ASSUME NEW g \in Generation, EndReader(g) \/ ChildEnds(g)
      PROVE  /\ UNCHANGED <<commits, newest, given, slot, posted>>
             /\ data' = data \/ data' = <<>>
  BY <1>4 DEF EndReader, ChildEnds
<1> QED  BY <1>1, <1>2, <1>3, <1>4 DEF Elsewhere, Next

LEMMA SettingsKeep == IInv /\ Next => SettingsOK'
<1> SUFFICES ASSUME IInv, Next PROVE SettingsOK'  OBVIOUS
<1> USE DEF IInv
<1>1. CASE TakeSetting
  <2>1. /\ posted > 0 /\ posted' = posted - 1 /\ slot' = 0
        /\ given' = IF slot = 0 THEN given ELSE slot
        /\ UNCHANGED <<commits, newest, data>>
    BY <1>1 DEF TakeSetting, uiOnly, bounds
  <2>2. posted' \in Nat /\ posted' + Len(data') <= commits'
    BY <2>1 DEF SettingsOK
  <2> QED  BY <2>1, <2>2 DEF SettingsOK
<1>2. CASE UiCloseHandles
  <2>1. /\ data' = <<>> /\ slot' = 0
        /\ UNCHANGED <<commits, newest, given, posted>>
    BY <1>2 DEF UiCloseHandles, CloseHandles, bounds
  <2>2. posted' + Len(data') <= commits'  BY <2>1 DEF SettingsOK
  <2> QED  BY <2>1, <2>2, BoundsAssumption DEF SettingsOK
<1>3. CASE ChildCommits  BY <1>3, CommitKeeps
<1>4. CASE \E g \in Generation : ReadSetting(g)  BY <1>4, ReadSettingKeeps
<1>5. CASE Elsewhere  BY <1>5, ElsewhereIdle, SettingsIdle
<1> QED  BY <1>1, <1>2, <1>3, <1>4, <1>5 DEF Elsewhere

-----------------------------------------------------------------------------
(* The lifecycle *)

lifeVars == <<ui, launch, loads, gen, process, thread, dataRead, running,
              dying, readers, outlived, freed>>

LEMMA LifeIdle == ASSUME LifeOK, UNCHANGED lifeVars PROVE LifeOK'
BY DEF LifeOK, GenerationOK, HandlesOK, RunningOK, ReadersOK, LaunchOver,
       lifeVars

\* Once everything forceStop() waits for is gone, nothing runs; and if it is
\* not, TerminateProcess() stops what runs.
LEMMA StopsScripter ==
  ASSUME RunningOK, ReadersOK
  PROVE  /\ AllGone => running = {} /\ (~outlived => readers = {})
         /\ Terminate => running' = {} /\ dying' \subseteq Generation
         /\ KillWait => /\ outlived' \in BOOLEAN
                        /\ ~outlived' => ~outlived /\ readers = {}
<1>1. AllGone => running = {} /\ (~outlived => readers = {})
  BY DEF AllGone, RunningOK, ReadersOK
<1>2. Terminate => running' = {} /\ dying' \subseteq Generation
  BY DEF Terminate, RunningOK
<1>3. KillWait => /\ outlived' \in BOOLEAN
                  /\ ~outlived' => ~outlived /\ readers = {}
  <2> SUFFICES ASSUME KillWait
               PROVE  /\ outlived' \in BOOLEAN
                      /\ ~outlived' => ~outlived /\ readers = {}
    OBVIOUS
  <2>1. outlived' = (outlived \/ thread \in readers)  BY DEF KillWait
  <2>2. outlived' \in BOOLEAN
        /\ (~outlived' => ~outlived /\ thread \notin readers)
    BY <2>1, Zenon
  <2> QED  BY <2>2 DEF ReadersOK
<1> QED  BY <1>1, <1>2, <1>3

LEMMA UiLife ==
  ASSUME IInv, EndLoop \/ Shutdown
  PROVE  LifeOK'
<1> USE DEF IInv, LifeOK
<1> USE DEF bounds, uiVars, launchVars, handles, childVars, uiOnly, UiGoto
<1>1. CASE EndLoop
  BY <1>1 DEF EndLoop, GenerationOK, HandlesOK, RunningOK, ReadersOK,
     LaunchOver, UiStopping, Closing
<1>2. CASE WaitForPendingStart
  BY <1>2 DEF WaitForPendingStart, GenerationOK, HandlesOK, RunningOK,
     ReadersOK, LaunchOver, Closing
<1>3. CASE UiSendQuit \/ UiStopReaders \/ UiWait
  BY <1>3 DEF UiSendQuit, UiStopReaders, UiWait, GenerationOK, HandlesOK,
     RunningOK, ReadersOK, LaunchOver, UiStopping, Closing
<1>4. CASE UiForceStop
  <2>1. UNCHANGED <<launch, loads, gen, process, thread, dataRead, readers,
                    outlived, freed>> /\ ui = "forceStop"
    BY <1>4 DEF UiForceStop
  <2>2. /\ running' = {} /\ dying' \subseteq Generation
        /\ ui' \in {"killWait", "closeHandles"}
        /\ ui' = "closeHandles" /\ ~outlived => readers = {}
    <3>1. CASE AllGone /\ ui' = "closeHandles" /\ UNCHANGED childVars
      BY <3>1, StopsScripter DEF RunningOK
    <3>2. CASE ui' = "killWait" /\ Terminate
      BY <3>2, StopsScripter
    <3> QED  BY <1>4, <3>1, <3>2 DEF UiForceStop
  <2>3. launch = "idle"  BY <2>1 DEF LaunchOver, UiStopping
  <2>4. GenerationOK' /\ HandlesOK' /\ LaunchOver'
    BY <2>1, <2>3 DEF GenerationOK, HandlesOK, LaunchOver
  <2>5. RunningOK'  BY <2>2 DEF RunningOK
  <2>6. ReadersOK'  BY <2>1, <2>2, <2>3 DEF ReadersOK, Closing
  <2> QED  BY <2>4, <2>5, <2>6
<1>5. CASE UiKillWait
  <2>1. /\ ui = "killWait" /\ ui' = "closeHandles" /\ running = {}
        /\ UNCHANGED <<launch, loads, gen, process, thread, dataRead, readers,
                       running, dying, freed>>
    BY <1>5 DEF UiKillWait, RunningOK
  <2>2. /\ outlived' \in BOOLEAN
        /\ ~outlived' => ~outlived /\ readers = {}
    BY <1>5, StopsScripter DEF UiKillWait
  <2>3. launch = "idle"  BY <2>1 DEF LaunchOver, UiStopping
  <2>4. GenerationOK' /\ HandlesOK' /\ LaunchOver'
    BY <2>1, <2>3 DEF GenerationOK, HandlesOK, LaunchOver
  <2>5. RunningOK'  BY <2>1 DEF RunningOK
  <2>6. ReadersOK'  BY <2>1, <2>2, <2>3 DEF ReadersOK, Closing
  <2> QED  BY <2>4, <2>5, <2>6
<1>6. CASE UiCloseHandles
  <2>1. /\ ui = "closeHandles" /\ ui' = "done" /\ freed' = TRUE
        /\ process' = 0 /\ thread' = 0 /\ dataRead' = 0
        /\ UNCHANGED <<launch, loads, gen, readers, running, dying, outlived>>
    BY <1>6 DEF UiCloseHandles, CloseHandles
  <2>2. launch = "idle" /\ running = {} /\ (~outlived => readers = {})
    BY <2>1 DEF LaunchOver, UiStopping, Closing, RunningOK, ReadersOK
  <2>3. GenerationOK' /\ LaunchOver'
    BY <2>1, <2>2 DEF GenerationOK, LaunchOver
  <2>4. HandlesOK'  BY <2>1, <2>2, BoundsAssumption DEF HandlesOK, Fresh
  <2>5. RunningOK'  BY <2>1, <2>2 DEF RunningOK
  <2>6. ReadersOK'  BY <2>1, <2>2 DEF ReadersOK
  <2> QED  BY <2>3, <2>4, <2>5, <2>6
<1> QED  BY <1>1, <1>2, <1>3, <1>4, <1>5, <1>6 DEF Shutdown

LEMMA LaunchLife == ASSUME IInv, Launch PROVE LifeOK'
<1> USE DEF IInv, LifeOK
<1> USE DEF bounds, uiVars, launchVars, handles, childVars, launchOnly, Goto
<1>0. ui \notin UiStopping
  BY DEF LaunchOver, Launch, LaunchBegin, LaunchQuit, LaunchStopReaders,
     LaunchGrace, LaunchKillWait, LaunchClose, LaunchPipes, LaunchSpawn,
     LaunchThreads, LaunchStart, LaunchSetNonBlocking
<1>1. CASE LaunchBegin
  BY <1>0, <1>1 DEF LaunchBegin, GenerationOK, HandlesOK, RunningOK,
     ReadersOK, LaunchOver, Fresh
<1>2. CASE LaunchQuit \/ LaunchStopReaders
  BY <1>0, <1>2 DEF LaunchQuit, LaunchStopReaders, GenerationOK, HandlesOK,
     RunningOK, ReadersOK, LaunchOver, Fresh
<1>3. CASE LaunchGrace
  <2>1. /\ UNCHANGED <<ui, loads, gen, process, thread, dataRead, readers,
                       outlived, freed>>
        /\ launch = "grace"
    BY <1>3 DEF LaunchGrace
  <2>2. /\ running' = {} /\ dying' \subseteq Generation
        /\ launch' \in {"killWait", "close"}
        /\ launch' = "close" /\ ~outlived => readers = {}
    <3>1. CASE AllGone /\ launch' = "close" /\ UNCHANGED childVars
      BY <3>1, StopsScripter DEF RunningOK
    <3>2. CASE launch' = "killWait" /\ Terminate
      BY <3>2, StopsScripter
    <3> QED  BY <1>3, <3>1, <3>2 DEF LaunchGrace
  <2>3. GenerationOK' /\ HandlesOK' /\ LaunchOver'
    BY <1>0, <2>1, <2>2 DEF GenerationOK, HandlesOK, LaunchOver, Fresh
  <2>4. RunningOK'  BY <2>2 DEF RunningOK
  <2>5. ReadersOK'  BY <2>1, <2>2 DEF ReadersOK
  <2> QED  BY <2>3, <2>4, <2>5
<1>4. CASE LaunchKillWait
  <2>1. /\ UNCHANGED <<ui, loads, gen, process, thread, dataRead, readers,
                       running, dying, freed>>
        /\ launch = "killWait" /\ launch' = "close"
    BY <1>4 DEF LaunchKillWait
  <2>2. /\ outlived' \in BOOLEAN
        /\ ~outlived' => ~outlived /\ readers = {}
    BY <1>4, StopsScripter DEF LaunchKillWait
  <2>3. GenerationOK' /\ HandlesOK' /\ LaunchOver'
    BY <1>0, <2>1 DEF GenerationOK, HandlesOK, LaunchOver, Fresh
  <2>4. RunningOK'  BY <2>1 DEF RunningOK
  <2>5. ReadersOK'  BY <2>1, <2>2 DEF ReadersOK
  <2> QED  BY <2>3, <2>4, <2>5
<1>5. CASE LaunchClose
  <2>1. /\ launch = "close" /\ launch' = "pipes"
        /\ process' = 0 /\ thread' = 0 /\ dataRead' = 0
        /\ UNCHANGED <<ui, loads, gen, readers, running, dying, outlived,
                       freed>>
    BY <1>5 DEF LaunchClose, CloseHandles
  <2>2. running = {} /\ (~outlived => readers = {})
    BY <2>1 DEF RunningOK, ReadersOK
  <2>3. GenerationOK' /\ LaunchOver'
    BY <1>0, <2>1 DEF GenerationOK, LaunchOver
  <2>4. HandlesOK'  BY <2>1, BoundsAssumption DEF HandlesOK, Fresh
  <2>5. RunningOK'  BY <2>1, <2>2 DEF RunningOK
  <2>6. ReadersOK'  BY <2>1, <2>2 DEF ReadersOK
  <2> QED  BY <2>3, <2>4, <2>5, <2>6
<1>6. CASE LaunchPipes
  <2>1. /\ launch = "pipes" /\ process = 0 /\ thread = 0 /\ gen < loads
        /\ loads \in 0..MaxLoad /\ gen \in 0..MaxLoad
        /\ UNCHANGED <<ui, loads, process, thread, readers, running, dying,
                       outlived, freed>>
    BY <1>6 DEF LaunchPipes, HandlesOK, GenerationOK, PlaceOK, Fresh
  <2>2. \/ launch' = "idle" /\ dataRead' = 0 /\ gen' = gen
        \/ launch' = "spawn" /\ gen' = gen + 1 /\ dataRead' = gen'
    BY <1>6 DEF LaunchPipes
  <2>3. GenerationOK' /\ gen' \in 0..MaxLoad
    BY <2>1, <2>2, BoundsAssumption DEF GenerationOK
  <2>4. LaunchOver'  BY <1>0, <2>1 DEF LaunchOver
  <2>5. HandlesOK'
    BY <2>1, <2>2, <2>3, BoundsAssumption DEF HandlesOK, Fresh
  <2>6. RunningOK'  BY <2>1, <2>2 DEF RunningOK
  <2>7. ReadersOK'  BY <2>1, <2>2 DEF ReadersOK
  <2> QED  BY <2>3, <2>4, <2>5, <2>6, <2>7
<1>7. CASE LaunchSpawn
  <2>1. /\ launch = "spawn" /\ process = 0 /\ thread = 0 /\ gen # 0
        /\ dataRead = gen /\ gen \in Generation
        /\ UNCHANGED <<ui, loads, gen, thread, dataRead, readers, dying,
                       outlived, freed>>
    BY <1>7, BoundsAssumption
    DEF LaunchSpawn, HandlesOK, GenerationOK, Fresh, Generation
  <2>2. \/ launch' = "idle" /\ UNCHANGED <<process, running>>
        \/ launch' = "lock" /\ process' = gen /\ running' = running \cup {gen}
    BY <1>7 DEF LaunchSpawn
  <2>3. running = {}
    BY <2>1, BoundsAssumption DEF RunningOK, Generation
  <2>4. GenerationOK' /\ LaunchOver'
    BY <1>0, <2>1, <2>2 DEF GenerationOK, LaunchOver
  <2>5. HandlesOK'  BY <2>1, <2>2 DEF HandlesOK, Fresh
  <2>6. ui \notin {"killWait"} \cup Closing
    BY <1>0 DEF UiStopping
  <2>7. RunningOK'  BY <2>1, <2>2, <2>3, <2>6 DEF RunningOK
  <2>8. ReadersOK'  BY <2>1, <2>2 DEF ReadersOK
  <2> QED  BY <2>4, <2>5, <2>7, <2>8
<1>8. CASE LaunchThreads
  <2>1. /\ launch = "lock" /\ launch' = "start" /\ process = gen
        /\ thread = 0 /\ gen # 0 /\ dataRead = gen /\ gen \in Generation
        /\ thread' = gen /\ readers' = readers \cup {gen}
        /\ UNCHANGED <<ui, loads, gen, process, dataRead, running, dying,
                       outlived, freed>>
    BY <1>8, BoundsAssumption
    DEF LaunchThreads, HandlesOK, GenerationOK, Generation
  <2>2. ~outlived => readers = {}
    BY <2>1, BoundsAssumption DEF ReadersOK, Generation
  <2>3. GenerationOK' /\ LaunchOver'
    BY <1>0, <2>1 DEF GenerationOK, LaunchOver
  <2>4. HandlesOK'
    BY <2>1, BoundsAssumption DEF HandlesOK, Fresh
  <2>5. RunningOK'  BY <2>1 DEF RunningOK
  <2>6. ReadersOK'
    BY <1>0, <2>1, <2>2 DEF ReadersOK, UiStopping, Closing
  <2> QED  BY <2>3, <2>4, <2>5, <2>6
<1>9. CASE LaunchStart \/ LaunchSetNonBlocking
  BY <1>0, <1>9 DEF LaunchStart, LaunchSetNonBlocking, GenerationOK,
     HandlesOK, RunningOK, ReadersOK, LaunchOver, Fresh
<1> QED
  BY <1>1, <1>2, <1>3, <1>4, <1>5, <1>6, <1>7, <1>8, <1>9 DEF Launch

LEMMA LifeKeeps == IInv /\ Next => LifeOK'
<1> SUFFICES ASSUME IInv, Next PROVE LifeOK'  OBVIOUS
<1>0. LifeOK  BY DEF IInv
<1>1. CASE Load
  <2>1. /\ ui = "loop" /\ loads < MaxLoad /\ loads' = loads + 1
        /\ launch' \in {launch, "begin"} /\ (launch' # launch => launch = "idle")
        /\ UNCHANGED <<ui, gen, process, thread, dataRead, running, dying,
                       readers, outlived, freed>>
    BY <1>1 DEF Load, uiVars, handles, childVars
  <2>2. gen \in Nat /\ loads \in Nat /\ gen <= loads
    BY BoundsAssumption DEF IInv, LifeOK, GenerationOK, PlaceOK
  <2>3. GenerationOK'  BY <1>0, <2>1, <2>2 DEF LifeOK, GenerationOK
  <2>4. HandlesOK'  BY <1>0, <2>1 DEF LifeOK, HandlesOK, Fresh
  <2>5. RunningOK' /\ ReadersOK'
    BY <1>0, <2>1 DEF LifeOK, RunningOK, ReadersOK
  <2>6. LaunchOver'  BY <2>1 DEF LaunchOver, UiStopping, Closing
  <2> QED  BY <2>3, <2>4, <2>5, <2>6 DEF LifeOK
<1>2. CASE EndLoop \/ Shutdown  BY <1>2, UiLife
<1>3. CASE Launch  BY <1>3, LaunchLife
<1>4. CASE ChangeLevel \/ TakeSetting \/ CallUserFunc \/ SendUserFunc
             \/ ChildReads \/ ChildCommits
  <2>1. UNCHANGED lifeVars
    BY <1>4 DEF ChangeLevel, TakeSetting, CallUserFunc, SendUserFunc,
       ChildReads, ChildCommits, lifeVars, bounds, uiVars, launchVars,
       handles, childVars, uiOnly, engineOnly, childOnly
  <2> QED  BY <1>0, <2>1, LifeIdle
<1>5. ASSUME NEW g \in Generation, ReadSetting(g) \/ EndReader(g) \/ ChildEnds(g)
      PROVE  LifeOK'
  <2>1. /\ UNCHANGED <<ui, launch, loads, gen, process, thread, dataRead,
                       outlived, freed>>
        /\ running' \subseteq running /\ dying' \subseteq dying
        /\ readers' \subseteq readers
    BY <1>5 DEF ReadSetting, EndReader, ChildEnds, bounds, uiVars,
       launchVars, handles, childVars, childOnly
  <2>2. GenerationOK' /\ HandlesOK' /\ LaunchOver'
    BY <1>0, <2>1 DEF LifeOK, GenerationOK, HandlesOK, LaunchOver
  <2>3. RunningOK' /\ ReadersOK'
    BY <1>0, <2>1 DEF LifeOK, RunningOK, ReadersOK
  <2> QED  BY <2>2, <2>3 DEF LifeOK
<1> QED  BY <1>1, <1>2, <1>3, <1>4, <1>5 DEF Next

-----------------------------------------------------------------------------
LEMMA NextKeeps == IInv /\ [Next]_vars => IInv'
<1> SUFFICES ASSUME IInv, [Next]_vars PROVE IInv'  OBVIOUS
<1>1. CASE Next
  BY <1>1, PlaceKeeps, SettingsKeep, LifeKeeps DEF IInv
<1>2. CASE UNCHANGED vars
  <2> USE DEF IInv, vars, bounds, uiVars, launchVars, handles, ctrlVars,
              childVars, slotVars
  <2>1. PlaceOK' /\ CtrlOK'  BY <1>2 DEF PlaceOK, CtrlOK
  <2>2. SettingsOK'  BY <1>2, SettingsIdle
  <2>3. LifeOK'  BY <1>2, LifeIdle DEF lifeVars
  <2> QED  BY <2>1, <2>2, <2>3
<1> QED  BY <1>1, <1>2

THEOREM Invariance == Spec => []IInv
BY InitInv, NextKeeps, PTL DEF Spec

(***************************************************************************)
(* Every variable keeps a value its declaration allows; in particular the  *)
(* pipes never hold more than their buffers.                               *)
(***************************************************************************)
THEOREM TypeCorrect == Spec => []TypeOK
<1>1. IInv => TypeOK
  <2> SUFFICES ASSUME IInv PROVE TypeOK  OBVIOUS
  <2> USE DEF IInv
  <2>1. /\ slot \in 0..MaxCommit /\ posted \in 0..MaxCommit
        /\ newest \in 0..MaxCommit /\ given \in 0..MaxCommit
        /\ commits \in 0..MaxCommit
    <3>1. Len(data) \in Nat  BY DEF SettingsOK
    <3> QED  BY <3>1, BoundsAssumption DEF SettingsOK
  <2>2. data \in Seq(1..MaxCommit) /\ Len(data) <= DataCap
    BY DEF SettingsOK
  <2>3. process \in 0..MaxLoad /\ thread \in 0..MaxLoad
        /\ dataRead \in 0..MaxLoad /\ gen \in 0..MaxLoad
    BY BoundsAssumption DEF LifeOK, GenerationOK, HandlesOK
  <2>4. /\ running \subseteq Generation /\ dying \subseteq Generation
        /\ readers \subseteq Generation
        /\ freed \in BOOLEAN /\ outlived \in BOOLEAN
    BY DEF LifeOK, RunningOK, ReadersOK
  <2>5. PlaceOK /\ CtrlOK  OBVIOUS
  <2> QED
    BY <2>1, <2>2, <2>3, <2>4, <2>5
    DEF TypeOK, PlaceOK, CtrlOK, UiStopping, Closing
<1> QED  BY <1>1, Invariance, PTL

(***************************************************************************)
(* When ~Mayu is done no scripter runs that was not told to terminate,     *)
(* whatever reload or launch it interrupted.                               *)
(***************************************************************************)
THEOREM NoOrphanIsLeft == Spec => []NoOrphan
<1>1. IInv => NoOrphan
  BY DEF IInv, LifeOK, RunningOK, NoOrphan, Closing
<1> QED  BY <1>1, Invariance, PTL

(***************************************************************************)
(* A reader never uses a handle that was closed or replaced, unless it was *)
(* kept from running through both bounded waits of forceStop().            *)
(***************************************************************************)
THEOREM ReadersGoFirst == Spec => []ReadersGone
<1>1. IInv => ReadersGone
  <2> SUFFICES ASSUME IInv, ~outlived, NEW g \in readers
               PROVE  g = thread /\ g = dataRead /\ ~freed
    BY DEF ReadersGone
  <2>1. g = thread /\ g \in 1..MaxLoad
    BY DEF IInv, LifeOK, ReadersOK, Generation
  <2>2. dataRead = thread
    BY <2>1, BoundsAssumption DEF IInv, LifeOK, HandlesOK
  <2>3. ~freed  BY DEF IInv, LifeOK, ReadersOK, Closing
  <2> QED  BY <2>1, <2>2, <2>3
<1> QED  BY <1>1, Invariance, PTL

-----------------------------------------------------------------------------
(* The register of the newest Setting *)

Closed == ui # "loop" \/ outlived

LEMMA StaysClosed ==
  ASSUME IInv, Next, Closed  PROVE Closed'
<1>1. CASE ui # "loop"
  <2>1. ui' # "loop"
    BY <1>1 DEF Next, Load, ChangeLevel, TakeSetting, EndLoop, Shutdown,
       WaitForPendingStart, UiSendQuit, UiStopReaders, UiWait, UiForceStop,
       UiKillWait, UiCloseHandles, Launch, LaunchBegin, LaunchQuit,
       LaunchStopReaders, LaunchGrace, LaunchKillWait, LaunchClose,
       LaunchPipes, LaunchSpawn, LaunchThreads, LaunchStart,
       LaunchSetNonBlocking, CallUserFunc, SendUserFunc, ChildReads,
       ChildCommits, ReadSetting, EndReader, ChildEnds, UiGoto, launchOnly,
       engineOnly, childOnly
  <2> QED  BY <2>1 DEF Closed
<1>2. CASE outlived
  <2>1. outlived'
    BY <1>2 DEF Next, Load, ChangeLevel, TakeSetting, EndLoop, Shutdown,
       WaitForPendingStart, UiSendQuit, UiStopReaders, UiWait, UiForceStop,
       UiKillWait, UiCloseHandles, Launch, LaunchBegin, LaunchQuit,
       LaunchStopReaders, LaunchGrace, LaunchKillWait, LaunchClose,
       LaunchPipes, LaunchSpawn, LaunchThreads, LaunchStart,
       LaunchSetNonBlocking, CallUserFunc, SendUserFunc, ChildReads,
       ChildCommits, ReadSetting, EndReader, ChildEnds, KillWait, uiOnly,
       engineOnly, childOnly
  <2> QED  BY <2>1 DEF Closed
<1> QED  BY <1>1, <1>2 DEF Closed

LEMMA GivesOrOffers ==
  ASSUME IInv, Next
  PROVE  \/ Closed'
         \/ /\ ~Closed /\ ~Closed'
            /\ \/ newest' \in Nat /\ newest' > newest /\ UNCHANGED given
               \/ given < newest /\ given' = newest /\ UNCHANGED newest
               \/ UNCHANGED <<given, newest>>
<1>1. SettingsOK  BY DEF IInv
<1>2. CASE TakeSetting
  <2>1. given' = (IF slot = 0 THEN given ELSE slot) /\ UNCHANGED newest
    BY <1>2 DEF TakeSetting
  <2> QED  BY <1>1, <2>1, StaysClosed DEF SettingsOK
<1>3. CASE \E g \in Generation : ReadSetting(g)
  <2>1. newest' > newest /\ UNCHANGED given  BY <1>1, <1>3, ReadSettingKeeps
  <2>2. newest' \in Nat  BY <1>1, <1>3, ReadSettingKeeps DEF SettingsOK
  <2> QED  BY <2>1, <2>2, StaysClosed
<1>4. CASE Elsewhere
  <2>1. UNCHANGED <<given, newest>>  BY <1>4, ElsewhereIdle
  <2> QED  BY <2>1, StaysClosed
<1>5. CASE ChildCommits
  <2>1. UNCHANGED <<given, newest>>
    BY <1>5 DEF ChildCommits, childOnly, uiVars, slotVars
  <2> QED  BY <2>1, StaysClosed
<1>6. CASE UiCloseHandles
  <2>1. ui' # "loop"  BY <1>6 DEF UiCloseHandles, UiGoto
  <2> QED  BY <2>1 DEF Closed
<1> QED  BY <1>2, <1>3, <1>4, <1>5, <1>6 DEF Elsewhere

(***************************************************************************)
(* The single slot for a finished Setting (setPendingSetting(),            *)
(* takePendingSetting()) implements the register of the newest Setting:    *)
(* the engine never gets an older Setting after a newer one, nor the same  *)
(* one twice.  That it gets the newest in the end is left to TLC.          *)
(***************************************************************************)
THEOREM ImplementsRegister == Spec => Newest!Spec
<1>1. Init => Newest!Init
  <2> SUFFICES ASSUME Init PROVE Newest!Init  OBVIOUS
  <2>1. newest = 0 /\ given = 0 /\ ui = "loop" /\ outlived = FALSE
    BY DEF Init
  <2>2. (ui # "loop" \/ outlived) = FALSE  BY <2>1, Zenon
  <2> QED  BY <2>1, <2>2 DEF Newest!Init
<1>2. IInv /\ [Next]_vars => [Newest!Next]_(Newest!vars)
  <2> SUFFICES ASSUME IInv, [Next]_vars
               PROVE  [Newest!Next]_(Newest!vars)
    OBVIOUS
  <2>1. CASE UNCHANGED vars
    BY <2>1 DEF vars, uiVars, slotVars, Newest!vars
  <2>2. CASE Next /\ Closed'
    BY <2>2 DEF Closed, Newest!Next, Newest!Close
  <2>3. CASE Next /\ ~Closed'
    <3>1. /\ ~Closed
          /\ \/ newest' \in Nat /\ newest' > newest /\ UNCHANGED given
             \/ given < newest /\ given' = newest /\ UNCHANGED newest
             \/ UNCHANGED <<given, newest>>
      BY <2>3, GivesOrOffers
    <3>2. (ui # "loop" \/ outlived)' = (ui # "loop" \/ outlived)
      BY <2>3, <3>1, Zenon DEF Closed
    <3>3. ~(ui # "loop" \/ outlived)  BY <3>1 DEF Closed
    <3> QED
      BY <3>1, <3>2, <3>3
      DEF Newest!Next, Newest!Offer, Newest!Give, Newest!vars
  <2> QED  BY <2>1, <2>2, <2>3
<1> QED  BY <1>1, <1>2, Invariance, PTL DEF Spec, Newest!Spec

-----------------------------------------------------------------------------
(***************************************************************************)
(* IndexesResolve, of SettingScript.  The argument:                        *)
(*   - Pieces is defined by recursion over a sequence and into its         *)
(*     arguments; it goes down by Size, so that the definition holds of it *)
(*     (PiecesDef), and every argument becomes a sequence that is found by *)
(*     its index (PiecesFlatten).  The induction is one over numbers, by   *)
(*     the least one a claim fails for.                                    *)
(*   - FoldLeft has a result for each front of its sequence (FoldedNumber, *)
(*     FoldedEmit, FoldedDequeue: the lemma cannot be stated for every     *)
(*     operator at once), so that Registered counts as a reader does.      *)
(*   - StreamOK, what IndexesResolve says of a stream, holds of the first  *)
(*     commands of a flush (FlushStarts) and is kept by every statement    *)
(*     and by every queued call (EmitKeeps, DequeueKeeps).                 *)
(*   - LoadingOK says the same of what the script has registered, together *)
(*     with what it holds and has queued; each call keeps it.              *)
(***************************************************************************)

\* Every set of numbers that is not empty has a least one, ...
LEMMA LeastNat ==
  ASSUME NEW T \in SUBSET Nat, T # {}
  PROVE  \E x \in T : \A y \in T : x <= y
<1> DEFINE R == OpToRel(<, Nat)
<1>1. IsWellFoundedOn(R, Nat)  BY NatLessThanWellFounded
<1>2. \A x, y \in Nat : x < y => <<x, y>> \in R  BY DEF OpToRel
<1> HIDE DEF R
<1>3. PICK x \in T : \A y \in T : <<y, x>> \notin R  BY <1>1, WFMin
<1>4. \A y \in T : y \in Nat  OBVIOUS
<1>5. \A y \in T : ~(y < x)  BY <1>2, <1>3, <1>4
<1> QED  BY <1>4, <1>5

\* ... and one that is bounded has a greatest one.
LEMMA MaxOf ==
  ASSUME NEW n \in Nat, NEW T \in SUBSET (1..n), T # {}
  PROVE  Max(T) \in T /\ \A y \in T : y <= Max(T)
<1> DEFINE U == {n - x : x \in T}
<1>0. \A x \in T : x \in 1..n /\ n - x \in Nat  OBVIOUS
<1>1. U \subseteq Nat /\ U # {}  BY <1>0
<1>2. PICK u \in U : \A y \in U : u <= y  BY <1>1, LeastNat
<1>3. PICK t \in T : u = n - t  BY <1>2
<1>4. \A y \in T : t >= y
  <2> TAKE y \in T
  <2>1. n - t <= n - y  BY <1>2, <1>3
  <2> QED  BY <2>1
<1> QED  BY <1>3, <1>4 DEF Max

\* Induction, for sets of numbers.
LEMMA NumbersIn ==
  ASSUME NEW S, 0 \in S, \A n \in Nat : n \in S => n + 1 \in S
  PROVE  Nat \subseteq S
<1> SUFFICES ASSUME Nat \ S # {} PROVE FALSE  OBVIOUS
<1>1. PICK x \in Nat \ S : \A y \in Nat \ S : x <= y
  <2>1. Nat \ S \in SUBSET Nat  OBVIOUS
  <2> QED  BY <2>1, LeastNat
<1>2. x # 0 /\ x - 1 \in Nat /\ x = (x - 1) + 1  BY <1>1
<1>3. x - 1 \notin S  BY <1>2
<1> QED  BY <1>1, <1>2, <1>3


\* What the provers have to be told about any sequence: its domain, ...
LEMMA SeqFacts ==
  ASSUME NEW S, NEW s \in Seq(S)
  PROVE  IsList(s) /\ Len(s) \in Nat /\ DOMAIN s = 1..Len(s)
<1>1. Len(s) \in Nat /\ DOMAIN s = 1..Len(s) /\ s = [i \in 1..Len(s) |-> s[i]]  OBVIOUS
<1>2. \A i \in 1..Len(s) : s[i] \in ToSet(s)  BY <1>1 DEF ToSet
<1>3. s \in [1..Len(s) -> ToSet(s)]  BY <1>1, <1>2
<1>4. s \in Seq(ToSet(s))  BY <1>1, <1>3, SeqDef
<1> QED  BY <1>1, <1>4 DEF IsList

\* ... what Append() does to it, ...
LEMMA AppendedTo ==
  ASSUME NEW s, IsList(s), NEW x
  PROVE  /\ IsList(Append(s, x)) /\ Len(s) \in Nat /\ DOMAIN s = 1..Len(s)
         /\ DOMAIN Append(s, x) = 1..(Len(s) + 1) /\ Len(Append(s, x)) = Len(s) + 1
         /\ \A i \in 1..Len(s) : Append(s, x)[i] = s[i]
         /\ Append(s, x)[Len(s) + 1] = x
<1> DEFINE S == ToSet(s) \cup {x}
<1>1. s \in Seq(S) /\ x \in S
  <2>1. s \in Seq(ToSet(s)) /\ ToSet(s) \subseteq S  BY DEF IsList
  <2> HIDE DEF S
  <2>2. s \in Seq(S)  BY <2>1, SeqMonotonic
  <2> QED  BY <2>2 DEF S
<1> HIDE DEF S
<1>2. /\ Append(s, x) \in Seq(S) /\ Len(Append(s, x)) = Len(s) + 1
      /\ \A i \in 1..Len(s) : Append(s, x)[i] = s[i]
      /\ Append(s, x)[Len(s) + 1] = x
  BY <1>1, AppendProperties
<1>3. IsList(Append(s, x)) /\ DOMAIN Append(s, x) = 1..Len(Append(s, x))  BY <1>2, SeqFacts
<1>4. Len(s) \in Nat /\ DOMAIN s = 1..Len(s)  BY <1>1, SeqFacts
<1> QED  BY <1>2, <1>3, <1>4
(* Sequences put into one. *)

\* What is known of two sequences one after the other.
LEMMA Joined ==
  ASSUME NEW s, NEW t, IsList(s), IsList(t)
  PROVE  /\ IsList(s \o t) /\ Len(s) \in Nat /\ Len(t) \in Nat
         /\ DOMAIN s = 1..Len(s) /\ DOMAIN t = 1..Len(t)
         /\ DOMAIN (s \o t) = 1..(Len(s) + Len(t)) /\ Len(s \o t) = Len(s) + Len(t)
         /\ \A n \in 1..Len(s) : (s \o t)[n] = s[n]
         /\ \A n \in 1..Len(t) : (s \o t)[Len(s) + n] = t[n]
<1> DEFINE S == ToSet(s) \cup ToSet(t)
<1>1. s \in Seq(S) /\ t \in Seq(S)
  <2>1. s \in Seq(ToSet(s)) /\ ToSet(s) \subseteq S  BY DEF IsList
  <2>2. t \in Seq(ToSet(t)) /\ ToSet(t) \subseteq S  BY DEF IsList
  <2> HIDE DEF S
  <2> QED  BY <2>1, <2>2, SeqMonotonic
<1> HIDE DEF S
<1>2. /\ s \o t \in Seq(S) /\ Len(s \o t) = Len(s) + Len(t)
      /\ \A n \in 1..Len(s) : (s \o t)[n] = s[n]
      /\ \A n \in 1..Len(t) : (s \o t)[Len(s) + n] = t[n]
  BY <1>1
<1>3. IsList(s \o t) /\ DOMAIN (s \o t) = 1..Len(s \o t)  BY <1>2, SeqFacts
<1>4. /\ Len(s) \in Nat /\ DOMAIN s = 1..Len(s)
      /\ Len(t) \in Nat /\ DOMAIN t = 1..Len(t)
  BY <1>1, SeqFacts
<1> QED  BY <1>2, <1>3, <1>4

LEMMA ListFrom ==
  ASSUME NEW n \in Nat, NEW f, DOMAIN f = 1..n, f = [i \in 1..n |-> f[i]]
  PROVE  IsList(f) /\ Len(f) = n
<1>1. \A i \in 1..n : f[i] \in ToSet(f)  BY DEF ToSet
<1>2. f \in [1..n -> ToSet(f)]  BY <1>1
<1>3. f \in Seq(ToSet(f))  BY <1>2, SeqDef
<1> QED  BY <1>3 DEF IsList

\* Two lists of the same elements are the same.
LEMMA SameList ==
  ASSUME NEW s, NEW t, IsList(s), IsList(t), Len(s) = Len(t),
         \A i \in 1..Len(s) : s[i] = t[i]
  PROVE  s = t
<1> DEFINE S == ToSet(s) \cup ToSet(t)
<1>1. s \in Seq(S) /\ t \in Seq(S)
  <2>1. s \in Seq(ToSet(s)) /\ ToSet(s) \subseteq S  BY DEF IsList
  <2>2. t \in Seq(ToSet(t)) /\ ToSet(t) \subseteq S  BY DEF IsList
  <2> HIDE DEF S
  <2> QED  BY <2>1, <2>2, SeqMonotonic
<1> HIDE DEF S
<1> QED  BY <1>1, SeqEqual

-----------------------------------------------------------------------------
Point == KeySeqs \X Nat \X Nat

StepOf(F, x) ==
    LET q == x[1]
        n == x[2]
        base == x[3]
        r == F[<<q, n - 1, base>>]
        p == q[n]
        at == base + Len(r.regs)
        arg == F[<<p.lit, Len(p.lit), at>>]
    IN  IF n \notin DOMAIN q THEN [acts |-> <<>>, regs |-> <<>>]
        ELSE IF p.t # "arg" THEN [r EXCEPT !.acts = Append(@, p)]
        ELSE [acts |-> Append(r.acts, [t |-> "idx", idx |-> IndexAfter(at, arg.regs)]),
              regs |-> r.regs \o arg.regs \o <<Entry("", p.lit, arg.acts)>>]

\* Pieces goes down: to fewer pieces of the same sequence, or into an argument.
Deep(x) == Size[x[1]] + x[2]

Within(x, k) == x[2] \in DOMAIN x[1] => Deep(x) < k

Before(x) == <<x[1], x[2] - 1, x[3]>>

Inside(x, at) == <<x[1][x[2]].lit, Len(x[1][x[2]].lit), at>>

LEMMA KeySeqFacts ==
  ASSUME NEW q \in KeySeqs
  PROVE  /\ IsList(q) /\ Len(q) \in Nat /\ DOMAIN q = 1..Len(q) /\ Size[q] \in Nat
         /\ \A i \in DOMAIN q : /\ q[i].t # "idx"
                                /\ q[i].t = "arg" => /\ q[i].lit \in KeySeqs
                                                     /\ Size[q[i].lit] + Len(q[i].lit) <= Size[q]
<1>1. IsList(q)  BY KeySeqsAssumption
<1>2. Len(q) \in Nat /\ DOMAIN q = 1..Len(q)  BY <1>1, SeqFacts DEF IsList
<1> QED  BY <1>1, <1>2, KeySeqsAssumption

LEMMA GoesDown ==
  ASSUME NEW x \in Point, x[2] \in DOMAIN x[1]
  PROVE  /\ Before(x) \in Point /\ Within(Before(x), Deep(x)) /\ Deep(x) \in Nat
         /\ x[1][x[2]].t = "arg" =>
              \A at \in Nat : Inside(x, at) \in Point /\ Within(Inside(x, at), Deep(x))
<1> DEFINE q == x[1]
           n == x[2]
<1>1. q \in KeySeqs /\ n \in Nat /\ x[3] \in Nat  BY DEF Point
<1>2. Len(q) \in Nat /\ n \in 1..Len(q) /\ Size[q] \in Nat  BY <1>1, KeySeqFacts
<1>3. Before(x) \in Point /\ Within(Before(x), Deep(x)) /\ Deep(x) \in Nat
  BY <1>1, <1>2 DEF Before, Within, Deep, Point
<1>4. ASSUME q[n].t = "arg", NEW at \in Nat
      PROVE  Inside(x, at) \in Point /\ Within(Inside(x, at), Deep(x))
  <2> DEFINE lit == q[n].lit
  <2>1. lit \in KeySeqs /\ Size[lit] + Len(lit) <= Size[q]  BY <1>1, <1>4, KeySeqFacts
  <2>2. Len(lit) \in Nat /\ Size[lit] \in Nat  BY <2>1, KeySeqFacts
  <2>3. Inside(x, at) = <<lit, Len(lit), at>>  BY DEF Inside
  <2>4. Size[lit] + Len(lit) < Size[q] + n  BY <1>2, <2>1, <2>2
  <2> HIDE DEF lit
  <2> QED  BY <2>1, <2>2, <2>3, <2>4 DEF Within, Deep, Point
<1> QED  BY <1>3, <1>4

Lists(r) == r = [acts |-> r.acts, regs |-> r.regs] /\ IsList(r.acts) /\ IsList(r.regs)

LEMMA EmptyList == IsList(<<>>) /\ Len(<<>>) = 0
BY EmptySeq, SeqFacts

LEMMA OneList ==
  ASSUME NEW e
  PROVE  IsList(<<e>>) /\ Len(<<e>>) = 1 /\ <<e>>[1] = e
<1>1. <<e>> \in Seq({e})  OBVIOUS
<1> QED  BY <1>1, SeqFacts

LEMMA StepLists ==
  ASSUME NEW F, NEW x \in Point,
         x[2] \in DOMAIN x[1] =>
           /\ Lists(F[Before(x)])
           /\ \A at \in Nat : x[1][x[2]].t = "arg" => Lists(F[Inside(x, at)])
  PROVE  Lists(StepOf(F, x))
<1> DEFINE r == F[Before(x)]
           p == x[1][x[2]]
           at == x[3] + Len(r.regs)
           arg == F[Inside(x, at)]
<1>1. CASE x[2] \notin DOMAIN x[1]  BY <1>1, EmptyList DEF StepOf, Lists
<1>2. CASE x[2] \in DOMAIN x[1] /\ p.t # "arg"
  <2>1. StepOf(F, x) = [r EXCEPT !.acts = Append(@, p)]  BY <1>2 DEF StepOf, Before
  <2>2. Lists(r)  BY <1>2
  <2>3. IsList(Append(r.acts, p))  BY <2>2, AppendedTo DEF Lists
  <2> HIDE DEF r, p
  <2>4. StepOf(F, x) = [acts |-> Append(r.acts, p), regs |-> r.regs]  BY <2>1, <2>2 DEF Lists
  <2> QED  BY <2>2, <2>3, <2>4 DEF Lists
<1>3. CASE x[2] \in DOMAIN x[1] /\ p.t = "arg"
  <2> DEFINE new == [t |-> "idx", idx |-> IndexAfter(at, arg.regs)]
             e == Entry("", p.lit, arg.acts)
  <2>1. StepOf(F, x) = [acts |-> Append(r.acts, new), regs |-> r.regs \o arg.regs \o <<e>>]
    BY <1>3 DEF StepOf, Before, Inside
  <2>2. Lists(r)  BY <1>3
  <2>3. at \in Nat
    <3>1. Len(r.regs) \in Nat  BY <2>2, SeqFacts DEF Lists, IsList
    <3> QED  BY <3>1 DEF Point
  <2>4. Lists(arg)  BY <1>3, <2>3
  <2> HIDE DEF r, arg, new, e
  <2>5. IsList(Append(r.acts, new)) /\ IsList(r.regs \o arg.regs)
    BY <2>2, <2>4, AppendedTo, Joined DEF Lists
  <2>6. IsList(r.regs \o arg.regs \o <<e>>)  BY <2>5, OneList, Joined
  <2> QED  BY <2>1, <2>5, <2>6 DEF Lists
<1> QED  BY <1>1, <1>2, <1>3

\* What a step looks at determines it.
LEMMA StepSame ==
  ASSUME NEW F, NEW G, NEW x \in Point,
         x[2] \in DOMAIN x[1] =>
           /\ F[Before(x)] = G[Before(x)] /\ Lists(F[Before(x)])
           /\ x[1][x[2]].t = "arg" => \A at \in Nat : F[Inside(x, at)] = G[Inside(x, at)]
  PROVE  StepOf(F, x) = StepOf(G, x)
<1> DEFINE r == F[Before(x)]
           p == x[1][x[2]]
           at == x[3] + Len(r.regs)
<1>1. CASE x[2] \notin DOMAIN x[1]  BY <1>1 DEF StepOf
<1>2. CASE x[2] \in DOMAIN x[1] /\ p.t # "arg"  BY <1>2 DEF StepOf, Before
<1>3. CASE x[2] \in DOMAIN x[1] /\ p.t = "arg"
  <2>1. Len(r.regs) \in Nat  BY <1>3, SeqFacts DEF Lists, IsList
  <2>2. at \in Nat  BY <2>1 DEF Point
  <2>3. F[Inside(x, at)] = G[Inside(x, at)] /\ F[Before(x)] = G[Before(x)]  BY <1>3, <2>2
  <2> QED  BY <1>3, <2>3 DEF StepOf, Before, Inside
<1> QED  BY <1>1, <1>2, <1>3

-----------------------------------------------------------------------------
\* F is right as deep as k.
Right(F, k) ==
  \A x \in Point : Within(x, k) => F[x] = StepOf(F, x) /\ Lists(F[x])

LEMMA WithinMore ==
  ASSUME NEW x \in Point, NEW j \in Nat, NEW k \in Nat, j <= k, Within(x, j)
  PROVE  Within(x, k)
<1>1. x[2] \in DOMAIN x[1] => Deep(x) \in Nat  BY GoesDown
<1> QED  BY <1>1 DEF Within

LEMMA RightLess ==
  ASSUME NEW F, NEW j \in Nat, NEW k \in Nat, j <= k, Right(F, k)
  PROVE  Right(F, j)
BY WithinMore DEF Right

LEMMA RightAgree ==
  ASSUME NEW F, NEW G, NEW k \in Nat, Right(F, k), Right(G, k)
  PROVE  \A x \in Point : Within(x, k) => F[x] = G[x]
<1> DEFINE T == {j \in Nat : j <= k => \A x \in Point : Within(x, j) => F[x] = G[x]}
<1>1. ASSUME NEW j \in Nat, j <= k, NEW x \in Point, Within(x, j),
             \A i \in Nat : i < j => i \in T
      PROVE  F[x] = G[x]
  <2>0. Within(x, k)  BY <1>1, WithinMore
  <2>1. F[x] = StepOf(F, x) /\ G[x] = StepOf(G, x)  BY <2>0 DEF Right
  <2>2. ASSUME x[2] \in DOMAIN x[1]
        PROVE  /\ F[Before(x)] = G[Before(x)] /\ Lists(F[Before(x)])
               /\ x[1][x[2]].t = "arg" => \A at \in Nat : F[Inside(x, at)] = G[Inside(x, at)]
    <3>1. Deep(x) < j /\ Deep(x) \in Nat  BY <1>1, <2>2, GoesDown DEF Within
    <3>2. \A y \in Point : Within(y, Deep(x)) => F[y] = G[y]  BY <1>1, <3>1
    <3>3. Before(x) \in Point /\ Within(Before(x), Deep(x))  BY <2>2, GoesDown
    <3>4. Within(Before(x), k)  BY <1>1, <3>1, <3>3, WithinMore
    <3>5. Lists(F[Before(x)])  BY <3>3, <3>4 DEF Right
    <3> QED  BY <2>2, <3>2, <3>3, <3>5, GoesDown
  <2>3. StepOf(F, x) = StepOf(G, x)  BY <2>2, StepSame
  <2> QED  BY <2>1, <2>3
<1>2. Nat \ T = {}
  <2> SUFFICES ASSUME Nat \ T # {} PROVE FALSE  OBVIOUS
  <2>1. PICK j \in Nat \ T : \A i \in Nat \ T : j <= i
    <3>1. Nat \ T \in SUBSET Nat  OBVIOUS
    <3> HIDE DEF T
    <3> QED  BY <3>1, LeastNat
  <2>2. \A i \in Nat : i < j => i \in T
    <3> HIDE DEF T
    <3> QED  BY <2>1
  <2>3. j <= k /\ \E x \in Point : Within(x, j) /\ F[x] # G[x]  BY <2>1
  <2> HIDE DEF T
  <2> QED  BY <1>1, <2>1, <2>2, <2>3
<1> QED  BY <1>2

LEMMA RightExists == \A k \in Nat : \E F : Right(F, k)
<1> DEFINE T == {k \in Nat : \E F : Right(F, k)}
<1>1. 0 \in T
  <2> DEFINE F == [x \in Point |-> [acts |-> <<>>, regs |-> <<>>]]
  <2>1. ASSUME NEW x \in Point, Within(x, 0) PROVE F[x] = StepOf(F, x) /\ Lists(F[x])
    <3>1. x[2] \notin DOMAIN x[1]  BY <2>1, GoesDown DEF Within
    <3>2. StepOf(F, x) = [acts |-> <<>>, regs |-> <<>>]  BY <3>1 DEF StepOf
    <3>3. F[x] = [acts |-> <<>>, regs |-> <<>>]  OBVIOUS
    <3> HIDE DEF F
    <3> QED  BY <3>2, <3>3, EmptyList DEF Lists
  <2> HIDE DEF F
  <2>2. Right(F, 0)  BY <2>1 DEF Right
  <2> QED  BY <2>2
<1>2. ASSUME NEW k \in Nat, k \in T PROVE k + 1 \in T
  <2>1. PICK F : Right(F, k)  BY <1>2
  <2> DEFINE G == [x \in Point |-> StepOf(F, x)]
  <2>2. \A x \in Point : G[x] = StepOf(F, x)  OBVIOUS
  <2> HIDE DEF G
  <2>3. \A x \in Point : Within(x, k) => G[x] = F[x] /\ Lists(G[x])  BY <2>1, <2>2 DEF Right
  <2>4. ASSUME NEW x \in Point, Within(x, k + 1) PROVE G[x] = StepOf(G, x) /\ Lists(G[x])
    <3>1. ASSUME x[2] \in DOMAIN x[1]
          PROVE  /\ F[Before(x)] = G[Before(x)] /\ Lists(F[Before(x)])
                 /\ x[1][x[2]].t = "arg" =>
                      \A at \in Nat : F[Inside(x, at)] = G[Inside(x, at)] /\ Lists(F[Inside(x, at)])
      <4>1. Deep(x) <= k /\ Deep(x) \in Nat  BY <2>4, <3>1, GoesDown DEF Within
      <4>2. \A y \in Point : Within(y, Deep(x)) => Within(y, k)  BY <4>1, WithinMore
      <4>3. \A y \in Point : Within(y, Deep(x)) => F[y] = G[y] /\ Lists(F[y])  BY <2>3, <4>2
      <4> QED  BY <3>1, <4>3, GoesDown
    <3>2. StepOf(F, x) = StepOf(G, x)  BY <3>1, StepSame
    <3>3. Lists(StepOf(F, x))  BY <3>1, StepLists
    <3> QED  BY <2>2, <3>2, <3>3
  <2>5. Right(G, k + 1)  BY <2>4 DEF Right
  <2> QED  BY <2>5
<1> HIDE DEF T
<1>3. Nat \subseteq T  BY <1>1, <1>2, NumbersIn
<1> QED  BY <1>3 DEF T

\* So the recursive definition defines something.
LEMMA PiecesDef ==
  ASSUME NEW x \in Point
  PROVE  Pieces[x] = StepOf(Pieces, x) /\ Lists(Pieces[x])
<1> DEFINE k(y) == IF y[2] \in DOMAIN y[1] THEN Deep(y) + 1 ELSE 0
           F == [y \in Point |-> (CHOOSE G : Right(G, k(y)))[y]]
<1>1. \A y \in Point : k(y) \in Nat /\ Within(y, k(y))  BY GoesDown DEF Within
<1> HIDE DEF k
<1>2. ASSUME NEW y \in Point, NEW j \in Nat, NEW G, Right(G, j), Within(y, j), k(y) <= j
      PROVE  F[y] = G[y] /\ Lists(F[y])
  <2>1. PICK H : H = CHOOSE K : Right(K, k(y))  OBVIOUS
  <2>2. F[y] = H[y]  BY <2>1
  <2>3. Right(H, k(y))  BY <1>1, <2>1, RightExists
  <2>4. Right(G, k(y))  BY <1>1, <1>2, RightLess
  <2>5. H[y] = G[y]  BY <1>1, <2>3, <2>4, RightAgree
  <2>6. Lists(H[y])  BY <1>1, <2>3 DEF Right
  <2> QED  BY <2>2, <2>5, <2>6
<1> HIDE DEF F
<1>3. ASSUME NEW y \in Point PROVE F[y] = StepOf(F, y) /\ Lists(F[y])
  <2>1. PICK G : Right(G, k(y))  BY <1>1, RightExists
  <2>2. F[y] = G[y] /\ G[y] = StepOf(G, y) /\ Lists(F[y])  BY <1>1, <1>2, <2>1 DEF Right
  <2>3. ASSUME y[2] \in DOMAIN y[1], NEW z \in Point, Within(z, Deep(y))
        PROVE  G[z] = F[z] /\ Lists(G[z])
    <3>1. k(y) = Deep(y) + 1 /\ Deep(y) \in Nat  BY <2>3, GoesDown DEF k
    <3>2. Within(z, k(y)) /\ k(z) <= k(y)
      <4>1. Within(z, k(y))  BY <2>3, <3>1, WithinMore
      <4>2. k(z) <= k(y)  BY <2>3, <3>1, GoesDown DEF k, Within
      <4> QED  BY <4>1, <4>2
    <3> QED  BY <1>1, <1>2, <2>1, <3>2
  <2>4. StepOf(G, y) = StepOf(F, y)
    <3>1. y[2] \in DOMAIN y[1] =>
           /\ G[Before(y)] = F[Before(y)] /\ Lists(G[Before(y)])
           /\ y[1][y[2]].t = "arg" => \A at \in Nat : G[Inside(y, at)] = F[Inside(y, at)]
      BY <2>3, GoesDown
    <3> QED  BY <3>1, StepSame
  <2> QED  BY <2>2, <2>4
<1>4. F = [y \in Point |-> StepOf(F, y)]
  <2>1. F = [y \in Point |-> F[y]]  BY DEF F
  <2> QED  BY <1>3, <2>1
<1>5. Pieces = [y \in Point |-> StepOf(Pieces, y)]  BY <1>4 DEF Pieces, StepOf, Point
<1> DEFINE P == Pieces
<1>6. \A y \in Point : Pieces[y] = StepOf(Pieces, y)
  <2>1. P = [y \in Point |-> StepOf(P, y)]  BY <1>5
  <2> HIDE DEF P
  <2>2. \A y \in Point : P[y] = StepOf(P, y)  BY <2>1
  <2> QED  BY <2>2 DEF P
<1>7. ASSUME NEW m \in Nat PROVE \A y \in Point : Within(y, m) => Lists(Pieces[y])
  <2> DEFINE T == {j \in Nat : \A y \in Point : Within(y, j) => Lists(Pieces[y])}
  <2>1. ASSUME NEW y \in Point,
               y[2] \in DOMAIN y[1] => \A z \in Point : Within(z, Deep(y)) => Lists(Pieces[z])
        PROVE  Lists(Pieces[y])
    <3>1. Lists(StepOf(Pieces, y))  BY <2>1, StepLists, GoesDown
    <3> QED  BY <1>6, <3>1
  <2>2. 0 \in T
    <3>1. \A y \in Point : Within(y, 0) => y[2] \notin DOMAIN y[1]  BY GoesDown DEF Within
    <3> QED  BY <2>1, <3>1
  <2>3. ASSUME NEW j \in Nat, j \in T PROVE j + 1 \in T
    <3>1. ASSUME NEW y \in Point, Within(y, j + 1) PROVE Lists(Pieces[y])
      <4>1. y[2] \in DOMAIN y[1] => Deep(y) <= j /\ Deep(y) \in Nat  BY <3>1, GoesDown DEF Within
      <4>2. y[2] \in DOMAIN y[1] => \A z \in Point : Within(z, Deep(y)) => Within(z, j)
        BY <4>1, WithinMore
      <4> QED  BY <2>1, <2>3, <4>2
    <3> QED  BY <3>1
  <2> HIDE DEF T
  <2>4. Nat \subseteq T  BY <2>2, <2>3, NumbersIn
  <2> QED  BY <2>4 DEF T
<1> QED  BY <1>1, <1>6, <1>7

-----------------------------------------------------------------------------
(* What Pieces makes of a sequence. *)

\* an argument is where its index says, the first of regs having index b
Found(act, piece, regs, b) ==
  IF piece.t # "arg" THEN act = piece
  ELSE /\ act.t = "idx" /\ act.idx \in Nat /\ act.idx >= b /\ act.idx < b + Len(regs)
       /\ regs[act.idx - b + 1].name = "" /\ regs[act.idx - b + 1].lit = piece.lit

\* a sequence and the sequences it refers to
Stands(e, regs, b) ==
  /\ e = Entry(e.name, e.lit, e.acts) /\ e.lit \in KeySeqs
  /\ IsList(e.acts) /\ Len(e.acts) = Len(e.lit)
  /\ \A i \in 1..Len(e.lit) : Found(e.acts[i], e.lit[i], regs, b)

AllStand(regs, b) ==
  \A j \in 1..Len(regs) : regs[j].name = "" /\ Stands(regs[j], regs, b)

\* With more sequences behind, or in front, what was found is found.
Embeds(more, d, regs) ==
  /\ IsList(regs) /\ IsList(more) /\ Len(more) >= d + Len(regs)
  /\ \A j \in 1..Len(regs) : more[d + j] = regs[j]

LEMMA FoundMore ==
  ASSUME NEW regs, NEW more, NEW d \in Nat, NEW b \in Nat, NEW c, c = b + d,
         Embeds(more, d, regs)
  PROVE  \A act, piece : Found(act, piece, regs, c) => Found(act, piece, more, b)
<1> SUFFICES ASSUME NEW act, NEW piece, Found(act, piece, regs, c)
             PROVE  Found(act, piece, more, b)
  OBVIOUS
<1>1. Len(regs) \in Nat /\ Len(more) \in Nat  BY SeqFacts DEF IsList, Embeds
<1>2. CASE piece.t # "arg"  BY <1>2 DEF Found
<1>3. CASE piece.t = "arg"
  <2>1. act.idx \in Nat /\ act.idx >= c /\ act.idx < c + Len(regs)  BY <1>3 DEF Found
  <2>2. act.idx - c + 1 \in 1..Len(regs) /\ d + (act.idx - c + 1) = act.idx - b + 1  BY <1>1, <2>1
  <2>3. more[act.idx - b + 1] = regs[act.idx - c + 1]
    <3>1. more[d + (act.idx - c + 1)] = regs[act.idx - c + 1]  BY <2>2 DEF Embeds
    <3> QED  BY <2>2, <3>1
  <2>4. act.idx >= b /\ act.idx < b + Len(more)
    <3>1. Len(more) >= d + Len(regs)  BY DEF Embeds
    <3> QED  BY <1>1, <2>1, <3>1
  <2> QED  BY <1>3, <2>1, <2>3, <2>4 DEF Found
<1> QED  BY <1>2, <1>3

LEMMA StandsMore ==
  ASSUME NEW regs, NEW more, NEW d \in Nat, NEW b \in Nat, NEW c, c = b + d,
         Embeds(more, d, regs), NEW e, Stands(e, regs, c)
  PROVE  Stands(e, more, b)
BY FoundMore DEF Stands

\* the result for the first pieces of q
Flattened(r, q, n, b) ==
  /\ Lists(r) /\ Len(r.acts) = n
  /\ \A i \in 1..n : Found(r.acts[i], q[i], r.regs, b)
  /\ AllStand(r.regs, b)

LEMMA FlattenKey ==
  ASSUME NEW q \in KeySeqs, NEW n \in 1..Len(q), NEW b \in Nat, NEW r,
         Flattened(r, q, n - 1, b), q[n].t # "arg"
  PROVE  Flattened([acts |-> Append(r.acts, q[n]), regs |-> r.regs], q, n, b)
<1> DEFINE s == [acts |-> Append(r.acts, q[n]), regs |-> r.regs]
<1>0. Len(q) \in Nat /\ n \in Nat  BY KeySeqFacts
<1>1. IsList(r.acts) /\ Len(r.acts) = n - 1  BY DEF Flattened, Lists
<1>2. /\ IsList(s.acts) /\ Len(s.acts) = n /\ s.acts[n] = q[n]
      /\ \A i \in 1..(n - 1) : s.acts[i] = r.acts[i]
  BY <1>0, <1>1, AppendedTo
<1>3. s.regs = r.regs /\ s = [acts |-> s.acts, regs |-> s.regs]  OBVIOUS
<1> HIDE DEF s
<1>4. ASSUME NEW i \in 1..n PROVE Found(s.acts[i], q[i], r.regs, b)
  <2>1. CASE i = n  BY <1>2, <2>1 DEF Found
  <2>2. CASE i # n
    <3>1. i \in 1..(n - 1)  BY <1>0, <2>2
    <3> QED  BY <1>2, <3>1 DEF Flattened
  <2> QED  BY <2>1, <2>2
<1>5. Flattened(s, q, n, b)  BY <1>2, <1>3, <1>4 DEF Flattened, Lists
<1> QED  BY <1>5 DEF s

LEMMA LastPlace ==
  ASSUME NEW b \in Nat, NEW m \in Nat, NEW k \in Nat
  PROVE  LET end == b + m + k
         IN  end \in Nat /\ end >= b /\ end < b + (m + k + 1) /\ end - b + 1 = m + k + 1
OBVIOUS

LEMMA FlattenArg ==
  ASSUME NEW q \in KeySeqs, NEW n \in 1..Len(q), NEW b \in Nat, NEW r, NEW arg,
         Flattened(r, q, n - 1, b), q[n].t = "arg",
         Flattened(arg, q[n].lit, Len(q[n].lit), b + Len(r.regs))
  PROVE  Flattened([acts |-> Append(r.acts,
                       [t |-> "idx", idx |-> IndexAfter(b + Len(r.regs), arg.regs)]),
                    regs |-> r.regs \o arg.regs \o <<Entry("", q[n].lit, arg.acts)>>], q, n, b)
<1> DEFINE lit == q[n].lit
           at == b + Len(r.regs)
           end == IndexAfter(at, arg.regs)
           new == [t |-> "idx", idx |-> end]
           e == Entry("", lit, arg.acts)
           most == r.regs \o arg.regs
           all == most \o <<e>>
           acts == Append(r.acts, new)
<1>0. Len(q) \in Nat /\ n \in Nat /\ lit \in KeySeqs  BY KeySeqFacts
<1>1. IsList(r.acts) /\ Len(r.acts) = n - 1 /\ IsList(r.regs) /\ IsList(arg.regs) /\ IsList(arg.acts)
      /\ Len(arg.acts) = Len(lit)
  BY DEF Flattened, Lists
<1>2. Len(r.regs) \in Nat /\ Len(arg.regs) \in Nat /\ at \in Nat
  <2>1. Len(r.regs) \in Nat /\ Len(arg.regs) \in Nat  BY <1>1, SeqFacts DEF IsList
  <2> QED  BY <2>1
<1>3. end = at + Len(arg.regs)  BY DEF IndexAfter
<1>4. /\ IsList(acts) /\ Len(acts) = n /\ acts[n] = new
      /\ \A i \in 1..(n - 1) : acts[i] = r.acts[i]
  BY <1>0, <1>1, AppendedTo
<1>5. /\ IsList(most) /\ Len(most) = Len(r.regs) + Len(arg.regs)
      /\ \A j \in 1..Len(r.regs) : most[j] = r.regs[j]
      /\ \A j \in 1..Len(arg.regs) : most[Len(r.regs) + j] = arg.regs[j]
  <2> DEFINE u == r.regs
             v == arg.regs
  <2>1. IsList(u) /\ IsList(v)  BY <1>1
  <2> HIDE DEF u, v
  <2>2. /\ IsList(u \o v) /\ Len(u \o v) = Len(u) + Len(v)
        /\ \A j \in 1..Len(u) : (u \o v)[j] = u[j]
        /\ \A j \in 1..Len(v) : (u \o v)[Len(u) + j] = v[j]
    BY <2>1, Joined
  <2> QED  BY <2>2 DEF u, v
<1> HIDE DEF most
<1>6. /\ IsList(all) /\ Len(all) = Len(most) + 1 /\ all[Len(most) + 1] = e
      /\ \A j \in 1..Len(most) : all[j] = most[j]
  <2>1. IsList(<<e>>) /\ Len(<<e>>) = 1 /\ <<e>>[1] = e  BY OneList
  <2>2. IsList(most)  BY <1>5
  <2> HIDE DEF e
  <2>3. /\ IsList(all) /\ Len(all) = Len(most) + 1
        /\ \A j \in 1..Len(most) : all[j] = most[j]
        /\ \A j \in 1..1 : all[Len(most) + j] = <<e>>[j]
    BY <2>1, <2>2, Joined
  <2> QED  BY <2>1, <2>3
<1>7. e.name = "" /\ e.lit = lit /\ e.acts = arg.acts /\ e = Entry(e.name, e.lit, e.acts)
  BY DEF Entry
<1>17. new.t = "idx" /\ new.idx = end  OBVIOUS
<1> HIDE DEF e, all, acts, new, at, lit, end
<1> DEFINE R == Len(r.regs)
           A == Len(arg.regs)
           L == Len(all)
<1>10. /\ R \in Nat /\ A \in Nat /\ L = R + A + 1 /\ Len(most) = R + A
       /\ all[R + A + 1] = e
  <2>1. R \in Nat /\ A \in Nat  BY <1>2
  <2>2. Len(most) = R + A  BY <1>5
  <2>3. L = Len(most) + 1 /\ all[Len(most) + 1] = e  BY <1>6
  <2> HIDE DEF R, A, L
  <2>4. L = R + A + 1 /\ all[R + A + 1] = e  BY <2>2, <2>3
  <2> QED  BY <2>1, <2>2, <2>4
<1>19. \A j \in 1..R : most[j] = r.regs[j]  BY <1>5
<1>20. \A j \in 1..A : most[R + j] = arg.regs[j]  BY <1>5
<1>21. \A j \in 1..Len(most) : all[j] = most[j]  BY <1>6
<1>18. at = b + R /\ end = b + R + A  BY <1>3, <1>10 DEF at
<1> HIDE DEF R, A, L
<1>8. \A j \in 1..R : all[j] = r.regs[j]
  <2> TAKE j \in 1..R
  <2>1. j \in 1..Len(most)  BY <1>10
  <2> QED  BY <1>19, <1>21, <2>1
<1>9. \A j \in 1..A : all[R + j] = arg.regs[j]
  <2> TAKE j \in 1..A
  <2>1. R + j \in 1..Len(most)  BY <1>10
  <2> QED  BY <1>20, <1>21, <2>1
<1>11. \A act, piece : Found(act, piece, r.regs, b) => Found(act, piece, all, b)
  <2>1. \A j \in 1..R : all[0 + j] = r.regs[j]  BY <1>8, <1>10
  <2>2. L >= 0 + R /\ b = b + 0 /\ 0 \in Nat  BY <1>10
  <2>3. Embeds(all, 0, r.regs)  BY <1>1, <1>6, <2>1, <2>2 DEF R, L, Embeds
  <2> QED  BY <2>2, <2>3, FoundMore
<1>12. \A act, piece : Found(act, piece, arg.regs, at) => Found(act, piece, all, b)
  <2>1. L >= R + A /\ R \in Nat /\ at \in Nat /\ at = b + R  BY <1>2, <1>10, <1>18
  <2>2. Embeds(all, R, arg.regs)  BY <1>1, <1>6, <1>9, <2>1 DEF A, L, Embeds
  <2> QED  BY <2>1, <2>2, FoundMore
<1>13. ASSUME NEW i \in 1..n PROVE Found(acts[i], q[i], all, b)
  <2>1. CASE i # n
    <3>1. i \in 1..(n - 1)  BY <1>0, <2>1
    <3>2. Found(r.acts[i], q[i], r.regs, b)  BY <3>1 DEF Flattened
    <3> QED  BY <1>4, <1>11, <3>1, <3>2
  <2>2. CASE i = n
    <3>1. end \in Nat /\ end >= b /\ end < b + L /\ end - b + 1 = R + A + 1
      BY <1>10, <1>18, LastPlace
    <3>2. acts[i] = new /\ q[i].lit = lit  BY <1>4, <2>2 DEF lit
    <3>3. all[end - b + 1] = e  BY <1>10, <3>1
    <3> QED  BY <1>7, <1>17, <3>1, <3>2, <3>3, <2>2 DEF Found, L
  <2> QED  BY <2>1, <2>2
<1>14. ASSUME NEW f, NEW regs, NEW c, Stands(f, regs, c),
              \A act, piece : Found(act, piece, regs, c) => Found(act, piece, all, b)
       PROVE  Stands(f, all, b)
  BY <1>14 DEF Stands
<1>15. ASSUME NEW j \in 1..L PROVE all[j].name = "" /\ Stands(all[j], all, b)
  <2>1. CASE j \in 1..R
    <3>1. r.regs[j].name = "" /\ Stands(r.regs[j], r.regs, b)  BY <2>1 DEF Flattened, AllStand, R
    <3> QED  BY <1>8, <1>11, <1>14, <2>1, <3>1
  <2>2. CASE j - R \in 1..A
    <3> DEFINE k == j - R
    <3>1. arg.regs[k].name = "" /\ Stands(arg.regs[k], arg.regs, at)
      BY <2>2 DEF Flattened, AllStand, at, A
    <3>2. all[j] = arg.regs[k]
      <4>1. j = R + k /\ k \in 1..A  BY <1>10, <2>2
      <4> HIDE DEF k
      <4> QED  BY <1>9, <4>1
    <3> HIDE DEF k
    <3> QED  BY <1>12, <1>14, <3>1, <3>2
  <2>3. CASE j = R + A + 1
    <3>1. \A i \in 1..Len(lit) : Found(arg.acts[i], lit[i], all, b)
      BY <1>12 DEF Flattened, at, lit
    <3>2. Stands(e, all, b)  BY <1>0, <1>1, <1>7, <3>1 DEF Stands
    <3> QED  BY <1>7, <1>10, <2>3, <3>2
  <2>4. j \in 1..R \/ j - R \in 1..A \/ j = R + A + 1  BY <1>10
  <2> QED  BY <2>1, <2>2, <2>3, <2>4
<1>16. Flattened([acts |-> acts, regs |-> all], q, n, b)
  BY <1>4, <1>6, <1>13, <1>15 DEF Flattened, Lists, AllStand, L
<1> QED  BY <1>16 DEF acts, all, most, new, e, end, at, lit

\* Every sequence becomes one of as many actions, and each argument within it,
\* however deep, becomes a sequence that is found by its index.
LEMMA PiecesFlatten ==
  ASSUME NEW q \in KeySeqs, NEW n \in 0..Len(q), NEW b \in Nat
  PROVE  Flattened(Pieces[<<q, n, b>>], q, n, b)
<1> DEFINE Is(x) == x[2] <= Len(x[1]) => Flattened(Pieces[x], x[1], x[2], x[3])
           T == {k \in Nat : \A x \in Point : Within(x, k) => Is(x)}
<1>1. ASSUME NEW x \in Point,
             x[2] \in DOMAIN x[1] => \A y \in Point : Within(y, Deep(x)) => Is(y)
      PROVE  Is(x)
  <2> SUFFICES ASSUME x[2] <= Len(x[1]) PROVE Flattened(Pieces[x], x[1], x[2], x[3])
    OBVIOUS
  <2> HIDE DEF Is
  <2>0. x[1] \in KeySeqs /\ x[2] \in Nat /\ x[3] \in Nat  BY DEF Point
  <2>1. Len(x[1]) \in Nat /\ DOMAIN x[1] = 1..Len(x[1])  BY <2>0, KeySeqFacts
  <2>2. Pieces[x] = StepOf(Pieces, x)  BY PiecesDef
  <2>3. CASE x[2] \notin DOMAIN x[1]
    <3>1. x[2] = 0  BY <2>0, <2>1, <2>3
    <3>2. Pieces[x] = [acts |-> <<>>, regs |-> <<>>]  BY <2>2, <2>3 DEF StepOf
    <3> QED  BY <3>1, <3>2, EmptyList DEF Flattened, AllStand, Lists
  <2>4. CASE x[2] \in DOMAIN x[1]
    <3> DEFINE p == x[1][x[2]]
               r == Pieces[Before(x)]
               at == x[3] + Len(r.regs)
               arg == Pieces[Inside(x, at)]
    <3>1. Before(x) \in Point /\ Within(Before(x), Deep(x))  BY <2>4, GoesDown
    <3>2. Flattened(r, x[1], x[2] - 1, x[3])
      <4>1. Before(x)[1] = x[1] /\ Before(x)[2] = x[2] - 1 /\ Before(x)[3] = x[3]  BY DEF Before
      <4>2. Is(Before(x))  BY <1>1, <2>4, <3>1
      <4> QED  BY <2>0, <2>1, <4>1, <4>2 DEF Is
    <3>3. x[2] \in 1..Len(x[1])  BY <2>1, <2>4
    <3>4. CASE p.t # "arg"
      <4>1. Pieces[x] = [r EXCEPT !.acts = Append(@, p)]  BY <2>2, <2>4, <3>4 DEF StepOf, Before
      <4>2. r = [acts |-> r.acts, regs |-> r.regs]  BY <3>2 DEF Flattened, Lists
      <4> HIDE DEF r, p
      <4>3. Pieces[x] = [acts |-> Append(r.acts, p), regs |-> r.regs]  BY <4>1, <4>2
      <4> QED  BY <2>0, <3>2, <3>3, <3>4, <4>3, FlattenKey DEF p
    <3>5. CASE p.t = "arg"
      <4>1. Len(r.regs) \in Nat  BY <3>2, SeqFacts DEF Flattened, Lists, IsList
      <4>2. at \in Nat  BY <2>0, <4>1
      <4>3. Inside(x, at) \in Point /\ Within(Inside(x, at), Deep(x))  BY <2>4, <3>5, <4>2, GoesDown
      <4>4. p.lit \in KeySeqs  BY <2>0, <2>4, <3>5, KeySeqFacts
      <4>5. Len(p.lit) \in Nat  BY <4>4, KeySeqFacts
      <4>6. Flattened(arg, p.lit, Len(p.lit), at)
        <5>1. Inside(x, at)[1] = p.lit /\ Inside(x, at)[2] = Len(p.lit) /\ Inside(x, at)[3] = at
          BY DEF Inside
        <5>2. Is(Inside(x, at))  BY <1>1, <2>4, <4>3
        <5> QED  BY <4>5, <5>1, <5>2 DEF Is
      <4>7. Pieces[x] = [acts |-> Append(r.acts, [t |-> "idx", idx |-> IndexAfter(at, arg.regs)]),
                         regs |-> r.regs \o arg.regs \o <<Entry("", p.lit, arg.acts)>>]
        BY <2>2, <2>4, <3>5 DEF StepOf, Before, Inside
      <4> HIDE DEF r, arg
      <4> QED  BY <2>0, <3>2, <3>3, <3>5, <4>6, <4>7, FlattenArg
    <3> QED  BY <3>4, <3>5
  <2> QED  BY <2>3, <2>4
<1> HIDE DEF Is
<1>2. 0 \in T
  <2>1. \A x \in Point : Within(x, 0) => x[2] \notin DOMAIN x[1]  BY GoesDown DEF Within
  <2> QED  BY <1>1, <2>1
<1>3. ASSUME NEW k \in Nat, k \in T PROVE k + 1 \in T
  <2>1. ASSUME NEW x \in Point, Within(x, k + 1) PROVE Is(x)
    <3>1. x[2] \in DOMAIN x[1] => Deep(x) <= k /\ Deep(x) \in Nat  BY <2>1, GoesDown DEF Within
    <3>2. x[2] \in DOMAIN x[1] => \A y \in Point : Within(y, Deep(x)) => Within(y, k)
      BY <3>1, WithinMore
    <3> QED  BY <1>1, <1>3, <3>2
  <2> QED  BY <2>1
<1> HIDE DEF T
<1>4. Nat \subseteq T  BY <1>2, <1>3, NumbersIn
<1>5. Len(q) \in Nat  BY KeySeqFacts
<1> DEFINE x == <<q, n, b>>
<1>6. x \in Point /\ x[1] = q /\ x[2] = n /\ x[3] = b  BY <1>5 DEF Point
<1> HIDE DEF x
<1>7. Is(x)
  <2> DEFINE k == IF x[2] \in DOMAIN x[1] THEN Deep(x) + 1 ELSE 0
  <2>1. k \in Nat /\ Within(x, k)  BY <1>6, GoesDown DEF Within
  <2> HIDE DEF k
  <2> QED  BY <1>4, <1>6, <2>1 DEF T
<1>8. n <= Len(q)  BY <1>5
<1>9. Flattened(Pieces[x], q, n, b)  BY <1>6, <1>7, <1>8 DEF Is
<1> QED  BY <1>9 DEF x

-----------------------------------------------------------------------------
(* The folds go through a sequence from its front: K are the results on    *)
(* the way.                                                                *)
LEMMA ListFacts ==
  ASSUME NEW s, IsList(s)
  PROVE  Len(s) \in Nat /\ DOMAIN s = 1..Len(s)
BY SeqFacts DEF IsList

\* a reader goes through commands, ...
NumberSteps(K, base, s, r) ==
  /\ K[0] = base /\ r = K[Len(s)]
  /\ \A n \in 1..Len(s) : K[n] = Number(K[n - 1], s[n])

LEMMA FoldedNumber ==
  ASSUME NEW base, NEW s, IsList(s), NEW r, r = FoldLeft(Number, base, s)
  PROVE  \E K : NumberSteps(K, base, s, r)
<1> DEFINE N == Len(s)
           it(f, S) == IF S = {} THEN base ELSE Number(f[S \ {Max(S)}], s[Max(S)])
           Good(f, n) == f = [S \in SUBSET (1..n) |-> it(f, S)]
           F == CHOOSE f : Good(f, N)
<1>0. N \in Nat /\ DOMAIN s = 1..N  BY ListFacts
<1>1. \E f : Good(f, N)
  <2> DEFINE T == {n \in Nat : \E f : Good(f, n)}
  <2>1. 0 \in T
    <3> DEFINE f == [S \in SUBSET (1..0) |-> base]
    <3>1. \A S \in SUBSET (1..0) : S = {} /\ it(f, S) = base  OBVIOUS
    <3> HIDE DEF it
    <3>2. Good(f, 0)  BY <3>1
    <3> QED  BY <3>2
  <2>2. ASSUME NEW n \in Nat, n \in T PROVE n + 1 \in T
    <3>1. PICK f : Good(f, n)  BY <2>2
    <3> DEFINE g == [S \in SUBSET (1..(n + 1)) |->
                       IF S \in SUBSET (1..n) THEN f[S] ELSE it(f, S)]
    <3>2. ASSUME NEW S \in SUBSET (1..(n + 1)) PROVE g[S] = it(g, S)
      <4> HIDE DEF it
      <4>a. \A R \in SUBSET (1..n) : f[R] = it(f, R)  BY <3>1
      <4>b. \A R \in SUBSET (1..n) : R \in SUBSET (1..(n + 1))  OBVIOUS
      <4>c. \A R \in SUBSET (1..n) : g[R] = f[R]  BY <4>b
      <4>d. g[S] = it(f, S)  BY <4>a
      <4>1. CASE S = {}  BY <4>d, <4>1 DEF it
      <4>2. CASE S # {}
        <5>1. Max(S) \in S /\ \A y \in S : y <= Max(S)
          <6>1. n + 1 \in Nat  OBVIOUS
          <6> QED  BY <4>2, <6>1, MaxOf
        <5>2. \A y \in S \ {Max(S)} : y \in 1..n
          <6> TAKE y \in S \ {Max(S)}
          <6>1. y \in 1..(n + 1) /\ Max(S) \in 1..(n + 1) /\ y # Max(S) /\ y <= Max(S)
            BY <5>1
          <6> QED  BY <6>1
        <5>3. g[S \ {Max(S)}] = f[S \ {Max(S)}]
          <6>1. PICK R : R = S \ {Max(S)}  OBVIOUS
          <6>2. R \in SUBSET (1..n)  BY <5>2, <6>1
          <6>3. g[R] = f[R]  BY <4>c, <6>2
          <6> QED  BY <6>1, <6>3
        <5> HIDE DEF g
        <5> QED  BY <4>d, <4>2, <5>3 DEF it
      <4> QED  BY <4>1, <4>2
    <3>3. g = [S \in SUBSET (1..(n + 1)) |-> g[S]]  OBVIOUS
    <3> HIDE DEF g, it
    <3>4. Good(g, n + 1)  BY <3>2, <3>3
    <3> HIDE DEF Good
    <3> QED  BY <3>4
  <2>3. N \in T
    <3> HIDE DEF T
    <3> QED  BY <1>0, <2>1, <2>2, NumbersIn
  <2> QED  BY <2>3
<1>2. Good(F, N)  BY <1>1
<1>3. FoldLeft(Number, base, s) = F[1..N]
  BY <1>0 DEF FoldLeft, MapThenFoldSet
<1> HIDE DEF F
<1>4. \A S \in SUBSET (1..N) : F[S] = it(F, S)  BY <1>2
<1> DEFINE K == [n \in 0..N |-> F[1..n]]
<1>5. K[0] = base
  <2>1. 1..0 = {} /\ {} \in SUBSET (1..N)  OBVIOUS
  <2>2. F[{}] = base  BY <1>4, <2>1
  <2> QED  BY <1>0, <2>1, <2>2
<1>6. ASSUME NEW n \in 1..N PROVE K[n] = Number(K[n - 1], s[n])
  <2> DEFINE R == 1..n
  <2>1. R \in SUBSET (1..N) /\ R # {} /\ n \in R /\ \A y \in R : y <= n  BY <1>0
  <2>2. Max(R) = n
    <3>1. R \in SUBSET (1..n) /\ n \in Nat  OBVIOUS
    <3>2. Max(R) \in R /\ \A y \in R : y <= Max(R)  BY <2>1, <3>1, MaxOf
    <3>3. n <= Max(R) /\ Max(R) \in 1..n  BY <2>1, <3>2
    <3> HIDE DEF R
    <3> QED  BY <3>3
  <2>3. R \ {n} = 1..(n - 1)  OBVIOUS
  <2>4. K[n] = F[R] /\ K[n - 1] = F[1..(n - 1)]  BY <1>0
  <2>5. F[R] = Number(F[R \ {Max(R)}], s[Max(R)])  BY <1>4, <2>1
  <2> HIDE DEF R, K
  <2>6. F[R \ {n}] = F[1..(n - 1)]  BY <2>3
  <2> QED  BY <2>2, <2>4, <2>5, <2>6
<1>7. K[N] = F[1..N]  BY <1>0
<1> HIDE DEF K
<1> QED  BY <1>3, <1>5, <1>6, <1>7 DEF NumberSteps

\* ... the compiler through the statements of a file, ...
EmitSteps(K, base, s, r) ==
  /\ K[0] = base /\ r = K[Len(s)]
  /\ \A n \in 1..Len(s) : K[n] = Emit(K[n - 1], s[n])

LEMMA FoldedEmit ==
  ASSUME NEW base, NEW s, IsList(s), NEW r, r = FoldLeft(Emit, base, s)
  PROVE  \E K : EmitSteps(K, base, s, r)
<1> DEFINE N == Len(s)
           it(f, S) == IF S = {} THEN base ELSE Emit(f[S \ {Max(S)}], s[Max(S)])
           Good(f, n) == f = [S \in SUBSET (1..n) |-> it(f, S)]
           F == CHOOSE f : Good(f, N)
<1>0. N \in Nat /\ DOMAIN s = 1..N  BY ListFacts
<1>1. \E f : Good(f, N)
  <2> DEFINE T == {n \in Nat : \E f : Good(f, n)}
  <2>1. 0 \in T
    <3> DEFINE f == [S \in SUBSET (1..0) |-> base]
    <3>1. \A S \in SUBSET (1..0) : S = {} /\ it(f, S) = base  OBVIOUS
    <3> HIDE DEF it
    <3>2. Good(f, 0)  BY <3>1
    <3> QED  BY <3>2
  <2>2. ASSUME NEW n \in Nat, n \in T PROVE n + 1 \in T
    <3>1. PICK f : Good(f, n)  BY <2>2
    <3> DEFINE g == [S \in SUBSET (1..(n + 1)) |->
                       IF S \in SUBSET (1..n) THEN f[S] ELSE it(f, S)]
    <3>2. ASSUME NEW S \in SUBSET (1..(n + 1)) PROVE g[S] = it(g, S)
      <4> HIDE DEF it
      <4>a. \A R \in SUBSET (1..n) : f[R] = it(f, R)  BY <3>1
      <4>b. \A R \in SUBSET (1..n) : R \in SUBSET (1..(n + 1))  OBVIOUS
      <4>c. \A R \in SUBSET (1..n) : g[R] = f[R]  BY <4>b
      <4>d. g[S] = it(f, S)  BY <4>a
      <4>1. CASE S = {}  BY <4>d, <4>1 DEF it
      <4>2. CASE S # {}
        <5>1. Max(S) \in S /\ \A y \in S : y <= Max(S)
          <6>1. n + 1 \in Nat  OBVIOUS
          <6> QED  BY <4>2, <6>1, MaxOf
        <5>2. \A y \in S \ {Max(S)} : y \in 1..n
          <6> TAKE y \in S \ {Max(S)}
          <6>1. y \in 1..(n + 1) /\ Max(S) \in 1..(n + 1) /\ y # Max(S) /\ y <= Max(S)
            BY <5>1
          <6> QED  BY <6>1
        <5>3. g[S \ {Max(S)}] = f[S \ {Max(S)}]
          <6>1. PICK R : R = S \ {Max(S)}  OBVIOUS
          <6>2. R \in SUBSET (1..n)  BY <5>2, <6>1
          <6>3. g[R] = f[R]  BY <4>c, <6>2
          <6> QED  BY <6>1, <6>3
        <5> HIDE DEF g
        <5> QED  BY <4>d, <4>2, <5>3 DEF it
      <4> QED  BY <4>1, <4>2
    <3>3. g = [S \in SUBSET (1..(n + 1)) |-> g[S]]  OBVIOUS
    <3> HIDE DEF g, it
    <3>4. Good(g, n + 1)  BY <3>2, <3>3
    <3> HIDE DEF Good
    <3> QED  BY <3>4
  <2>3. N \in T
    <3> HIDE DEF T
    <3> QED  BY <1>0, <2>1, <2>2, NumbersIn
  <2> QED  BY <2>3
<1>2. Good(F, N)  BY <1>1
<1>3. FoldLeft(Emit, base, s) = F[1..N]
  BY <1>0 DEF FoldLeft, MapThenFoldSet
<1> HIDE DEF F
<1>4. \A S \in SUBSET (1..N) : F[S] = it(F, S)  BY <1>2
<1> DEFINE K == [n \in 0..N |-> F[1..n]]
<1>5. K[0] = base
  <2>1. 1..0 = {} /\ {} \in SUBSET (1..N)  OBVIOUS
  <2>2. F[{}] = base  BY <1>4, <2>1
  <2> QED  BY <1>0, <2>1, <2>2
<1>6. ASSUME NEW n \in 1..N PROVE K[n] = Emit(K[n - 1], s[n])
  <2> DEFINE R == 1..n
  <2>1. R \in SUBSET (1..N) /\ R # {} /\ n \in R /\ \A y \in R : y <= n  BY <1>0
  <2>2. Max(R) = n
    <3>1. R \in SUBSET (1..n) /\ n \in Nat  OBVIOUS
    <3>2. Max(R) \in R /\ \A y \in R : y <= Max(R)  BY <2>1, <3>1, MaxOf
    <3>3. n <= Max(R) /\ Max(R) \in 1..n  BY <2>1, <3>2
    <3> HIDE DEF R
    <3> QED  BY <3>3
  <2>3. R \ {n} = 1..(n - 1)  OBVIOUS
  <2>4. K[n] = F[R] /\ K[n - 1] = F[1..(n - 1)]  BY <1>0
  <2>5. F[R] = Emit(F[R \ {Max(R)}], s[Max(R)])  BY <1>4, <2>1
  <2> HIDE DEF R, K
  <2>6. F[R \ {n}] = F[1..(n - 1)]  BY <2>3
  <2> QED  BY <2>2, <2>4, <2>5, <2>6
<1>7. K[N] = F[1..N]  BY <1>0
<1> HIDE DEF K
<1> QED  BY <1>3, <1>5, <1>6, <1>7 DEF EmitSteps

\* ... and flushQueue() through the queue.
DequeueSteps(K, base, s, r) ==
  /\ K[0] = base /\ r = K[Len(s)]
  /\ \A n \in 1..Len(s) : K[n] = Dequeue(K[n - 1], s[n])

LEMMA FoldedDequeue ==
  ASSUME NEW base, NEW s, IsList(s), NEW r, r = FoldLeft(Dequeue, base, s)
  PROVE  \E K : DequeueSteps(K, base, s, r)
<1> DEFINE N == Len(s)
           it(f, S) == IF S = {} THEN base ELSE Dequeue(f[S \ {Max(S)}], s[Max(S)])
           Good(f, n) == f = [S \in SUBSET (1..n) |-> it(f, S)]
           F == CHOOSE f : Good(f, N)
<1>0. N \in Nat /\ DOMAIN s = 1..N  BY ListFacts
<1>1. \E f : Good(f, N)
  <2> DEFINE T == {n \in Nat : \E f : Good(f, n)}
  <2>1. 0 \in T
    <3> DEFINE f == [S \in SUBSET (1..0) |-> base]
    <3>1. \A S \in SUBSET (1..0) : S = {} /\ it(f, S) = base  OBVIOUS
    <3> HIDE DEF it
    <3>2. Good(f, 0)  BY <3>1
    <3> QED  BY <3>2
  <2>2. ASSUME NEW n \in Nat, n \in T PROVE n + 1 \in T
    <3>1. PICK f : Good(f, n)  BY <2>2
    <3> DEFINE g == [S \in SUBSET (1..(n + 1)) |->
                       IF S \in SUBSET (1..n) THEN f[S] ELSE it(f, S)]
    <3>2. ASSUME NEW S \in SUBSET (1..(n + 1)) PROVE g[S] = it(g, S)
      <4> HIDE DEF it
      <4>a. \A R \in SUBSET (1..n) : f[R] = it(f, R)  BY <3>1
      <4>b. \A R \in SUBSET (1..n) : R \in SUBSET (1..(n + 1))  OBVIOUS
      <4>c. \A R \in SUBSET (1..n) : g[R] = f[R]  BY <4>b
      <4>d. g[S] = it(f, S)  BY <4>a
      <4>1. CASE S = {}  BY <4>d, <4>1 DEF it
      <4>2. CASE S # {}
        <5>1. Max(S) \in S /\ \A y \in S : y <= Max(S)
          <6>1. n + 1 \in Nat  OBVIOUS
          <6> QED  BY <4>2, <6>1, MaxOf
        <5>2. \A y \in S \ {Max(S)} : y \in 1..n
          <6> TAKE y \in S \ {Max(S)}
          <6>1. y \in 1..(n + 1) /\ Max(S) \in 1..(n + 1) /\ y # Max(S) /\ y <= Max(S)
            BY <5>1
          <6> QED  BY <6>1
        <5>3. g[S \ {Max(S)}] = f[S \ {Max(S)}]
          <6>1. PICK R : R = S \ {Max(S)}  OBVIOUS
          <6>2. R \in SUBSET (1..n)  BY <5>2, <6>1
          <6>3. g[R] = f[R]  BY <4>c, <6>2
          <6> QED  BY <6>1, <6>3
        <5> HIDE DEF g
        <5> QED  BY <4>d, <4>2, <5>3 DEF it
      <4> QED  BY <4>1, <4>2
    <3>3. g = [S \in SUBSET (1..(n + 1)) |-> g[S]]  OBVIOUS
    <3> HIDE DEF g, it
    <3>4. Good(g, n + 1)  BY <3>2, <3>3
    <3> HIDE DEF Good
    <3> QED  BY <3>4
  <2>3. N \in T
    <3> HIDE DEF T
    <3> QED  BY <1>0, <2>1, <2>2, NumbersIn
  <2> QED  BY <2>3
<1>2. Good(F, N)  BY <1>1
<1>3. FoldLeft(Dequeue, base, s) = F[1..N]
  BY <1>0 DEF FoldLeft, MapThenFoldSet
<1> HIDE DEF F
<1>4. \A S \in SUBSET (1..N) : F[S] = it(F, S)  BY <1>2
<1> DEFINE K == [n \in 0..N |-> F[1..n]]
<1>5. K[0] = base
  <2>1. 1..0 = {} /\ {} \in SUBSET (1..N)  OBVIOUS
  <2>2. F[{}] = base  BY <1>4, <2>1
  <2> QED  BY <1>0, <2>1, <2>2
<1>6. ASSUME NEW n \in 1..N PROVE K[n] = Dequeue(K[n - 1], s[n])
  <2> DEFINE R == 1..n
  <2>1. R \in SUBSET (1..N) /\ R # {} /\ n \in R /\ \A y \in R : y <= n  BY <1>0
  <2>2. Max(R) = n
    <3>1. R \in SUBSET (1..n) /\ n \in Nat  OBVIOUS
    <3>2. Max(R) \in R /\ \A y \in R : y <= Max(R)  BY <2>1, <3>1, MaxOf
    <3>3. n <= Max(R) /\ Max(R) \in 1..n  BY <2>1, <3>2
    <3> HIDE DEF R
    <3> QED  BY <3>3
  <2>3. R \ {n} = 1..(n - 1)  OBVIOUS
  <2>4. K[n] = F[R] /\ K[n - 1] = F[1..(n - 1)]  BY <1>0
  <2>5. F[R] = Dequeue(F[R \ {Max(R)}], s[Max(R)])  BY <1>4, <2>1
  <2> HIDE DEF R, K
  <2>6. F[R \ {n}] = F[1..(n - 1)]  BY <2>3
  <2> QED  BY <2>2, <2>4, <2>5, <2>6
<1>7. K[N] = F[1..N]  BY <1>0
<1> HIDE DEF K
<1> QED  BY <1>3, <1>5, <1>6, <1>7 DEF DequeueSteps

-----------------------------------------------------------------------------
(* How a reader numbers the sequences of a stream. *)

\* What has come first stays in front.
Longer(t, s) ==
  /\ IsList(s) /\ IsList(t) /\ Len(t) >= Len(s)
  /\ \A j \in 1..Len(s) : t[j] = s[j]

LEMMA NumberAgree ==
  ASSUME NEW a, NEW b, NEW K, NEW L, NEW r, NEW q, NumberSteps(K, <<>>, a, r),
         NumberSteps(L, <<>>, b, q), NEW n \in Nat, IsList(a), IsList(b),
         n <= Len(a), n <= Len(b), \A i \in 1..n : a[i] = b[i]
  PROVE  K[n] = L[n]
<1> DEFINE T == {m \in Nat : m <= n => K[m] = L[m]}
<1>0. Len(a) \in Nat /\ Len(b) \in Nat  BY ListFacts
<1>1. 0 \in T  BY DEF NumberSteps
<1>2. ASSUME NEW m \in Nat, m \in T PROVE m + 1 \in T
  <2>1. CASE m + 1 <= n
    <3>1. m + 1 \in 1..n /\ m + 1 \in 1..Len(a) /\ m + 1 \in 1..Len(b) /\ (m + 1) - 1 = m
      BY <1>0, <2>1
    <3>2. K[m] = L[m]  BY <1>2, <2>1
    <3>3. K[m + 1] = Number(K[m], a[m + 1]) /\ L[m + 1] = Number(L[m], b[m + 1])
      BY <3>1 DEF NumberSteps
    <3>4. a[m + 1] = b[m + 1]  BY <3>1
    <3> QED  BY <3>2, <3>3, <3>4
  <2>2. CASE ~(m + 1 <= n)  BY <2>2
  <2> QED  BY <2>1, <2>2
<1> HIDE DEF T
<1>3. n \in T  BY <1>1, <1>2, NumbersIn
<1> QED  BY <1>3 DEF T

\* One command more.
LEMMA RegisteredAppend ==
  ASSUME NEW cmds, IsList(cmds), NEW c
  PROVE  Registered(Append(cmds, c)) = Number(Registered(cmds), c)
<1> DEFINE more == Append(cmds, c)
           N == Len(cmds)
<1>1. /\ IsList(more) /\ N \in Nat /\ Len(more) = N + 1
      /\ \A i \in 1..N : more[i] = cmds[i]
      /\ more[N + 1] = c
  BY AppendedTo
<1> HIDE DEF more
<1>2. PICK K : NumberSteps(K, <<>>, cmds, Registered(cmds))  BY FoldedNumber DEF Registered
<1>3. PICK L : NumberSteps(L, <<>>, more, Registered(more))
  BY <1>1, FoldedNumber DEF Registered
<1>4. K[N] = L[N]  BY <1>1, <1>2, <1>3, NumberAgree
<1>5. L[N + 1] = Number(L[N], c)
  <2>1. N + 1 \in 1..Len(more) /\ (N + 1) - 1 = N  BY <1>1
  <2>2. L[N + 1] = Number(L[(N + 1) - 1], more[N + 1])  BY <1>3, <2>1 DEF NumberSteps
  <2> QED  BY <1>1, <2>1, <2>2
<1>6. Registered(cmds) = K[N] /\ Registered(more) = L[N + 1]  BY <1>1, <1>2, <1>3 DEF NumberSteps
<1> QED  BY <1>4, <1>5, <1>6 DEF more

\* Nothing came, ...
LEMMA RegisteredNone == Registered(<<>>) = <<>>
<1>1. PICK K : NumberSteps(K, <<>>, <<>>, Registered(<<>>))
  BY EmptyList, FoldedNumber DEF Registered
<1> QED  BY <1>1, EmptyList DEF NumberSteps

\* ... and many came: either all of them are sequences, or none is.
LEMMA RegisteredJoined ==
  ASSUME NEW s, NEW t, IsList(s), IsList(t), IsList(Registered(s))
  PROVE  /\ (\A i \in 1..Len(t) : ~IsReg(t[i])) => Registered(s \o t) = Registered(s)
         /\ (\A i \in 1..Len(t) : IsReg(t[i])) => Registered(s \o t) = Registered(s) \o t
<1> DEFINE u == s \o t
           N == Len(s)
           M == Len(t)
           R == Registered(s)
<1>1. /\ IsList(u) /\ N \in Nat /\ M \in Nat /\ Len(u) = N + M
      /\ \A n \in 1..N : u[n] = s[n]
      /\ \A n \in 1..M : u[N + n] = t[n]
  BY Joined
<1> HIDE DEF u
<1>2. PICK K : NumberSteps(K, <<>>, s, R)  BY FoldedNumber DEF Registered
<1>3. PICK L : NumberSteps(L, <<>>, u, Registered(u))  BY <1>1, FoldedNumber DEF Registered
<1>4. L[N] = R
  <2>1. N <= Len(u) /\ N <= Len(s) /\ \A i \in 1..N : s[i] = u[i]  BY <1>1
  <2> HIDE DEF N
  <2>2. K[N] = L[N]  BY <1>1, <1>2, <1>3, <2>1, NumberAgree
  <2> QED  BY <1>2, <2>2 DEF NumberSteps, N
<1>5. Registered(u) = L[N + M]  BY <1>1, <1>3 DEF NumberSteps
<1>6. ASSUME NEW m \in Nat, m + 1 <= M PROVE L[N + (m + 1)] = Number(L[N + m], t[m + 1])
  <2>1. N + (m + 1) \in 1..Len(u) /\ (N + (m + 1)) - 1 = N + m /\ m + 1 \in 1..M  BY <1>1, <1>6
  <2>2. L[N + (m + 1)] = Number(L[(N + (m + 1)) - 1], u[N + (m + 1)])  BY <1>3, <2>1 DEF NumberSteps
  <2> QED  BY <1>1, <2>1, <2>2
<1>7. ASSUME \A i \in 1..M : ~IsReg(t[i]) PROVE Registered(u) = R
  <2> DEFINE T == {m \in Nat : m <= M => L[N + m] = R}
  <2>1. 0 \in T  BY <1>1, <1>4
  <2>2. ASSUME NEW m \in Nat, m \in T PROVE m + 1 \in T
    <3>1. CASE m + 1 <= M
      <4>1. m <= M /\ m + 1 \in 1..M  BY <1>1, <3>1
      <4> QED  BY <1>6, <1>7, <2>2, <3>1, <4>1 DEF Number
    <3>2. CASE ~(m + 1 <= M)  BY <3>2
    <3> QED  BY <3>1, <3>2
  <2> HIDE DEF T
  <2>3. M \in T  BY <1>1, <2>1, <2>2, NumbersIn
  <2> QED  BY <1>1, <1>5, <2>3 DEF T
<1>8. ASSUME \A i \in 1..M : IsReg(t[i]) PROVE Registered(u) = R \o t
  <2> DEFINE Is(m) == /\ IsList(L[N + m]) /\ Len(L[N + m]) = Len(R) + m
                      /\ \A j \in 1..Len(R) : L[N + m][j] = R[j]
                      /\ \A j \in 1..m : L[N + m][Len(R) + j] = t[j]
             T == {m \in Nat : m <= M => Is(m)}
  <2>0. Len(R) \in Nat  BY ListFacts
  <2>1. 0 \in T
    <3>1. N + 0 = N  BY <1>1
    <3> QED  BY <1>4, <2>0, <3>1
  <2>2. ASSUME NEW m \in Nat, m \in T PROVE m + 1 \in T
    <3>1. CASE m + 1 <= M
      <4> DEFINE v == L[N + m]
                 w == L[N + (m + 1)]
      <4>1. m <= M /\ m + 1 \in 1..M  BY <1>1, <3>1
      <4>2. Is(m)  BY <2>2, <4>1
      <4>3. w = Append(v, t[m + 1])  BY <1>6, <1>8, <3>1, <4>1 DEF Number
      <4>4. IsList(v) /\ Len(v) = Len(R) + m
            /\ (\A j \in 1..Len(R) : v[j] = R[j]) /\ \A j \in 1..m : v[Len(R) + j] = t[j]
        BY <4>2
      <4> HIDE DEF v, w, Is
      <4>5. /\ IsList(w) /\ Len(w) = Len(v) + 1 /\ w[Len(v) + 1] = t[m + 1]
            /\ \A i \in 1..Len(v) : w[i] = v[i]
        BY <4>3, <4>4, AppendedTo
      <4>6. Len(w) = Len(R) + (m + 1)  BY <2>0, <4>4, <4>5
      <4>7. \A j \in 1..Len(R) : w[j] = R[j]
        <5> TAKE j \in 1..Len(R)
        <5>1. j \in 1..Len(v)  BY <2>0, <4>4
        <5> QED  BY <4>4, <4>5, <5>1
      <4>8. \A j \in 1..(m + 1) : w[Len(R) + j] = t[j]
        <5> TAKE j \in 1..(m + 1)
        <5>1. CASE j = m + 1
          <6>1. Len(R) + j = Len(v) + 1  BY <2>0, <4>4, <5>1
          <6> QED  BY <4>5, <5>1, <6>1
        <5>2. CASE j # m + 1
          <6>1. j \in 1..m /\ Len(R) + j \in 1..Len(v)  BY <2>0, <4>4, <5>2
          <6> QED  BY <4>4, <4>5, <6>1
        <5> QED  BY <5>1, <5>2
      <4>9. Is(m + 1)  BY <4>5, <4>6, <4>7, <4>8 DEF Is, w
      <4> QED  BY <4>9
    <3>2. CASE ~(m + 1 <= M)  BY <3>2
    <3> QED  BY <3>1, <3>2
  <2> HIDE DEF T, Is
  <2>3. M \in T  BY <1>1, <2>1, <2>2, NumbersIn
  <2>4. Is(M)  BY <1>1, <2>3 DEF T
  <2> DEFINE a == L[N + M]
             b == R \o t
  <2>5. /\ IsList(a) /\ Len(a) = Len(R) + M
        /\ \A j \in 1..Len(R) : a[j] = R[j]
        /\ \A j \in 1..M : a[Len(R) + j] = t[j]
    BY <2>4 DEF Is
  <2>6. /\ IsList(b) /\ Len(b) = Len(R) + M
        /\ \A j \in 1..Len(R) : b[j] = R[j]
        /\ \A j \in 1..M : b[Len(R) + j] = t[j]
    BY Joined
  <2> HIDE DEF a, b
  <2>7. \A j \in 1..Len(a) : a[j] = b[j]
    <3> TAKE j \in 1..Len(a)
    <3>1. CASE j \in 1..Len(R)  BY <2>5, <2>6, <3>1
    <3>2. CASE j \notin 1..Len(R)
      <4> DEFINE k == j - Len(R)
      <4>1. k \in 1..M /\ j = Len(R) + k  BY <1>1, <2>0, <2>5, <3>2
      <4> HIDE DEF k
      <4> QED  BY <2>5, <2>6, <4>1
    <3> QED  BY <3>1, <3>2
  <2>8. a = b  BY <2>5, <2>6, <2>7, SameList
  <2> QED  BY <1>5, <2>8 DEF a, b
<1> QED  BY <1>7, <1>8 DEF u

\* The sequences of a stream make a list.
LEMMA RegisteredList ==
  ASSUME NEW cmds, IsList(cmds)
  PROVE  IsList(Registered(cmds))
<1> DEFINE N == Len(cmds)
<1>1. PICK K : NumberSteps(K, <<>>, cmds, Registered(cmds))  BY FoldedNumber DEF Registered
<1> DEFINE T == {n \in Nat : n <= N => IsList(K[n])}
<1>2. N \in Nat  BY ListFacts
<1>3. 0 \in T  BY <1>1, EmptyList DEF NumberSteps
<1>4. ASSUME NEW n \in Nat, n \in T PROVE n + 1 \in T
  <2>1. CASE n + 1 <= N
    <3>1. n + 1 \in 1..N /\ (n + 1) - 1 = n /\ n <= N  BY <1>2, <2>1
    <3>2. K[n + 1] = Number(K[n], cmds[n + 1])  BY <1>1, <3>1 DEF NumberSteps
    <3>3. IsList(K[n])  BY <1>4, <3>1
    <3>4. IsList(K[n + 1])  BY <3>2, <3>3, AppendedTo DEF Number
    <3> QED  BY <3>4
  <2>2. CASE ~(n + 1 <= N)  BY <2>2
  <2> QED  BY <2>1, <2>2
<1> HIDE DEF T
<1>5. N \in T  BY <1>2, <1>3, <1>4, NumbersIn
<1> QED  BY <1>1, <1>2, <1>5 DEF T, NumberSteps

\* The first commands are the same ones when more come.
LEMMA SameFront ==
  ASSUME NEW cmds, NEW more, Longer(more, cmds), NEW p \in 1..Len(cmds)
  PROVE  SubSeq(more, 1, p) = SubSeq(cmds, 1, p)
<1>1. IsList(cmds) /\ IsList(more) /\ Len(cmds) \in Nat /\ Len(more) \in Nat
      /\ DOMAIN cmds = 1..Len(cmds) /\ DOMAIN more = 1..Len(more)
  BY ListFacts DEF Longer
<1> DEFINE S == ToSet(cmds)
<1>2. \A i \in 1..p : cmds[i] \in S /\ more[i] = cmds[i]
  <2> TAKE i \in 1..p
  <2>1. i \in 1..Len(cmds)  BY <1>1
  <2> QED  BY <1>1, <2>1 DEF ToSet, Longer
<1>3. SubSeq(more, 1, p) = [i \in 1..p |-> more[i]] /\ SubSeq(cmds, 1, p) = [i \in 1..p |-> cmds[i]]
  <2>1. p \in Nat  BY <1>1
  <2> QED  BY <2>1
<1> QED  BY <1>2, <1>3

LEMMA WholeFront ==
  ASSUME NEW cmds, IsList(cmds)
  PROVE  SubSeq(cmds, 1, Len(cmds)) = cmds
BY SubSeqFull DEF IsList

-----------------------------------------------------------------------------
(* Sequences that are found stay where they are, with what is referred to, *)
(* unless one has a name and is replaced.                                  *)
Kept(t, s) ==
  /\ IsList(s) /\ IsList(t) /\ Len(t) >= Len(s)
  /\ \A j \in 1..Len(s) : t[j].name = s[j].name /\ (s[j].name = "" => t[j].lit = s[j].lit)

LEMMA LongerKept ==
  ASSUME NEW more, NEW regs, Longer(more, regs)
  PROVE  Kept(more, regs)
BY DEF Longer, Kept

LEMMA KeptResolves ==
  ASSUME NEW more, NEW regs, Kept(more, regs), NEW e, Resolves(e, regs)
  PROVE  Resolves(e, more)
<1>1. Len(regs) \in Nat /\ Len(more) \in Nat /\ Len(more) >= Len(regs)  BY ListFacts DEF Kept
<1>2. ASSUME NEW i \in DOMAIN e.lit PROVE Refers(e.acts[i], e.lit[i], more)
  <2>1. Refers(e.acts[i], e.lit[i], regs)  BY DEF Resolves
  <2>2. CASE e.lit[i].t # "arg"  BY <2>1, <2>2 DEF Refers
  <2>3. CASE e.lit[i].t = "arg"
    <3> DEFINE k == e.acts[i].idx
    <3>1. k \in 0..Len(regs) - 1  BY <2>1, <2>3 DEF Refers
    <3>2. k \in 0..Len(more) - 1 /\ k + 1 \in 1..Len(regs)  BY <1>1, <3>1
    <3>3. regs[k + 1].name = "" /\ regs[k + 1].lit = e.lit[i].lit /\ e.acts[i].t = "idx"
      BY <2>1, <2>3 DEF Refers
    <3>4. more[k + 1].name = "" /\ more[k + 1].lit = e.lit[i].lit  BY <3>2, <3>3 DEF Kept
    <3> QED  BY <2>3, <3>2, <3>3, <3>4 DEF Refers
  <2> QED  BY <2>2, <2>3
<1> QED  BY <1>2 DEF Resolves

LEMMA KeptLeads ==
  ASSUME NEW more, NEW regs, Kept(more, regs), NEW h, NEW k, LeadsTo(h, k, regs)
  PROVE  LeadsTo(h, k, more)
<1>1. Len(regs) \in Nat /\ Len(more) \in Nat /\ Len(more) >= Len(regs)  BY ListFacts DEF Kept
<1>2. k \in 0..Len(regs) - 1  BY DEF LeadsTo
<1>3. k \in 0..Len(more) - 1 /\ k + 1 \in 1..Len(regs)  BY <1>1, <1>2
<1>4. more[k + 1].name = regs[k + 1].name
      /\ (regs[k + 1].name = "" => more[k + 1].lit = regs[k + 1].lit)
  BY <1>3 DEF Kept
<1> QED  BY <1>3, <1>4 DEF LeadsTo

\* A sequence that stands among those registered with it resolves, once they
\* are behind the others.
Stored(more, b, f) ==
  /\ IsList(f) /\ IsList(more) /\ Len(more) >= b + Len(f)
  /\ \A j \in 1..Len(f) : more[b + j].name = f[j].name /\ more[b + j].lit = f[j].lit

LEMMA StandsResolves ==
  ASSUME NEW b \in Nat, NEW f, NEW more, Stored(more, b, f), NEW e, Stands(e, f, b),
         NEW x, x.acts = e.acts, x.lit = e.lit
  PROVE  Resolves(x, more)
<1>1. Len(f) \in Nat /\ Len(more) \in Nat /\ Len(more) >= b + Len(f)  BY ListFacts DEF Stored
<1>2. DOMAIN e.acts = 1..Len(e.lit) /\ DOMAIN e.lit = 1..Len(e.lit)
  <2>1. IsList(e.acts) /\ Len(e.acts) = Len(e.lit) /\ e.lit \in KeySeqs  BY DEF Stands
  <2> QED  BY <2>1, ListFacts, KeySeqFacts
<1>3. ASSUME NEW i \in 1..Len(e.lit) PROVE Refers(e.acts[i], e.lit[i], more)
  <2>1. Found(e.acts[i], e.lit[i], f, b)  BY DEF Stands
  <2>2. CASE e.lit[i].t # "arg"  BY <2>1, <2>2 DEF Refers, Found
  <2>3. CASE e.lit[i].t = "arg"
    <3> DEFINE k == e.acts[i].idx
               j == k - b + 1
    <3>1. k \in Nat /\ k >= b /\ k < b + Len(f) /\ f[j].name = "" /\ f[j].lit = e.lit[i].lit
          /\ e.acts[i].t = "idx"
      BY <2>1, <2>3 DEF Found
    <3>2. j \in 1..Len(f) /\ b + j = k + 1 /\ k \in 0..Len(more) - 1
      <4>1. k \in Nat /\ k >= b /\ k < b + Len(f)  BY <3>1
      <4> DEFINE m == Len(more)
                 l == Len(f)
      <4>2. m \in Nat /\ l \in Nat /\ m >= b + l  BY <1>1
      <4>3. k < b + l  BY <4>1
      <4> HIDE DEF m, l, k
      <4>4. k - b + 1 \in 1..l /\ b + (k - b + 1) = k + 1 /\ k \in 0..m - 1  BY <4>1, <4>2, <4>3
      <4> QED  BY <4>4 DEF m, l
    <3>3. more[b + j].name = f[j].name /\ more[b + j].lit = f[j].lit  BY <3>2 DEF Stored
    <3>4. more[k + 1].name = "" /\ more[k + 1].lit = e.lit[i].lit  BY <3>1, <3>2, <3>3
    <3> QED  BY <2>3, <3>1, <3>2, <3>4 DEF Refers
  <2> QED  BY <2>2, <2>3
<1> QED  BY <1>2, <1>3 DEF Resolves

LEMMA Parted ==
  ASSUME NEW N \in Nat, NEW M \in Nat, M > N
  PROVE  /\ \A i \in 1..M : i \in 1..N \/ i \in N + 1..M - 1 \/ i = M
         /\ M \in 1..M /\ (\A i \in 1..M : i <= M /\ (M <= i => i = M))
         /\ \A i \in 1..N : i \in 1..M
OBVIOUS

\* what a name stands for when sequences without a name came, and then one
LEMMA LastOfMore ==
  ASSUME NEW more, NEW regs, Longer(more, regs), Len(more) > Len(regs), NEW n, n # "",
         \A j \in Len(regs) + 1..Len(more) - 1 : more[j].name = ""
  PROVE  LastOf(n, more) = IF more[Len(more)].name = n THEN {more[Len(more)].lit}
                           ELSE LastOf(n, regs)
<1> DEFINE M == Len(more)
           N == Len(regs)
           A == {i \in DOMAIN more : more[i].name = n}
           B == {i \in DOMAIN regs : regs[i].name = n}
<1>1. N \in Nat /\ M \in Nat /\ M > N /\ DOMAIN regs = 1..N /\ DOMAIN more = 1..M
      /\ \A j \in 1..N : more[j] = regs[j]
  BY ListFacts DEF Longer
<1>5. \A j \in N + 1..M - 1 : more[j].name = ""  OBVIOUS
<1>6. N \in Nat /\ M \in Nat /\ M > N  BY <1>1
<1> HIDE DEF N, M
<1>2. /\ \A i \in 1..M : i \in 1..N \/ i \in N + 1..M - 1 \/ i = M
      /\ M \in 1..M /\ (\A i \in 1..M : i <= M /\ (M <= i => i = M))
      /\ \A i \in 1..N : i \in 1..M
  BY <1>6, Parted
<1>3. CASE more[M].name = n
  <2>0. M \in DOMAIN more /\ \A j \in DOMAIN more : j <= M /\ (M <= j => j = M)  BY <1>1, <1>2
  <2>1. M \in A /\ \A j \in A : j <= M /\ (M <= j => j = M)  BY <2>0, <1>3
  <2>2. {i \in A : \A j \in A : j <= i} = {M}
    <3> HIDE DEF A
    <3> QED  BY <2>1
  <2>3. LastOf(n, more) = {more[i].lit : i \in {i \in A : \A j \in A : j <= i}}  BY DEF LastOf
  <2> HIDE DEF A
  <2> QED  BY <1>3, <2>2, <2>3 DEF M
<1>4. CASE more[M].name # n
  <2>1. A = B
    <3>1. ASSUME NEW i \in 1..M, more[i].name = n PROVE i \in 1..N
      BY <1>2, <1>4, <1>5, <3>1
    <3>2. \A i \in 1..N : i \in 1..M /\ more[i] = regs[i]  BY <1>1, <1>2
    <3>3. A = {i \in 1..M : more[i].name = n} /\ B = {i \in 1..N : regs[i].name = n}  BY <1>1
    <3> HIDE DEF A, B
    <3> QED  BY <3>1, <3>2, <3>3
  <2>2. \A i \in B : more[i] = regs[i]  BY <1>1
  <2>3. LastOf(n, more) = {more[i].lit : i \in {i \in A : \A j \in A : j <= i}}
        /\ LastOf(n, regs) = {regs[i].lit : i \in {i \in B : \A j \in B : j <= i}}
    BY DEF LastOf
  <2> HIDE DEF A, B
  <2>4. LastOf(n, more) = {more[i].lit : i \in {i \in B : \A j \in B : j <= i}}  BY <2>1, <2>3
  <2> DEFINE C == {i \in B : \A j \in B : j <= i}
  <2>5. \A i \in C : more[i].lit = regs[i].lit  BY <2>2
  <2>6. LastOf(n, more) = {more[i].lit : i \in C} /\ LastOf(n, regs) = {regs[i].lit : i \in C}
    BY <2>3, <2>4
  <2> HIDE DEF C
  <2>7. {more[i].lit : i \in C} = {regs[i].lit : i \in C}  BY <2>5
  <2> QED  BY <1>4, <2>6, <2>7 DEF M
<1> QED  BY <1>3, <1>4

\* ... and when it is the name of one sequence only, or of none.
LEMMA LastOfOne ==
  ASSUME NEW regs, NEW n, NEW k \in DOMAIN regs, \A i \in DOMAIN regs : regs[i].name = n <=> i = k,
         IsList(regs)
  PROVE  LastOf(n, regs) = {regs[k].lit}
<1> DEFINE B == {i \in DOMAIN regs : regs[i].name = n}
<1>1. B = {k}  OBVIOUS
<1>2. k \in Nat
  <2>1. DOMAIN regs = 1..Len(regs)  BY ListFacts
  <2> QED  BY <2>1
<1>3. LastOf(n, regs) = {regs[i].lit : i \in {i \in B : \A j \in B : j <= i}}  BY DEF LastOf
<1> HIDE DEF B
<1>4. {i \in B : \A j \in B : j <= i} = {k}  BY <1>1, <1>2
<1> QED  BY <1>3, <1>4

LEMMA LastOfNone ==
  ASSUME NEW regs, NEW n, \A i \in DOMAIN regs : regs[i].name # n
  PROVE  LastOf(n, regs) = {}
BY DEF LastOf

-----------------------------------------------------------------------------
(* Streams: every assignment and every argument leads to its sequence, and *)
(* a name to the last one that got it.                                     *)
AssignOK(cmds, p) ==
  cmds[p].c = "AssignKey" =>
    /\ cmds[p].rhs < Len(Registered(SubSeq(cmds, 1, p)))
    /\ LeadsTo(cmds[p], cmds[p].rhs, Registered(cmds))

AllResolve(regs) == IsList(regs) /\ \A i \in 1..Len(regs) : Resolves(regs[i], regs)

NamesAre(m, regs) ==
  m = [n \in Names |-> m[n]] /\ \A n \in Names : LastOf(n, regs) = m[n]

StreamOK(cmds, m) ==
  /\ IsList(cmds)
  /\ AllResolve(Registered(cmds))
  /\ \A p \in 1..Len(cmds) : AssignOK(cmds, p)
  /\ NamesAre(m, Registered(cmds))

LEMMA InRange ==
  ASSUME NEW l \in Nat, NEW k \in 0..l - 1
  PROVE  k < l /\ k \in Nat /\ k + 1 \in 1..l
OBVIOUS

LEMMA AssignedMore ==
  ASSUME NEW cmds, NEW more, Longer(more, cmds), Longer(Registered(more), Registered(cmds)),
         NEW p \in 1..Len(cmds), AssignOK(cmds, p)
  PROVE  AssignOK(more, p)
<1>1. more[p] = cmds[p]  BY DEF Longer
<1>2. SubSeq(more, 1, p) = SubSeq(cmds, 1, p)  BY SameFront
<1>3. Kept(Registered(more), Registered(cmds))  BY LongerKept
<1> QED  BY <1>1, <1>2, <1>3, KeptLeads DEF AssignOK

\* A command that registers nothing.
LEMMA AppendOK ==
  ASSUME NEW cmds, NEW m, StreamOK(cmds, m), NEW c, ~IsReg(c),
         c.c = "AssignKey" => LeadsTo(c, c.rhs, Registered(cmds))
  PROVE  /\ StreamOK(Append(cmds, c), m)
         /\ Registered(Append(cmds, c)) = Registered(cmds)
<1> DEFINE more == Append(cmds, c)
           R == Registered(cmds)
           N == Len(cmds)
<1>1. IsList(cmds) /\ IsList(R)  BY RegisteredList DEF StreamOK
<1>2. /\ IsList(more) /\ N \in Nat /\ Len(more) = N + 1
      /\ \A i \in 1..N : more[i] = cmds[i]
      /\ more[N + 1] = c
  BY <1>1, AppendedTo
<1>3. Registered(more) = R  BY <1>1, RegisteredAppend DEF Number
<1> HIDE DEF more
<1>4. Longer(more, cmds) /\ Longer(R, R)
  <2>1. Len(R) \in Nat  BY <1>1, ListFacts
  <2> HIDE DEF R
  <2> QED  BY <1>1, <1>2, <2>1 DEF Longer
<1>5. ASSUME NEW p \in 1..N PROVE AssignOK(more, p)
  BY <1>3, <1>4, AssignedMore DEF StreamOK
<1>6. AssignOK(more, N + 1)
  <2> SUFFICES ASSUME c.c = "AssignKey"
               PROVE  c.rhs < Len(Registered(SubSeq(more, 1, N + 1))) /\ LeadsTo(c, c.rhs, R)
    BY <1>2, <1>3 DEF AssignOK
  <2>1. SubSeq(more, 1, N + 1) = more  BY <1>2, WholeFront
  <2>2. LeadsTo(c, c.rhs, R) /\ Len(R) \in Nat  BY <1>1, ListFacts
  <2>3. c.rhs \in 0..Len(R) - 1  BY <2>2 DEF LeadsTo
  <2>4. c.rhs < Len(R)  BY <2>2, <2>3, InRange
  <2> QED  BY <1>3, <2>1, <2>2, <2>4
<1>7. \A p \in 1..Len(more) : AssignOK(more, p)
  <2> TAKE p \in 1..Len(more)
  <2>1. p \in 1..N \/ p = N + 1  BY <1>2
  <2> QED  BY <1>5, <1>6, <2>1
<1> QED  BY <1>2, <1>3, <1>7 DEF StreamOK, more

LEMMA RegAllIs ==
  ASSUME NEW es, IsList(es)
  PROVE  /\ IsList(RegAll(es)) /\ Len(RegAll(es)) = Len(es)
         /\ \A i \in 1..Len(es) : RegAll(es)[i] = Reg(es[i])
<1> DEFINE r == RegAll(es)
<1>1. Len(es) \in Nat /\ DOMAIN es = 1..Len(es)  BY ListFacts
<1>2. r = [i \in 1..Len(es) |-> Reg(es[i])]  BY <1>1 DEF RegAll
<1>3. DOMAIN r = 1..Len(es) /\ \A i \in 1..Len(es) : r[i] = Reg(es[i])  BY <1>2
<1>4. r = [i \in 1..Len(es) |-> r[i]]  BY <1>2, <1>3
<1> HIDE DEF r
<1>5. IsList(r) /\ Len(r) = Len(es)  BY <1>1, <1>3, <1>4, ListFrom
<1> QED  BY <1>3, <1>5 DEF r

\* A key sequence in the stream, its arguments in front of it.
LEMMA EntryFields ==
  ASSUME NEW name, NEW lit, NEW acts
  PROVE  LET e == Entry(name, lit, acts)
             r == Reg(e)
         IN  /\ e.name = name /\ e.lit = lit /\ e.acts = acts
             /\ r.name = name /\ r.lit = lit /\ r.acts = acts /\ r.c = "RegKeySeq"
BY DEF Entry, Reg

LEMMA RegFields ==
  ASSUME NEW e
  PROVE  LET r == Reg(e)
         IN  r.name = e.name /\ r.lit = e.lit /\ r.acts = e.acts /\ r.c = "RegKeySeq"
BY DEF Reg

Compiles(cmds, m, name, lit, b, f, more, n) ==
  /\ StreamOK(cmds, m) /\ name \in Names \union {""} /\ lit \in KeySeqs
  /\ b = Len(Registered(cmds)) /\ f = Flat(lit, b)
  /\ more = cmds \o RegAll(f.regs \o <<Entry(name, lit, f.acts)>>)
  /\ n = IF name = "" THEN m ELSE [m EXCEPT ![name] = {lit}]

LEMMA CompiledOK ==
  ASSUME NEW cmds, NEW m, NEW name, NEW lit, NEW b, NEW f, NEW more, NEW n,
         Compiles(cmds, m, name, lit, b, f, more, n)
  PROVE  /\ StreamOK(more, n)
         /\ Longer(Registered(more), Registered(cmds))
         /\ IndexAfter(b, f.regs) \in Nat
         /\ Len(Registered(more)) = IndexAfter(b, f.regs) + 1
         /\ LeadsTo([name |-> name, lit |-> lit], IndexAfter(b, f.regs), Registered(more))
<1> DEFINE R == Registered(cmds)
           es == f.regs \o <<Entry(name, lit, f.acts)>>
           new == RegAll(es)
           S == Registered(more)
           M == Len(f.regs)
<1>0. /\ StreamOK(cmds, m) /\ name \in Names \union {""} /\ lit \in KeySeqs
      /\ b = Len(R) /\ f = Flat(lit, b) /\ more = cmds \o new
      /\ n = IF name = "" THEN m ELSE [m EXCEPT ![name] = {lit}]
  BY DEF Compiles
<1>1. IsList(cmds) /\ IsList(R) /\ b \in Nat  BY <1>0, RegisteredList, ListFacts DEF StreamOK
<1>2. Flattened(f, lit, Len(lit), b)
  <2>1. Len(lit) \in Nat /\ Len(lit) \in 0..Len(lit)
    <3>1. Len(lit) \in Nat  BY <1>0, KeySeqFacts
    <3> QED  BY <3>1
  <2> QED  BY <1>0, <1>1, <2>1, PiecesFlatten DEF Flat
<1>3. IsList(f.regs) /\ M \in Nat /\ IsList(f.acts)  BY <1>2, ListFacts DEF Flattened, Lists
<1>4. /\ IsList(es) /\ Len(es) = M + 1
      /\ \A i \in 1..M : es[i] = f.regs[i]
      /\ es[M + 1] = Entry(name, lit, f.acts)
  <2>1. /\ IsList(<<Entry(name, lit, f.acts)>>) /\ Len(<<Entry(name, lit, f.acts)>>) = 1
        /\ <<Entry(name, lit, f.acts)>>[1] = Entry(name, lit, f.acts)
    BY OneList
  <2> DEFINE one == <<Entry(name, lit, f.acts)>>
  <2>2. /\ IsList(es) /\ Len(es) = M + Len(one)
        /\ \A i \in 1..M : es[i] = f.regs[i]
        /\ \A i \in 1..Len(one) : es[M + i] = one[i]
    BY <1>3, <2>1, Joined
  <2> HIDE DEF one
  <2>3. 1 \in 1..Len(one)  BY <2>1 DEF one
  <2>4. es[M + 1] = one[1] /\ Len(es) = M + 1  BY <2>1, <2>2, <2>3 DEF one
  <2> QED  BY <2>1, <2>2, <2>4 DEF one
<1> HIDE DEF es
<1>5. IsList(new) /\ Len(new) = M + 1 /\ \A i \in 1..(M + 1) : new[i] = Reg(es[i])
  BY <1>4, RegAllIs
<1> HIDE DEF new, M
<1>6. IsList(more) /\ Longer(more, cmds) /\ more = cmds \o new
  <2>1. more = cmds \o new  BY <1>0 DEF es, new
  <2>2. /\ IsList(more) /\ Len(more) = Len(cmds) + Len(new) /\ Len(cmds) \in Nat /\ Len(new) \in Nat
        /\ \A i \in 1..Len(cmds) : more[i] = cmds[i]
    BY <1>1, <1>5, <2>1, Joined
  <2>3. Len(more) >= Len(cmds)
    <3> DEFINE k == Len(cmds)
               l == Len(new)
    <3>1. k \in Nat /\ l \in Nat /\ Len(more) = k + l  BY <2>2
    <3> HIDE DEF k, l
    <3>2. Len(more) >= k  BY <3>1
    <3> QED  BY <3>2 DEF k
  <2> QED  BY <1>1, <2>1, <2>2, <2>3 DEF Longer
<1>7. S = R \o new
  <2>1. \A i \in 1..Len(new) : IsReg(new[i])  BY <1>5 DEF Reg, IsReg
  <2> QED  BY <1>1, <1>5, <1>6, <2>1, RegisteredJoined
<1> HIDE DEF R, S
<1>8. /\ IsList(S) /\ Len(S) = b + (M + 1)
      /\ \A i \in 1..b : S[i] = R[i]
      /\ \A i \in 1..(M + 1) : S[b + i] = Reg(es[i])
  <2>1. /\ IsList(S) /\ Len(S) = Len(R) + Len(new)
        /\ \A i \in 1..Len(R) : S[i] = R[i]
        /\ \A i \in 1..Len(new) : S[Len(R) + i] = new[i]
    BY <1>1, <1>5, <1>7, Joined
  <2>2. Len(R) = b  BY <1>0 DEF R
  <2> QED  BY <1>5, <2>1, <2>2
<1>9. M \in Nat  BY <1>3
<1>10. Longer(S, R)
  <2>1. b + (M + 1) >= b  BY <1>1, <1>9
  <2>2. Len(R) = b  BY <1>0
  <2> QED  BY <1>1, <1>8, <2>1, <2>2 DEF Longer
<1>11. Stored(S, b, f.regs)
  <2>1. Len(f.regs) = M /\ b + (M + 1) >= b + M /\ \A j \in 1..M : j \in 1..(M + 1)
    BY <1>1, <1>9 DEF M
  <2>2. \A j \in 1..M : S[b + j] = Reg(f.regs[j])  BY <1>4, <1>8, <2>1
  <2>3. \A j \in 1..M : S[b + j].name = f.regs[j].name /\ S[b + j].lit = f.regs[j].lit
    BY <2>2, RegFields
  <2> QED  BY <1>3, <1>8, <2>1, <2>3 DEF Stored
<1>12. ASSUME NEW i \in 1..(M + 1) PROVE Resolves(S[b + i], S)
  <2>1. Stands(es[i], f.regs, b)
    <3>1. CASE i = M + 1
      <4>1. es[i] = Entry(name, lit, f.acts)  BY <1>4, <3>1
      <4>2. Len(f.acts) = Len(lit) /\ \A j \in 1..Len(lit) : Found(f.acts[j], lit[j], f.regs, b)
        BY <1>2 DEF Flattened
      <4>3. es[i].name = name /\ es[i].lit = lit /\ es[i].acts = f.acts  BY <4>1, EntryFields
      <4> QED  BY <1>0, <1>3, <4>1, <4>2, <4>3 DEF Stands
    <3>2. CASE i # M + 1
      <4>1. i \in 1..M  BY <1>9, <3>2
      <4> QED  BY <1>2, <1>4, <4>1 DEF Flattened, AllStand, M
    <3> QED  BY <3>1, <3>2
  <2>2. S[b + i] = Reg(es[i])  BY <1>8
  <2>3. S[b + i].acts = es[i].acts /\ S[b + i].lit = es[i].lit  BY <2>2 DEF Reg
  <2> QED  BY <1>1, <1>11, <2>1, <2>3, StandsResolves
<1>13. AllResolve(S)
  <2>1. ASSUME NEW i \in 1..Len(S) PROVE Resolves(S[i], S)
    <3>1. CASE i \in 1..b
      <4>1. S[i] = R[i] /\ Resolves(R[i], R)  BY <1>0, <1>8, <3>1 DEF StreamOK, AllResolve, R
      <4> QED  BY <1>10, <4>1, LongerKept, KeptResolves
    <3>2. CASE i \notin 1..b
      <4> DEFINE k == i - b
      <4>1. k \in 1..(M + 1) /\ i = b + k  BY <1>1, <1>8, <1>9, <3>2
      <4> HIDE DEF k
      <4> QED  BY <1>12, <4>1
    <3> QED  BY <3>1, <3>2
  <2> QED  BY <1>8, <2>1 DEF AllResolve
<1>14. ASSUME NEW p \in 1..Len(more) PROVE AssignOK(more, p)
  <2>1. CASE p \in 1..Len(cmds)
    BY <1>0, <1>6, <1>10, <2>1, AssignedMore DEF StreamOK, R, S
  <2>2. CASE p \notin 1..Len(cmds)
    <3> DEFINE N == Len(cmds)
               k == p - N
    <3>0. N \in Nat /\ Len(more) = N + Len(new) /\ \A i \in 1..Len(new) : more[N + i] = new[i]
      <4>1. IsList(cmds) /\ IsList(new) /\ more = cmds \o new  BY <1>1, <1>5, <1>6
      <4> QED  BY <4>1, Joined
    <3>1. N \in Nat /\ Len(more) = N + (M + 1) /\ \A i \in 1..(M + 1) : more[N + i] = new[i]
      BY <1>5, <3>0
    <3>2. N \in Nat /\ p \in 1..(N + (M + 1)) /\ p \notin 1..N  BY <2>2, <3>1
    <3>3. k \in 1..(M + 1) /\ p = N + k
      <4> HIDE DEF N
      <4> QED  BY <1>9, <3>2
    <3> HIDE DEF k, N
    <3>4. more[p] = Reg(es[k])  BY <1>5, <3>1, <3>3
    <3>5. more[p].c = "RegKeySeq"  BY <3>4, RegFields
    <3> QED  BY <3>5 DEF AssignOK
  <2> QED  BY <2>1, <2>2
<1>15. b + M \in Nat /\ b + (M + 1) = (b + M) + 1 /\ b + (M + 1) > b  BY <1>1, <1>9
<1>16. S[b + (M + 1)] = Reg(Entry(name, lit, f.acts))
  <2>1. M + 1 \in 1..(M + 1)  BY <1>9
  <2> QED  BY <1>4, <1>8, <2>1
<1>17. ASSUME NEW nm \in Names
       PROVE  LastOf(nm, S) = IF name = nm THEN {lit} ELSE LastOf(nm, R)
  <2>1. \A j \in Len(R) + 1..Len(S) - 1 : S[j].name = ""
    <3> TAKE j \in Len(R) + 1..Len(S) - 1
    <3> DEFINE k == j - b
    <3>1. Len(R) = b  BY <1>0 DEF R
    <3>2. j \in b + 1..(b + M)
      <4>1. (b + (M + 1)) - 1 = b + M  BY <1>1, <1>9
      <4> QED  BY <1>8, <3>1, <4>1
    <3>3. k \in 1..M /\ k \in 1..(M + 1) /\ j = b + k
      <4>1. j \in Nat /\ b + 1 <= j /\ j <= b + M  BY <1>1, <1>9, <3>2
      <4> QED  BY <1>1, <1>9, <4>1
    <3> HIDE DEF k
    <3>4. S[j] = Reg(f.regs[k])  BY <1>4, <1>8, <3>3
    <3>5. f.regs[k].name = ""  BY <1>2, <3>3 DEF Flattened, AllStand, M
    <3> QED  BY <3>4, <3>5, RegFields
  <2>2. Len(S) > Len(R)  BY <1>0, <1>8, <1>15 DEF R
  <2>3. nm # ""  BY SymbolsAssumption
  <2>4. LastOf(nm, S) = IF S[Len(S)].name = nm THEN {S[Len(S)].lit} ELSE LastOf(nm, R)
    BY <1>10, <2>1, <2>2, <2>3, LastOfMore
  <2>5. S[Len(S)].name = name /\ S[Len(S)].lit = lit  BY <1>8, <1>16 DEF Reg, Entry
  <2> QED  BY <2>4, <2>5
<1>18. NamesAre(n, S)
  <2>1. m = [x \in Names |-> m[x]] /\ \A x \in Names : LastOf(x, R) = m[x]
    BY <1>0 DEF StreamOK, NamesAre, R
  <2>2. CASE name = ""
    <3>1. \A x \in Names : name # x  BY <1>0, <2>2, SymbolsAssumption
    <3> QED  BY <1>0, <1>17, <2>1, <2>2, <3>1 DEF NamesAre
  <2>3. CASE name # ""
    <3>1. n = [m EXCEPT ![name] = {lit}] /\ name \in Names  BY <1>0, <2>3
    <3>2. n = [x \in Names |-> IF x = name THEN {lit} ELSE m[x]]  BY <2>1, <3>1
    <3>3. \A x \in Names : n[x] = IF x = name THEN {lit} ELSE m[x]  BY <3>2
    <3>4. n = [x \in Names |-> n[x]]  BY <3>2, <3>3
    <3>5. \A x \in Names : LastOf(x, S) = n[x]  BY <1>17, <2>1, <3>3
    <3> QED  BY <3>4, <3>5 DEF NamesAre
  <2> QED  BY <2>2, <2>3
<1>19. StreamOK(more, n)  BY <1>6, <1>13, <1>14, <1>18 DEF StreamOK, S
<1>20. IndexAfter(b, f.regs) = b + M  BY DEF IndexAfter, M
<1>21. LeadsTo([name |-> name, lit |-> lit], b + M, S)
  <2>1. b + M \in 0..Len(S) - 1
    <3>1. Len(S) = b + (M + 1)  BY <1>8
    <3> HIDE DEF S
    <3> QED  BY <1>1, <1>9, <3>1
  <2>2. S[(b + M) + 1].name = name /\ S[(b + M) + 1].lit = lit
    BY <1>15, <1>16 DEF Reg, Entry
  <2> QED  BY <2>1, <2>2 DEF LeadsTo
<1> QED  BY <1>8, <1>10, <1>15, <1>19, <1>20, <1>21 DEF R, S

-----------------------------------------------------------------------------
(* The state of a flush, base being what the script has registered. *)
Shape(st) ==
  st = [symbols |-> st.symbols, idx |-> st.idx, err |-> st.err, meant |-> st.meant,
        cmds |-> st.cmds]

WritingOK(st, base) ==
  /\ StreamOK(st.cmds, st.meant)
  /\ st.idx = Len(Registered(st.cmds))
  /\ Longer(Registered(st.cmds), base)

SymbolsOK(st) == Defaults \subseteq st.symbols /\ st.symbols \subseteq Symbols

Writing(st, base) == Shape(st) /\ SymbolsOK(st) /\ WritingOK(st, base)

LEMMA LongerTrans ==
  ASSUME NEW s, NEW t, NEW u, Longer(t, s), Longer(u, t)
  PROVE  Longer(u, s)
<1>1. Len(s) \in Nat /\ Len(t) \in Nat /\ Len(u) \in Nat  BY ListFacts DEF Longer
<1>2. Len(t) >= Len(s) /\ Len(u) >= Len(t)  BY DEF Longer
<1>3. Len(u) >= Len(s)
  <2> DEFINE a == Len(s)
             b == Len(t)
             c == Len(u)
  <2>1. a \in Nat /\ b \in Nat /\ c \in Nat /\ b >= a /\ c >= b  BY <1>1, <1>2
  <2> HIDE DEF a, b, c
  <2>2. c >= a  BY <2>1
  <2> QED  BY <2>2 DEF a, c
<1>4. \A j \in 1..Len(s) : u[j] = s[j]
  <2> TAKE j \in 1..Len(s)
  <2>1. j \in 1..Len(t)  BY <1>1, <1>2
  <2> QED  BY <2>1 DEF Longer
<1> QED  BY <1>3, <1>4 DEF Longer

LEMMA OneOff == \A k \in Nat : (k + 1) - 1 = k
OBVIOUS

LEMMA CompileSeqIs ==
  ASSUME NEW st, NEW base, Writing(st, base), NEW name, NEW lit,
         name \in Names \union {""} /\ lit \in KeySeqs
  PROVE  LET r == CompileSeq(st, name, lit)
             n == IF name = "" THEN st.meant ELSE [st.meant EXCEPT ![name] = {lit}]
         IN  /\ r = [symbols |-> st.symbols, idx |-> r.idx, err |-> st.err,
                     meant |-> st.meant, cmds |-> r.cmds]
             /\ StreamOK(r.cmds, n)
             /\ r.idx = Len(Registered(r.cmds)) /\ r.idx - 1 \in Nat
             /\ Longer(Registered(r.cmds), base)
             /\ LeadsTo([name |-> name, lit |-> lit], r.idx - 1, Registered(r.cmds))
<1> DEFINE r == CompileSeq(st, name, lit)
           n == IF name = "" THEN st.meant ELSE [st.meant EXCEPT ![name] = {lit}]
           f == Flat(lit, st.idx)
           more == st.cmds \o RegAll(f.regs \o <<Entry(name, lit, f.acts)>>)
           k == IndexAfter(st.idx, f.regs)
<1>1. Shape(st) /\ WritingOK(st, base)  BY DEF Writing
<1>2. r = [st EXCEPT !.cmds = more, !.idx = k + 1]  BY DEF CompileSeq
<1>3. StreamOK(st.cmds, st.meant) /\ st.idx = Len(Registered(st.cmds))
  BY <1>1 DEF WritingOK
<1>4. Compiles(st.cmds, st.meant, name, lit, st.idx, f, more, n)  BY <1>3 DEF Compiles
<1>5. /\ StreamOK(more, n)
      /\ Longer(Registered(more), Registered(st.cmds))
      /\ k \in Nat
      /\ Len(Registered(more)) = k + 1
      /\ LeadsTo([name |-> name, lit |-> lit], k, Registered(more))
  <2> HIDE DEF more, n, f
  <2> QED  BY <1>4, CompiledOK
<1> HIDE DEF more, n, k, r
<1>6. r = [symbols |-> st.symbols, idx |-> k + 1, err |-> st.err, meant |-> st.meant,
           cmds |-> more]
  BY <1>1, <1>2 DEF Shape
<1>9. k \in Nat  BY <1>5
<1>10. (k + 1) - 1 = k  BY <1>9, OneOff
<1>7. r.idx = k + 1 /\ r.cmds = more /\ (k + 1) - 1 = k  BY <1>6, <1>10
<1>8. Longer(Registered(more), base)  BY <1>1, <1>5, LongerTrans DEF WritingOK
<1> QED  BY <1>5, <1>6, <1>7, <1>8 DEF r, n

LEMMA EmitKeeps ==
  ASSUME NEW st, NEW base, Writing(st, base), NEW s, IsStatement(s)
  PROVE  /\ Writing(Emit(st, s), base)
         /\ Emit(st, s).symbols = st.symbols /\ Emit(st, s).err = st.err
<1> DEFINE e == Emit(st, s)
<1>0. Shape(st) /\ WritingOK(st, base) /\ SymbolsOK(st)  BY DEF Writing
<1>1. CASE s.t = "define"
  <2> DEFINE c == Symbol(s.symbol)
             more == Append(st.cmds, c)
  <2>1. e = [st EXCEPT !.cmds = more]  BY <1>1 DEF Emit
  <2>2. ~IsReg(c) /\ c.c # "AssignKey"  BY DEF Symbol, IsReg
  <2>3. StreamOK(st.cmds, st.meant)  BY <1>0 DEF WritingOK
  <2> HIDE DEF c
  <2>4. StreamOK(more, st.meant) /\ Registered(more) = Registered(st.cmds)
    BY <2>2, <2>3, AppendOK
  <2> HIDE DEF more, e
  <2>5. e = [symbols |-> st.symbols, idx |-> st.idx, err |-> st.err, meant |-> st.meant,
             cmds |-> more]
    BY <1>0, <2>1 DEF Shape
  <2>6. /\ Shape(e) /\ e.symbols = st.symbols /\ e.err = st.err /\ e.meant = st.meant
        /\ e.cmds = more /\ e.idx = st.idx
    BY <2>5 DEF Shape
  <2>7. WritingOK(e, base)  BY <1>0, <2>4, <2>6 DEF WritingOK
  <2> QED  BY <1>0, <2>6, <2>7 DEF Writing, SymbolsOK, e
<1>2. CASE s.t = "keyseq"
  <2> DEFINE r == CompileSeq(st, s.name, s.lit)
             n == [st.meant EXCEPT ![s.name] = {s.lit}]
  <2>1. s.name \in Names /\ s.lit \in KeySeqs /\ s.name # ""
    BY <1>2, SymbolsAssumption DEF IsStatement
  <2>2. e = [r EXCEPT !.meant[s.name] = {s.lit}]  BY <1>2 DEF Emit
  <2>3. /\ r = [symbols |-> st.symbols, idx |-> r.idx, err |-> st.err,
                meant |-> st.meant, cmds |-> r.cmds]
        /\ StreamOK(r.cmds, n)
        /\ r.idx = Len(Registered(r.cmds))
        /\ Longer(Registered(r.cmds), base)
    BY <2>1, CompileSeqIs
  <2> HIDE DEF r, e
  <2>4. r.meant = st.meant  BY <2>3
  <2>5. e = [r EXCEPT !.meant = n]  BY <2>2, <2>4
  <2> HIDE DEF n
  <2>6. e = [symbols |-> st.symbols, idx |-> r.idx, err |-> st.err, meant |-> n,
             cmds |-> r.cmds]
    BY <2>3, <2>5
  <2>7. /\ Shape(e) /\ e.symbols = st.symbols /\ e.err = st.err /\ e.meant = n
        /\ e.cmds = r.cmds /\ e.idx = r.idx
    BY <2>6 DEF Shape
  <2>8. WritingOK(e, base)  BY <2>3, <2>7 DEF WritingOK
  <2> QED  BY <1>0, <2>7, <2>8 DEF Writing, SymbolsOK, e
<1>3. CASE s.t = "key"
  <2> DEFINE r == CompileSeq(st, "", s.lit)
             h == [idx |-> r.idx - 1, name |-> "", lit |-> s.lit]
             c == Assign(s.key, h)
             more == Append(r.cmds, c)
  <2>1. s.lit \in KeySeqs  BY <1>3 DEF IsStatement
  <2>2. e = [r EXCEPT !.cmds = more]  BY <1>3 DEF Emit
  <2>3. /\ r = [symbols |-> st.symbols, idx |-> r.idx, err |-> st.err,
                meant |-> st.meant, cmds |-> r.cmds]
        /\ StreamOK(r.cmds, st.meant)
        /\ r.idx = Len(Registered(r.cmds))
        /\ Longer(Registered(r.cmds), base)
        /\ LeadsTo([name |-> "", lit |-> s.lit], r.idx - 1, Registered(r.cmds))
    BY <2>1, CompileSeqIs
  <2> HIDE DEF r, e
  <2>4. c.rhs = r.idx - 1 /\ c.name = "" /\ c.lit = s.lit /\ ~IsReg(c)  BY DEF Assign, IsReg
  <2> HIDE DEF c
  <2>5. LeadsTo(c, c.rhs, Registered(r.cmds))  BY <2>3, <2>4 DEF LeadsTo
  <2>6. StreamOK(more, st.meant) /\ Registered(more) = Registered(r.cmds)
    BY <2>3, <2>4, <2>5, AppendOK
  <2> HIDE DEF more
  <2>7. e = [symbols |-> st.symbols, idx |-> r.idx, err |-> st.err, meant |-> st.meant,
             cmds |-> more]
    <3>1. r = [symbols |-> st.symbols, idx |-> r.idx, err |-> st.err,
               meant |-> st.meant, cmds |-> r.cmds]
      BY <2>3
    <3> QED  BY <2>2, <3>1
  <2>8. /\ Shape(e) /\ e.symbols = st.symbols /\ e.err = st.err /\ e.meant = st.meant
        /\ e.cmds = more /\ e.idx = r.idx
    BY <2>7 DEF Shape
  <2>9. WritingOK(e, base)  BY <2>3, <2>6, <2>8 DEF WritingOK
  <2> QED  BY <1>0, <2>8, <2>9 DEF Writing, SymbolsOK, e
<1> QED  BY <1>1, <1>2, <1>3 DEF IsStatement

LEMMA StatementsKeep ==
  ASSUME NEW st, NEW base, Writing(st, base), NEW stmts, IsList(stmts),
         \A i \in DOMAIN stmts : IsStatement(stmts[i])
  PROVE  /\ Writing(FoldLeft(Emit, st, stmts), base)
         /\ FoldLeft(Emit, st, stmts).symbols = st.symbols
         /\ FoldLeft(Emit, st, stmts).err = st.err
<1> DEFINE N == Len(stmts)
           r == FoldLeft(Emit, st, stmts)
<1>1. PICK K : EmitSteps(K, st, stmts, r)  BY FoldedEmit
<1>2. N \in Nat /\ DOMAIN stmts = 1..N  BY ListFacts
<1> DEFINE Is(n) == Writing(K[n], base) /\ K[n].symbols = st.symbols /\ K[n].err = st.err
           T == {n \in Nat : n <= N => Is(n)}
<1>3. 0 \in T  BY <1>1 DEF EmitSteps
<1>4. ASSUME NEW n \in Nat, n \in T PROVE n + 1 \in T
  <2>1. CASE n + 1 <= N
    <3>1. n + 1 \in 1..N /\ (n + 1) - 1 = n /\ n <= N  BY <1>2, <2>1
    <3>2. K[n + 1] = Emit(K[n], stmts[n + 1])  BY <1>1, <3>1 DEF EmitSteps
    <3>3. Is(n)  BY <1>4, <3>1
    <3>4. IsStatement(stmts[n + 1])  BY <1>2, <3>1
    <3>5. Is(n + 1)  BY <3>2, <3>3, <3>4, EmitKeeps
    <3> QED  BY <3>5
  <2>2. CASE ~(n + 1 <= N)  BY <2>2
  <2> QED  BY <2>1, <2>2
<1> HIDE DEF T
<1>5. N \in T  BY <1>2, <1>3, <1>4, NumbersIn
<1>6. Is(N)  BY <1>2, <1>5 DEF T
<1>7. r = K[N]  BY <1>1 DEF EmitSteps
<1> QED  BY <1>6, <1>7

FilesOK ==
  /\ files = [main |-> files.main, sub |-> files.sub]
  /\ files.main \in Texts /\ files.sub \in SubTexts

LEMMA IncludeKeeps ==
  ASSUME FilesOK, NEW st, NEW base, Writing(st, base), NEW f \in FileNames
  PROVE  Writing(Include(st, f), base)
<1> DEFINE c == Compiled(files, f, st.symbols)
           s == FoldLeft(Emit, st, c.stmts)
           new == Carried(s.symbols, c.symbols)
<1>1. /\ Defaults \subseteq c.symbols /\ c.symbols \subseteq Symbols
      /\ IsList(c.stmts) /\ \A i \in DOMAIN c.stmts : IsStatement(c.stmts[i])
  <2> DEFINE main == files.main
             sub == files.sub
             more == st.symbols \ Defaults
  <2>1. st.symbols = Defaults \union more /\ more \in SUBSET (Symbols \ Defaults)
    BY DEF Writing, SymbolsOK
  <2>2. main \in Texts /\ sub \in SubTexts /\ files = [main |-> main, sub |-> sub]  BY DEF FilesOK
  <2>3. c = Compiled([main |-> main, sub |-> sub], f, Defaults \union more)  BY <2>1, <2>2
  <2> HIDE DEF main, sub, more, c
  <2> QED  BY <2>1, <2>2, <2>3, CompiledAssumption
<1>2. Writing(s, base) /\ s.symbols = st.symbols  BY <1>1, StatementsKeep
<1> HIDE DEF c
<1>3. Include(st, f) = IF c.err THEN [s EXCEPT !.err = TRUE] ELSE [s EXCEPT !.symbols = new]
  BY DEF Include, c
<1> HIDE DEF s
<1>4. Shape(s) /\ WritingOK(s, base) /\ SymbolsOK(s)  BY <1>2 DEF Writing
<1>5. ASSUME NEW e, NEW syms, NEW err, Defaults \subseteq syms /\ syms \subseteq Symbols,
             e = [symbols |-> syms, idx |-> s.idx, err |-> err, meant |-> s.meant,
                  cmds |-> s.cmds]
      PROVE  Writing(e, base)
  <2>1. /\ Shape(e) /\ e.symbols = syms /\ e.meant = s.meant
        /\ e.cmds = s.cmds /\ e.idx = s.idx
    BY <1>5 DEF Shape
  <2>2. WritingOK(e, base)  BY <1>4, <2>1 DEF WritingOK
  <2>3. SymbolsOK(e)  BY <1>5, <2>1 DEF SymbolsOK
  <2> QED  BY <2>1, <2>2, <2>3 DEF Writing
<1>6. CASE c.err
  <2>1. Include(st, f) = [s EXCEPT !.err = TRUE]  BY <1>3, <1>6
  <2>2. Include(st, f) = [symbols |-> s.symbols, idx |-> s.idx, err |-> TRUE,
                          meant |-> s.meant, cmds |-> s.cmds]
    BY <1>4, <2>1 DEF Shape
  <2>3. Defaults \subseteq s.symbols /\ s.symbols \subseteq Symbols  BY <1>4 DEF SymbolsOK
  <2> QED  BY <1>5, <2>2, <2>3
<1>7. CASE ~c.err
  <2>1. Include(st, f) = [s EXCEPT !.symbols = new]  BY <1>3, <1>7
  <2>2. Defaults \subseteq new /\ new \subseteq Symbols  BY <1>1, <1>4 DEF SymbolsOK, Carried
  <2> HIDE DEF new
  <2>3. Include(st, f) = [symbols |-> new, idx |-> s.idx, err |-> s.err,
                          meant |-> s.meant, cmds |-> s.cmds]
    BY <1>4, <2>1 DEF Shape
  <2> QED  BY <1>5, <2>2, <2>3
<1> QED  BY <1>6, <1>7

\* What is queued: a file, or an assignment of a key sequence the script holds.
QueuedOK(e, regs) ==
  \/ e.t = "include" /\ e.file \in FileNames
  \/ /\ e.t = "direct" /\ ~IsReg(e.cmd) /\ e.cmd.c = "AssignKey"
     /\ LeadsTo(e.cmd, e.cmd.rhs, regs)

LEMMA DequeueKeeps ==
  ASSUME FilesOK, NEW st, NEW base, Writing(st, base), NEW e, QueuedOK(e, base)
  PROVE  Writing(Dequeue(st, e), base)
<1>1. CASE st.err  BY <1>1 DEF Dequeue
<1>2. CASE ~st.err /\ e.t = "include"
  <2>1. e.file \in FileNames  BY <1>2 DEF QueuedOK
  <2>2. Dequeue(st, e) = Include(st, e.file)  BY <1>2 DEF Dequeue
  <2> QED  BY <2>1, <2>2, IncludeKeeps
<1>3. CASE ~st.err /\ e.t # "include"
  <2> DEFINE c == e.cmd
             more == Append(st.cmds, c)
             d == Dequeue(st, e)
  <2>1. ~IsReg(c) /\ c.c = "AssignKey" /\ LeadsTo(c, c.rhs, base)  BY <1>3 DEF QueuedOK
  <2>2. d = [st EXCEPT !.cmds = more]  BY <1>3 DEF Dequeue
  <2>3. Shape(st) /\ WritingOK(st, base) /\ SymbolsOK(st)  BY DEF Writing
  <2>4. StreamOK(st.cmds, st.meant) /\ Longer(Registered(st.cmds), base)  BY <2>3 DEF WritingOK
  <2>5. LeadsTo(c, c.rhs, Registered(st.cmds))  BY <2>1, <2>4, LongerKept, KeptLeads
  <2> HIDE DEF c, d
  <2>6. StreamOK(more, st.meant) /\ Registered(more) = Registered(st.cmds)
    BY <2>1, <2>4, <2>5, AppendOK
  <2> HIDE DEF more
  <2>7. d = [symbols |-> st.symbols, idx |-> st.idx, err |-> st.err, meant |-> st.meant,
             cmds |-> more]
    BY <2>2, <2>3 DEF Shape
  <2>8. /\ Shape(d) /\ d.symbols = st.symbols /\ d.meant = st.meant
        /\ d.cmds = more /\ d.idx = st.idx
    BY <2>7 DEF Shape
  <2>9. WritingOK(d, base)  BY <2>3, <2>6, <2>8 DEF WritingOK
  <2> QED  BY <2>3, <2>8, <2>9 DEF Writing, SymbolsOK, d
<1> QED  BY <1>1, <1>2, <1>3

LEMMA QueueKeeps ==
  ASSUME FilesOK, NEW st, NEW base, Writing(st, base), NEW q, IsList(q),
         \A i \in 1..Len(q) : QueuedOK(q[i], base)
  PROVE  Writing(FoldLeft(Dequeue, st, q), base)
<1> DEFINE N == Len(q)
           r == FoldLeft(Dequeue, st, q)
<1>1. PICK K : DequeueSteps(K, st, q, r)  BY FoldedDequeue
<1>2. N \in Nat  BY ListFacts
<1> DEFINE T == {n \in Nat : n <= N => Writing(K[n], base)}
<1>3. 0 \in T  BY <1>1 DEF DequeueSteps
<1>4. ASSUME NEW n \in Nat, n \in T PROVE n + 1 \in T
  <2>1. CASE n + 1 <= N
    <3>1. n + 1 \in 1..N /\ (n + 1) - 1 = n /\ n <= N  BY <1>2, <2>1
    <3>2. K[n + 1] = Dequeue(K[n], q[n + 1])  BY <1>1, <3>1 DEF DequeueSteps
    <3>3. Writing(K[n], base)  BY <1>4, <3>1
    <3>4. QueuedOK(q[n + 1], base)  BY <3>1
    <3>5. Writing(K[n + 1], base)  BY <3>2, <3>3, <3>4, DequeueKeeps
    <3> QED  BY <3>5
  <2>2. CASE ~(n + 1 <= N)  BY <2>2
  <2> QED  BY <2>1, <2>2
<1> HIDE DEF T
<1>5. N \in T  BY <1>2, <1>3, <1>4, NumbersIn
<1>6. r = K[N]  BY <1>1 DEF DequeueSteps
<1> QED  BY <1>2, <1>5, <1>6 DEF T

-----------------------------------------------------------------------------
(* A flush starts from what the script has registered. *)
LEMMA SetAsList ==
  ASSUME NEW S, IsFiniteSet(S)
  PROVE  IsList(SetToSeq(S))
<1> DEFINE n == Cardinality(S)
<1>1. n \in Nat /\ ExistsBijection(1..n, S)  BY FS_CardinalityType
<1>2. \E f \in [1..n -> S] : IsInjective(f)
  BY <1>1 DEF ExistsBijection, Bijection, Injection, IsInjective
<1>3. SetToSeq(S) \in [1..n -> S]  BY <1>2 DEF SetToSeq
<1> HIDE DEF n
<1>4. SetToSeq(S) \in Seq(S)  BY <1>1, <1>3, SeqDef
<1> QED  BY <1>4, SeqFacts

\* the commands in front of the sequences
Opening(syms) ==
  LET defined == SetToSeq(syms)
  IN  <<[c |-> "Reset"]>> \o [i \in DOMAIN defined |-> Symbol(defined[i])]

LEMMA OpeningIs ==
  ASSUME NEW syms, IsFiniteSet(syms)
  PROVE  /\ IsList(Opening(syms)) /\ Registered(Opening(syms)) = <<>>
         /\ \A p \in 1..Len(Opening(syms)) : Opening(syms)[p].c \in {"Reset", "DefSymbol"}
<1> DEFINE defined == SetToSeq(syms)
           s == <<[c |-> "Reset"]>>
           t == [i \in DOMAIN defined |-> Symbol(defined[i])]
           u == Opening(syms)
           n == Len(defined)
<1>1. n \in Nat /\ DOMAIN defined = 1..n  BY SetAsList, ListFacts
<1>2. u = s \o t  BY DEF Opening
<1> HIDE DEF u, defined, n
<1>3. IsList(s) /\ Len(s) = 1 /\ s[1] = [c |-> "Reset"]  BY OneList
<1>4. t = [i \in 1..n |-> Symbol(defined[i])]  BY <1>1
<1>5. DOMAIN t = 1..n /\ \A i \in 1..n : t[i] = Symbol(defined[i])  BY <1>4
<1>6. t = [i \in 1..n |-> t[i]]  BY <1>4, <1>5
<1> HIDE DEF t
<1>7. IsList(t) /\ Len(t) = n  BY <1>1, <1>5, <1>6, ListFrom
<1>8. Registered(s) = <<>>
  <2>1. s = Append(<<>>, [c |-> "Reset"])  OBVIOUS
  <2> HIDE DEF s
  <2>2. Registered(s) = Number(<<>>, [c |-> "Reset"])
    BY <2>1, EmptyList, RegisteredNone, RegisteredAppend
  <2> QED  BY <2>2 DEF Number, IsReg
<1>9. \A i \in 1..Len(t) : t[i].c = "DefSymbol"  BY <1>5, <1>7 DEF Symbol
<1> HIDE DEF s
<1>10. Registered(u) = <<>>
  <2>1. \A i \in 1..Len(t) : ~IsReg(t[i])  BY <1>9 DEF IsReg
  <2>2. IsList(Registered(s))  BY <1>8, EmptyList
  <2> QED  BY <1>2, <1>3, <1>7, <1>8, <2>1, <2>2, RegisteredJoined
<1>11. /\ IsList(u) /\ Len(u) = Len(s) + Len(t)
       /\ \A i \in 1..Len(s) : u[i] = s[i]
       /\ \A i \in 1..Len(t) : u[Len(s) + i] = t[i]
  <2>1. IsList(s) /\ IsList(t)  BY <1>3, <1>7
  <2> QED  BY <1>2, <2>1, Joined
<1>12. \A p \in 1..Len(u) : u[p].c \in {"Reset", "DefSymbol"}
  <2> TAKE p \in 1..Len(u)
  <2>1. CASE p = 1
    <3>1. u[p] = s[1]  BY <1>3, <1>11, <2>1
    <3> QED  BY <1>3, <3>1
  <2>2. CASE p # 1
    <3> DEFINE k == p - 1
    <3>1. k \in 1..Len(t) /\ p = Len(s) + k  BY <1>1, <1>3, <1>7, <1>11, <2>2
    <3> HIDE DEF k
    <3>2. u[p] = t[k]  BY <1>11, <3>1
    <3> QED  BY <1>9, <3>1, <3>2
  <2> QED  BY <2>1, <2>2
<1> QED  BY <1>10, <1>11, <1>12 DEF u

(***************************************************************************)
(* While the script loads: what it has registered, and what it holds.      *)
(***************************************************************************)
NamedOK(n, k, m, es) ==
  IF k = 0 THEN m = {} /\ \A i \in 1..Len(es) : es[i].name # n
  ELSE k \in 1..Len(es) /\ m = {es[k].lit} /\ \A i \in 1..Len(es) : es[i].name = n <=> i = k

NamesOK(ks, m, es) ==
  /\ ks = [n \in Names |-> ks[n]] /\ m = [n \in Names |-> m[n]]
  /\ \A n \in Names : NamedOK(n, ks[n], m[n], es)

HeldOK(hs, es) == IsList(hs) /\ \A i \in 1..Len(hs) : LeadsTo(hs[i], hs[i].idx, es)

QueueOK(q, es) == IsList(q) /\ \A i \in 1..Len(q) : QueuedOK(q[i], es)

LoadingOK ==
  /\ Defaults \subseteq symbols /\ symbols \subseteq Symbols
  /\ AllResolve(entries)
  /\ NamesOK(byName, meant, entries)
  /\ HeldOK(held, entries)
  /\ QueueOK(queue, entries)

LEMMA RegAllKept ==
  ASSUME NEW es, IsList(es)
  PROVE  Kept(RegAll(es), es)
<1>1. IsList(RegAll(es)) /\ Len(RegAll(es)) = Len(es) /\ Len(es) \in Nat
  BY RegAllIs, ListFacts
<1>2. \A j \in 1..Len(es) : RegAll(es)[j].name = es[j].name /\ RegAll(es)[j].lit = es[j].lit
                            /\ RegAll(es)[j].acts = es[j].acts
  BY RegAllIs, RegFields
<1>3. Len(RegAll(es)) >= Len(es)
  <2> DEFINE k == Len(es)
  <2>1. k \in Nat  BY <1>1
  <2> HIDE DEF k
  <2>2. k >= k  BY <2>1
  <2> QED  BY <1>1, <2>2 DEF k
<1> QED  BY <1>1, <1>2, <1>3 DEF Kept

LEMMA StoredNames ==
  ASSUME NEW es, IsList(es), NEW ks, NEW m, NamesOK(ks, m, es)
  PROVE  NamesAre(m, RegAll(es))
<1> DEFINE regs == RegAll(es)
<1>1. IsList(regs) /\ Len(regs) = Len(es) /\ DOMAIN regs = 1..Len(es)
      /\ \A i \in 1..Len(es) : regs[i].name = es[i].name /\ regs[i].lit = es[i].lit
  BY RegAllIs, RegFields, ListFacts
<1> HIDE DEF regs
<1>2. ASSUME NEW n \in Names PROVE LastOf(n, regs) = m[n]
  <2>1. NamedOK(n, ks[n], m[n], es)  BY DEF NamesOK
  <2>2. CASE ks[n] = 0
    <3>1. m[n] = {} /\ \A i \in 1..Len(es) : es[i].name # n  BY <2>1, <2>2 DEF NamedOK
    <3> QED  BY <1>1, <3>1, LastOfNone
  <2>3. CASE ks[n] # 0
    <3> DEFINE k == ks[n]
    <3>1. k \in 1..Len(es) /\ m[n] = {es[k].lit} /\ \A i \in 1..Len(es) : es[i].name = n <=> i = k
      BY <2>1, <2>3 DEF NamedOK
    <3> HIDE DEF k
    <3>2. k \in DOMAIN regs /\ \A i \in DOMAIN regs : regs[i].name = n <=> i = k  BY <1>1, <3>1
    <3>3. LastOf(n, regs) = {regs[k].lit}  BY <1>1, <3>2, LastOfOne
    <3> QED  BY <1>1, <3>1, <3>3
  <2> QED  BY <2>2, <2>3
<1> QED  BY <1>2 DEF NamesAre, NamesOK, regs

LEMMA FlushStarts ==
  ASSUME LoadingOK
  PROVE  Writing(FlushStart, RegAll(entries))
<1> DEFINE regs == RegAll(entries)
           open == Opening(symbols)
           cmds == open \o regs
           st == FlushStart
<1>1. AllResolve(entries) /\ IsList(entries) /\ NamesOK(byName, meant, entries)
      /\ Defaults \subseteq symbols /\ symbols \subseteq Symbols
  BY DEF LoadingOK, AllResolve
<1>2. IsFiniteSet(symbols)
  BY <1>1, SymbolsAssumption, FS_Subset
<1>3. /\ IsList(open) /\ Registered(open) = <<>>
      /\ \A p \in 1..Len(open) : open[p].c \in {"Reset", "DefSymbol"}
  BY <1>2, OpeningIs
<1>4. st = [symbols |-> symbols, idx |-> Len(entries), err |-> FALSE, meant |-> meant,
            cmds |-> cmds]
  BY DEF FlushStart, Opening
<1>5. Shape(st) /\ st.symbols = symbols /\ st.idx = Len(entries) /\ st.meant = meant
      /\ st.cmds = cmds
  BY <1>4 DEF Shape
<1> HIDE DEF st, open
<1>6. /\ IsList(regs) /\ Len(regs) = Len(entries) /\ Len(entries) \in Nat
      /\ \A i \in 1..Len(entries) : regs[i] = Reg(entries[i])
  BY <1>1, RegAllIs, ListFacts
<1> HIDE DEF regs
<1>7. \A i \in 1..Len(regs) : regs[i].c = "RegKeySeq" /\ IsReg(regs[i])
  BY <1>6, RegFields DEF IsReg
<1>8. Registered(cmds) = regs
  <2>1. Registered(cmds) = <<>> \o regs
    <3>1. IsList(Registered(open))  BY <1>3, EmptyList
    <3> QED  BY <1>3, <1>6, <1>7, <3>1, RegisteredJoined
  <2>2. /\ IsList(<<>> \o regs) /\ Len(<<>> \o regs) = Len(<<>>) + Len(regs)
        /\ \A i \in 1..Len(regs) : (<<>> \o regs)[Len(<<>>) + i] = regs[i]
    BY <1>6, EmptyList, Joined
  <2> DEFINE v == <<>> \o regs
  <2>3. IsList(v) /\ Len(v) = Len(regs) /\ \A i \in 1..Len(regs) : v[i] = regs[i]
    <3> DEFINE k == Len(regs)
    <3>1. k \in Nat /\ Len(<<>>) = 0  BY <1>6, EmptyList
    <3> HIDE DEF k
    <3>2. 0 + k = k /\ \A i \in 1..k : 0 + i = i  BY <3>1
    <3> QED  BY <2>2, <3>1, <3>2 DEF k
  <2> HIDE DEF v
  <2>4. v = regs  BY <1>6, <2>3, SameList
  <2> QED  BY <2>1, <2>4 DEF v
<1>9. /\ IsList(cmds) /\ Len(cmds) = Len(open) + Len(regs) /\ Len(open) \in Nat
      /\ \A i \in 1..Len(open) : cmds[i] = open[i]
      /\ \A i \in 1..Len(regs) : cmds[Len(open) + i] = regs[i]
  BY <1>3, <1>6, Joined
<1> HIDE DEF cmds
<1>10. \A p \in 1..Len(cmds) : AssignOK(cmds, p)
  <2> TAKE p \in 1..Len(cmds)
  <2>1. CASE p \in 1..Len(open)
    <3>1. cmds[p].c \in {"Reset", "DefSymbol"}  BY <1>3, <1>9, <2>1
    <3>2. cmds[p].c # "AssignKey"  BY <3>1
    <3> QED  BY <3>2 DEF AssignOK
  <2>2. CASE p \notin 1..Len(open)
    <3> DEFINE a == Len(open)
               b == Len(regs)
               k == p - a
    <3>1. a \in Nat /\ b \in Nat /\ p \in 1..(a + b) /\ p \notin 1..a  BY <1>6, <1>9, <2>2
    <3>2. k \in 1..b /\ p = a + k
      <4> HIDE DEF a, b
      <4> QED  BY <3>1
    <3> HIDE DEF k
    <3>3. cmds[p] = regs[k]  BY <1>9, <3>2
    <3>4. cmds[p].c = "RegKeySeq"  BY <1>7, <3>2, <3>3
    <3> QED  BY <3>4 DEF AssignOK
  <2> QED  BY <2>1, <2>2
<1>11. AllResolve(regs)
  <2>1. ASSUME NEW i \in 1..Len(regs) PROVE Resolves(regs[i], regs)
    <3>1. Resolves(entries[i], entries) /\ i \in 1..Len(entries)  BY <1>1, <1>6 DEF AllResolve
    <3>2. Kept(regs, entries)  BY <1>1, RegAllKept DEF regs
    <3>3. Resolves(entries[i], regs)  BY <3>1, <3>2, KeptResolves
    <3>4. regs[i].lit = entries[i].lit /\ regs[i].acts = entries[i].acts  BY <1>6, <3>1, RegFields
    <3> QED  BY <3>3, <3>4 DEF Resolves
  <2> QED  BY <1>6, <2>1 DEF AllResolve
<1>12. NamesAre(meant, regs)  BY <1>1, StoredNames DEF regs
<1>13. StreamOK(cmds, meant)  BY <1>8, <1>9, <1>10, <1>11, <1>12 DEF StreamOK
<1>14. Longer(regs, regs)
  <2> DEFINE k == Len(regs)
  <2>1. k \in Nat  BY <1>6
  <2> HIDE DEF k
  <2>2. k >= k  BY <2>1
  <2> QED  BY <1>6, <2>2 DEF k, Longer
<1>15. WritingOK(st, regs)  BY <1>5, <1>6, <1>8, <1>13, <1>14 DEF WritingOK
<1>16. SymbolsOK(st)  BY <1>1, <1>5 DEF SymbolsOK
<1> QED  BY <1>5, <1>15, <1>16 DEF Writing, st, regs

\* So a flush leaves a stream in which everything leads to where it should.
LEMMA FlushWrites ==
  ASSUME FilesOK, LoadingOK
  PROVE  Writing(Flush, RegAll(entries))
<1>1. IsList(queue) /\ \A i \in 1..Len(queue) : QueuedOK(queue[i], RegAll(entries))
  <2>1. QueueOK(queue, entries) /\ IsList(entries)  BY DEF LoadingOK, AllResolve
  <2>2. Kept(RegAll(entries), entries)  BY <2>1, RegAllKept
  <2>3. ASSUME NEW i \in 1..Len(queue) PROVE QueuedOK(queue[i], RegAll(entries))
    <3>1. QueuedOK(queue[i], entries)  BY <2>1 DEF QueueOK
    <3> QED  BY <2>2, <3>1, KeptLeads DEF QueuedOK
  <2> QED  BY <2>1, <2>3 DEF QueueOK
<1> QED  BY <1>1, FlushStarts, QueueKeeps DEF Flush

\* A flush ends with the stream in order, whether it is committed or not.
LEMMA ReturnResolves ==
  ASSUME FilesOK, LoadingOK, ReturnTrue
  PROVE  IndexesResolve'
<1> DEFINE r == Flush
           com == [c |-> "Commit"]
<1>1. WritingOK(r, RegAll(entries))  BY FlushWrites DEF Writing
<1>2. StreamOK(r.cmds, r.meant)  BY <1>1 DEF WritingOK
<1>3. StreamOK(stream', meant')
  <2>1. meant' = r.meant /\ stream' = IF r.err THEN r.cmds ELSE Append(r.cmds, com)
    BY DEF ReturnTrue
  <2>2. ~IsReg(com) /\ com.c # "AssignKey"  BY DEF IsReg
  <2> HIDE DEF r, com
  <2>3. StreamOK(Append(r.cmds, com), r.meant)  BY <1>2, <2>2, AppendOK
  <2> QED  BY <1>2, <2>1, <2>3
<1>4. IsList(stream') /\ AllResolve(Registered(stream')) /\ NamesAre(meant', Registered(stream'))
      /\ \A p \in 1..Len(stream') : AssignOK(stream', p)
  BY <1>3 DEF StreamOK
<1>5. DOMAIN stream' = 1..Len(stream')  BY <1>4, ListFacts
<1>6. DOMAIN Registered(stream') = 1..Len(Registered(stream'))  BY <1>4, ListFacts DEF AllResolve
<1> QED  BY <1>4, <1>5, <1>6 DEF IndexesResolve, AllResolve, AssignOK, NamesAre

-----------------------------------------------------------------------------
(* A registration: the indexes of the arguments are moved behind what is   *)
(* registered already.                                                     *)
LEMMA RemapStands ==
  ASSUME NEW e, NEW f, NEW b \in Nat, IsList(f), Stands(e, f, 0)
  PROVE  /\ Stands(Remap(e, b), f, b)
         /\ Remap(e, b).name = e.name /\ Remap(e, b).lit = e.lit
<1> DEFINE N == Len(e.lit)
           Moved(x) == IF x.t = "idx" THEN [t |-> "idx", idx |-> b + x.idx] ELSE x
           acts == [i \in DOMAIN e.acts |-> Moved(e.acts[i])]
           r == Remap(e, b)
<1>1. /\ e = Entry(e.name, e.lit, e.acts) /\ e.lit \in KeySeqs
      /\ IsList(e.acts) /\ Len(e.acts) = N
      /\ \A i \in 1..N : Found(e.acts[i], e.lit[i], f, 0)
  BY DEF Stands
<1>2. N \in Nat /\ DOMAIN e.acts = 1..N /\ DOMAIN e.lit = 1..N  BY <1>1, ListFacts, KeySeqFacts
<1>3. r = [e EXCEPT !.acts = acts]  BY DEF Remap
<1>4. r = Entry(e.name, e.lit, acts)
  <2> HIDE DEF acts, r
  <2>1. e = [name |-> e.name, lit |-> e.lit, acts |-> e.acts]  BY <1>1 DEF Entry
  <2> QED  BY <1>3, <2>1 DEF Entry
<1>5. DOMAIN acts = 1..N /\ acts = [i \in 1..N |-> acts[i]]
      /\ \A i \in 1..N : acts[i] = Moved(e.acts[i])
  BY <1>2
<1> HIDE DEF acts, r
<1>6. IsList(acts) /\ Len(acts) = N  BY <1>2, <1>5, ListFrom
<1>7. ASSUME NEW i \in 1..N PROVE Found(acts[i], e.lit[i], f, b)
  <2>1. Found(e.acts[i], e.lit[i], f, 0) /\ acts[i] = Moved(e.acts[i])  BY <1>1, <1>5
  <2>2. CASE e.lit[i].t # "arg"
    <3>1. e.acts[i] = e.lit[i]  BY <2>1, <2>2 DEF Found
    <3>2. e.lit[i].t # "idx"  BY <1>1, <1>2, KeySeqFacts
    <3>3. acts[i] = e.lit[i]  BY <2>1, <3>1, <3>2
    <3> QED  BY <2>2, <3>3 DEF Found
  <2>3. CASE e.lit[i].t = "arg"
    <3> DEFINE k == e.acts[i].idx
               l == Len(f)
    <3>1. /\ e.acts[i].t = "idx" /\ k \in Nat /\ k >= 0 /\ k < 0 + l
          /\ f[k - 0 + 1].name = "" /\ f[k - 0 + 1].lit = e.lit[i].lit
      BY <2>1, <2>3 DEF Found
    <3>2. acts[i] = [t |-> "idx", idx |-> b + k]  BY <2>1, <3>1
    <3>3. acts[i].t = "idx" /\ acts[i].idx = b + k  BY <3>2
    <3>4. k \in Nat /\ k >= 0 /\ k < 0 + l  BY <3>1
    <3> HIDE DEF k
    <3>5. b + k \in Nat /\ b + k >= b /\ (b + k) - b + 1 = k - 0 + 1  BY <3>4
    <3>6. b + k < b + l
      <4>1. l \in Nat  BY ListFacts
      <4> HIDE DEF l
      <4> QED  BY <3>4, <4>1
    <3> QED  BY <2>3, <3>1, <3>3, <3>5, <3>6 DEF Found, l
  <2> QED  BY <2>2, <2>3
<1>8. r.name = e.name /\ r.lit = e.lit /\ r.acts = acts  BY <1>4, EntryFields
<1>9. Stands(r, f, b)  BY <1>1, <1>4, <1>6, <1>7, <1>8 DEF Stands
<1> QED  BY <1>8, <1>9 DEF r

\* es with subs behind it, and e at k: behind those, or where e has been
Grew(new, es, subs, e, k) ==
  /\ IsList(new) /\ IsList(es) /\ IsList(subs)
  /\ Len(new) >= Len(es) + Len(subs)
  /\ k \in 1..Len(new) /\ new[k] = e
  /\ \A i \in 1..Len(es) : IF i = k THEN es[i].name = e.name /\ e.name # "" ELSE new[i] = es[i]
  /\ \A j \in 1..Len(subs) : Len(es) + j # k /\ new[Len(es) + j] = subs[j]
  /\ \A i \in 1..Len(new) : i \in 1..Len(es) \/ i = k \/ \E j \in 1..Len(subs) : i = Len(es) + j

\* where the places behind a and b are
LEMMA Behind ==
  ASSUME NEW a \in Nat, NEW b \in Nat
  PROVE  /\ a + b + 1 \in 1..(a + b + 1) /\ a + b + 1 >= a + b /\ a + b + 1 > 0
         /\ a + b >= a + b /\ a + b >= a /\ a + b + 1 = (a + b) + 1
         /\ \A i \in 1..a : i # a + b + 1 /\ i \in 1..(a + b) /\ i \in 1..(a + b + 1)
         /\ \A j \in 1..b : /\ a + j # a + b + 1 /\ a + j \in 1..(a + b) /\ a + j \notin 1..a
                            /\ a + j \in 1..(a + b + 1)
         /\ \A i \in 1..(a + b + 1) :
              i \in 1..a \/ i = a + b + 1 \/ \E j \in 1..b : i = a + j
         /\ \A i \in 1..(a + b) : i \in 1..a \/ \E j \in 1..b : i = a + j
<1>1. \A i \in 1..(a + b) : i \in 1..a \/ \E j \in 1..b : i = a + j
  <2> TAKE i \in 1..(a + b)
  <2>1. CASE i \notin 1..a
    <3> DEFINE j == i - a
    <3>1. j \in 1..b /\ i = a + j  BY <2>1
    <3> QED  BY <3>1
  <2> QED  BY <2>1
<1>2. \A i \in 1..(a + b + 1) : i \in 1..(a + b) \/ i = a + b + 1  OBVIOUS
<1> QED  BY <1>1, <1>2

LEMMA GrewBehind ==
  ASSUME NEW es, NEW subs, NEW e, IsList(es), IsList(subs)
  PROVE  Grew(es \o subs \o <<e>>, es, subs, e, Len(es) + Len(subs) + 1)
<1> DEFINE a == Len(es)
           b == Len(subs)
           s == es \o subs
           new == s \o <<e>>
<1>1. /\ IsList(s) /\ a \in Nat /\ b \in Nat /\ Len(s) = a + b
      /\ \A n \in 1..a : s[n] = es[n]
      /\ \A n \in 1..b : s[a + n] = subs[n]
  BY Joined
<1>2. IsList(<<e>>) /\ Len(<<e>>) = 1 /\ <<e>>[1] = e  BY OneList
<1> HIDE DEF s
<1>3. /\ IsList(new) /\ Len(new) = Len(s) + Len(<<e>>)
      /\ \A n \in 1..Len(s) : new[n] = s[n]
      /\ \A n \in 1..Len(<<e>>) : new[Len(s) + n] = <<e>>[n]
  BY <1>1, <1>2, Joined
<1> HIDE DEF a, b, new
<1>4. Len(new) = a + b + 1 /\ new[a + b + 1] = e
      /\ \A n \in 1..(a + b) : new[n] = s[n]
  <2>1. Len(s) + 1 = a + b + 1 /\ 1 \in 1..1  BY <1>1
  <2> QED  BY <1>1, <1>2, <1>3, <2>1
<1>5. \A n \in 1..a : new[n] = es[n]  BY <1>1, <1>4, Behind
<1>6. \A n \in 1..b : new[a + n] = subs[n]  BY <1>1, <1>4, Behind
<1>7. Grew(new, es, subs, e, a + b + 1)
  <2>1. IsList(new)  BY <1>3
  <2>2. Len(new) >= a + b /\ a + b + 1 \in 1..Len(new)  BY <1>1, <1>4, Behind
  <2>3. \A i \in 1..a : i # a + b + 1  BY <1>1, Behind
  <2>4. \A j \in 1..b : a + j # a + b + 1  BY <1>1, Behind
  <2>5. \A i \in 1..Len(new) : i \in 1..a \/ i = a + b + 1 \/ \E j \in 1..b : i = a + j
    BY <1>1, <1>4, Behind
  <2> QED  BY <1>4, <1>5, <1>6, <2>1, <2>2, <2>3, <2>4, <2>5 DEF Grew, a, b
<1> QED  BY <1>7 DEF new, s, a, b

Replaces(e, es, k) == k \in 1..Len(es) /\ es[k].name = e.name /\ e.name # ""

LEMMA GrewAt ==
  ASSUME NEW es, NEW subs, NEW e, NEW k, IsList(es), IsList(subs), Replaces(e, es, k)
  PROVE  Grew([es \o subs EXCEPT ![k] = e], es, subs, e, k)
<1> DEFINE a == Len(es)
           b == Len(subs)
           s == es \o subs
           new == [s EXCEPT ![k] = e]
<1>1. /\ IsList(s) /\ a \in Nat /\ b \in Nat /\ Len(s) = a + b /\ DOMAIN s = 1..(a + b)
      /\ \A n \in 1..a : s[n] = es[n]
      /\ \A n \in 1..b : s[a + n] = subs[n]
  BY Joined
<1> HIDE DEF s, a, b
<1>2. k \in 1..a  BY DEF Replaces, a
<1>3. a + b \in Nat /\ k \in 1..(a + b)  BY <1>1, <1>2, Behind
<1>4. s = [i \in 1..(a + b) |-> s[i]]
  <2>1. s \in Seq(ToSet(s))  BY <1>1 DEF IsList
  <2>2. s = [i \in 1..Len(s) |-> s[i]]  BY <2>1
  <2> QED  BY <1>1, <2>2
<1>5. new = [i \in 1..(a + b) |-> IF i = k THEN e ELSE s[i]]  BY <1>4
<1>6. DOMAIN new = 1..(a + b) /\ new = [i \in 1..(a + b) |-> new[i]]
      /\ new[k] = e /\ \A i \in 1..(a + b) : i # k => new[i] = s[i]
  BY <1>3, <1>5
<1> HIDE DEF new
<1>7. IsList(new) /\ Len(new) = a + b  BY <1>3, <1>6, ListFrom
<1>8. \A n \in 1..a : n # k => new[n] = es[n]  BY <1>1, <1>6, Behind
<1>9. \A n \in 1..b : a + n # k /\ new[a + n] = subs[n]
  <2> TAKE n \in 1..b
  <2>1. a + n \in 1..(a + b) /\ a + n \notin 1..a  BY <1>1, Behind
  <2>2. a + n # k  BY <1>2, <2>1
  <2> QED  BY <1>1, <1>6, <2>1, <2>2
<1>10. Grew(new, es, subs, e, k)
  <2>1. Len(new) >= a + b /\ k \in 1..Len(new)
    <3>1. a + b >= a + b  BY <1>1, Behind
    <3> QED  BY <1>3, <1>7, <3>1
  <2>2. \A i \in 1..Len(new) : i \in 1..a \/ i = k \/ \E j \in 1..b : i = a + j
    BY <1>1, <1>7, Behind
  <2> QED  BY <1>6, <1>7, <1>8, <1>9, <2>1, <2>2 DEF Grew, Replaces, a, b
<1> QED  BY <1>10 DEF new, s

Unnamed(subs) == \A j \in 1..Len(subs) : subs[j].name = ""

LEMMA Places ==
  ASSUME NEW a \in Nat, NEW b \in Nat
  PROVE  (b >= a => \A i \in 1..a : i \in 1..b) /\ 0 \notin 1..a
OBVIOUS

LEMMA GrewKept ==
  ASSUME NEW new, NEW es, NEW subs, NEW e, NEW k, Grew(new, es, subs, e, k)
  PROVE  Kept(new, es)
<1>1. IsList(new) /\ IsList(es) /\ IsList(subs) /\ Len(new) >= Len(es) + Len(subs)  BY DEF Grew
<1>2. Len(new) \in Nat /\ Len(es) \in Nat /\ Len(subs) \in Nat  BY <1>1, ListFacts
<1>3. Len(new) >= Len(es)  BY <1>1, <1>2
<1>4. ASSUME NEW j \in 1..Len(es)
      PROVE  new[j].name = es[j].name /\ (es[j].name = "" => new[j].lit = es[j].lit)
  <2>1. CASE j = k
    <3>1. es[k].name = e.name /\ e.name # "" /\ new[k] = e  BY <2>1 DEF Grew
    <3> QED  BY <2>1, <3>1
  <2>2. CASE j # k
    <3>1. new[j] = es[j]  BY <2>2 DEF Grew
    <3> QED  BY <3>1
  <2> QED  BY <2>1, <2>2
<1> QED  BY <1>1, <1>3, <1>4 DEF Kept

\* Another name keeps its sequence, ...
LEMMA GrewOther ==
  ASSUME NEW new, NEW es, NEW subs, NEW e, NEW k, Grew(new, es, subs, e, k), Unnamed(subs),
         NEW n, n # "" /\ n # e.name, NEW at, NEW m, NamedOK(n, at, m, es)
  PROVE  NamedOK(n, at, m, new)
<1>1. \A i \in 1..Len(new) : i \notin 1..Len(es) => new[i].name # n
  <2> TAKE i \in 1..Len(new)
  <2>1. CASE i = k  BY <2>1 DEF Grew
  <2>2. ASSUME NEW j \in 1..Len(subs), i = Len(es) + j PROVE new[i].name # n
    <3>1. new[i] = subs[j]  BY <2>2 DEF Grew
    <3> QED  BY <3>1 DEF Unnamed
  <2> QED  BY <2>1, <2>2 DEF Grew
<1>2. \A i \in 1..Len(es) : i \in 1..Len(new) /\ new[i].name = es[i].name
  <2>1. Kept(new, es)  BY GrewKept
  <2>2. Len(new) \in Nat /\ Len(es) \in Nat /\ Len(new) >= Len(es)  BY <2>1, ListFacts DEF Kept
  <2>3. \A i \in 1..Len(es) : i \in 1..Len(new)  BY <2>2, Places
  <2> QED  BY <2>1, <2>3 DEF Kept
<1>3. CASE at = 0
  <2>1. m = {} /\ \A i \in 1..Len(es) : es[i].name # n  BY <1>3 DEF NamedOK
  <2>2. \A i \in 1..Len(new) : new[i].name # n  BY <1>1, <1>2, <2>1
  <2> QED  BY <1>3, <2>1, <2>2 DEF NamedOK
<1>4. CASE at # 0
  <2>1. at \in 1..Len(es) /\ m = {es[at].lit} /\ \A i \in 1..Len(es) : es[i].name = n <=> i = at
    BY <1>4 DEF NamedOK
  <2>2. es[at].name = n  BY <2>1
  <2>3. at # k /\ new[at] = es[at]
    <3>1. at = k => es[at].name = e.name  BY <2>1 DEF Grew
    <3>2. at # k  BY <2>2, <3>1
    <3> QED  BY <2>1, <3>2 DEF Grew
  <2>4. \A i \in 1..Len(new) : new[i].name = n <=> i = at  BY <1>1, <1>2, <2>1
  <2> QED  BY <1>2, <1>4, <2>1, <2>3, <2>4 DEF NamedOK
<1> QED  BY <1>3, <1>4

\* ... and the new one has its own.
LEMMA GrewName ==
  ASSUME NEW new, NEW es, NEW subs, NEW e, NEW k, Grew(new, es, subs, e, k), Unnamed(subs),
         e.name # "", \A i \in 1..Len(es) : es[i].name = e.name => i = k
  PROVE  NamedOK(e.name, k, {e.lit}, new)
<1>1. k \in 1..Len(new) /\ new[k] = e  BY DEF Grew
<1>2. ASSUME NEW i \in 1..Len(new), i # k PROVE new[i].name # e.name
  <2>1. CASE i \in 1..Len(es)
    <3>1. new[i] = es[i]  BY <1>2, <2>1 DEF Grew
    <3> QED  BY <1>2, <2>1, <3>1
  <2>2. ASSUME NEW j \in 1..Len(subs), i = Len(es) + j PROVE new[i].name # e.name
    <3>1. new[i] = subs[j]  BY <2>2 DEF Grew
    <3> QED  BY <3>1 DEF Unnamed
  <2> QED  BY <1>2, <2>1, <2>2 DEF Grew
<1>3. k # 0
  <2>1. IsList(new)  BY DEF Grew
  <2>2. Len(new) \in Nat  BY <2>1, ListFacts
  <2> QED  BY <1>1, <2>2, Places
<1> QED  BY <1>1, <1>2, <1>3 DEF NamedOK

\* what RegKeySeq registers of a sequence
Makes(subs, e, name, lit, b) ==
  LET f == Flat(lit, 0)
  IN  /\ subs = [i \in DOMAIN f.regs |-> Remap(f.regs[i], b)]
      /\ e = Remap(Entry(name, lit, f.acts), b)

LEMMA MadeStands ==
  ASSUME NEW lit \in KeySeqs, NEW b \in Nat, NEW subs, NEW e, NEW name, Makes(subs, e, name, lit, b),
         NEW f, f = Flat(lit, 0)
  PROVE  /\ IsList(f.regs) /\ IsList(subs) /\ Len(subs) = Len(f.regs) /\ Unnamed(subs)
         /\ e.name = name /\ e.lit = lit /\ Stands(e, f.regs, b)
         /\ \A j \in 1..Len(subs) : /\ subs[j].name = f.regs[j].name /\ subs[j].lit = f.regs[j].lit
                                    /\ Stands(subs[j], f.regs, b)
<1> DEFINE M == Len(f.regs)
           own == Entry(name, lit, f.acts)
<1>1. Flattened(f, lit, Len(lit), 0)
  <2>1. Len(lit) \in Nat  BY KeySeqFacts
  <2>2. Len(lit) \in 0..Len(lit)  BY <2>1
  <2> QED  BY <2>2, PiecesFlatten DEF Flat
<1>2. IsList(f.regs) /\ M \in Nat /\ DOMAIN f.regs = 1..M /\ IsList(f.acts)
  BY <1>1, ListFacts DEF Flattened, Lists
<1>3. subs = [i \in 1..M |-> Remap(f.regs[i], b)] /\ e = Remap(own, b)  BY <1>2 DEF Makes
<1>4. DOMAIN subs = 1..M /\ \A i \in 1..M : subs[i] = Remap(f.regs[i], b)  BY <1>3
<1>5. subs = [i \in 1..M |-> subs[i]]  BY <1>3, <1>4
<1>6. IsList(subs) /\ Len(subs) = M  BY <1>2, <1>4, <1>5, ListFrom
<1>7. Stands(own, f.regs, 0) /\ own.name = name /\ own.lit = lit
  <2>1. own.name = name /\ own.lit = lit /\ own.acts = f.acts  BY EntryFields
  <2>2. Len(f.acts) = Len(lit) /\ \A j \in 1..Len(lit) : Found(f.acts[j], lit[j], f.regs, 0)
    BY <1>1 DEF Flattened
  <2> HIDE DEF own
  <2>3. own = Entry(own.name, own.lit, own.acts)  BY <2>1 DEF own
  <2> QED  BY <1>2, <2>1, <2>2, <2>3 DEF Stands
<1> HIDE DEF own
<1>8. e.name = name /\ e.lit = lit /\ Stands(e, f.regs, b)  BY <1>2, <1>3, <1>7, RemapStands
<1>9. ASSUME NEW j \in 1..M
      PROVE  /\ subs[j].name = f.regs[j].name /\ subs[j].lit = f.regs[j].lit
             /\ Stands(subs[j], f.regs, b) /\ subs[j].name = ""
  <2>1. Stands(f.regs[j], f.regs, 0) /\ f.regs[j].name = ""  BY <1>1 DEF Flattened, AllStand
  <2>2. subs[j] = Remap(f.regs[j], b)  BY <1>4
  <2> DEFINE x == f.regs[j]
  <2>3. Stands(x, f.regs, 0) /\ IsList(f.regs)  BY <1>2, <2>1
  <2> HIDE DEF x
  <2>4. /\ Stands(Remap(x, b), f.regs, b)
        /\ Remap(x, b).name = x.name /\ Remap(x, b).lit = x.lit
    BY <2>3, RemapStands
  <2> QED  BY <2>1, <2>2, <2>4 DEF x
<1> QED  BY <1>2, <1>6, <1>8, <1>9 DEF Unnamed

LEMMA GrewResolves ==
  ASSUME NEW lit \in KeySeqs, NEW new, NEW es, NEW subs, NEW e, NEW k, NEW name,
         Makes(subs, e, name, lit, Len(es)), Grew(new, es, subs, e, k), AllResolve(es)
  PROVE  AllResolve(new)
<1> DEFINE f == Flat(lit, 0)
           g == f.regs
           b == Len(es)
<1>0. IsList(new) /\ IsList(es) /\ Len(new) >= b + Len(subs)  BY DEF Grew
<1>1. b \in Nat  BY <1>0, ListFacts
<1>2. /\ IsList(g) /\ Len(subs) = Len(g) /\ Stands(e, g, b)
      /\ \A j \in 1..Len(subs) : /\ subs[j].name = g[j].name /\ subs[j].lit = g[j].lit
                                 /\ Stands(subs[j], g, b)
  <2> HIDE DEF f, b
  <2> QED  BY <1>1, MadeStands DEF b, f
<1>3. \A j \in 1..Len(subs) : new[b + j] = subs[j]  BY DEF Grew
<1> HIDE DEF f, g
<1>4. Stored(new, b, g)
  <2>1. Len(new) >= b + Len(g)  BY <1>0, <1>2
  <2>2. \A j \in 1..Len(g) : new[b + j].name = g[j].name /\ new[b + j].lit = g[j].lit
    BY <1>2, <1>3
  <2> HIDE DEF b
  <2> QED  BY <1>0, <1>2, <2>1, <2>2 DEF Stored
<1> HIDE DEF b
<1>5. ASSUME NEW x, Stands(x, g, b) PROVE Resolves(x, new)
  BY <1>1, <1>4, <1>5, StandsResolves
<1>6. ASSUME NEW i \in 1..Len(new) PROVE Resolves(new[i], new)
  <2>1. CASE i = k
    <3>1. new[i] = e  BY <2>1 DEF Grew
    <3> QED  BY <1>2, <1>5, <3>1
  <2>2. CASE i \in 1..Len(es) /\ i # k
    <3>1. new[i] = es[i]  BY <2>2 DEF Grew
    <3>2. Resolves(es[i], es)  BY <2>2 DEF AllResolve
    <3> QED  BY <3>1, <3>2, GrewKept, KeptResolves
  <2>3. ASSUME NEW j \in 1..Len(subs), i = Len(es) + j PROVE Resolves(new[i], new)
    <3>1. new[i] = subs[j]  BY <2>3 DEF Grew
    <3> QED  BY <1>2, <1>5, <3>1
  <2> QED  BY <2>1, <2>2, <2>3 DEF Grew
<1> QED  BY <1>0, <1>6 DEF AllResolve

LEMMA BeforeFirst ==
  ASSUME NEW n \in Nat, NEW k \in 1..n
  PROVE  k - 1 \in 0..n - 1 /\ (k - 1) + 1 = k /\ k # 0
OBVIOUS

LEMMA HeldMore ==
  ASSUME NEW es, NEW new, Kept(new, es), NEW hs, HeldOK(hs, es), NEW h, LeadsTo(h, h.idx, new)
  PROVE  HeldOK(Append(hs, h), new)
<1> DEFINE more == Append(hs, h)
           N == Len(hs)
<1>1. IsList(hs) /\ \A i \in 1..N : LeadsTo(hs[i], hs[i].idx, es)  BY DEF HeldOK
<1>2. /\ IsList(more) /\ N \in Nat /\ Len(more) = N + 1
      /\ \A i \in 1..N : more[i] = hs[i]
      /\ more[N + 1] = h
  BY <1>1, AppendedTo
<1> HIDE DEF more
<1>3. \A i \in 1..N : LeadsTo(hs[i], hs[i].idx, new)  BY <1>1, KeptLeads
<1>4. ASSUME NEW i \in 1..Len(more) PROVE LeadsTo(more[i], more[i].idx, new)
  <2>1. i \in 1..N \/ i = N + 1  BY <1>2
  <2> QED  BY <1>2, <1>3, <2>1
<1> QED  BY <1>2, <1>4 DEF HeldOK, more

LEMMA QueueMore ==
  ASSUME NEW es, NEW q, QueueOK(q, es), NEW e, QueuedOK(e, es)
  PROVE  QueueOK(Append(q, e), es)
<1> DEFINE more == Append(q, e)
           N == Len(q)
<1>1. IsList(q) /\ \A i \in 1..N : QueuedOK(q[i], es)  BY DEF QueueOK
<1>2. /\ IsList(more) /\ N \in Nat /\ Len(more) = N + 1
      /\ \A i \in 1..N : more[i] = q[i]
      /\ more[N + 1] = e
  BY <1>1, AppendedTo
<1> HIDE DEF more
<1>4. ASSUME NEW i \in 1..Len(more) PROVE QueuedOK(more[i], es)
  <2>1. i \in 1..N \/ i = N + 1  BY <1>2
  <2> QED  BY <1>1, <1>2, <2>1
<1> QED  BY <1>2, <1>4 DEF QueueOK, more

LEMMA QueueKept ==
  ASSUME NEW es, NEW new, Kept(new, es), NEW q, QueueOK(q, es)
  PROVE  QueueOK(q, new)
BY KeptLeads DEF QueueOK, QueuedOK

\* A registration, by what it does to entries and names.
Registers(name, lit, new, ks, m, hs) ==
  LET f == Flat(lit, 0)
      base == Len(entries)
      subs == [i \in DOMAIN f.regs |-> Remap(f.regs[i], base)]
      entry == Remap(Entry(name, lit, f.acts), base)
      known == name # "" /\ byName[name] # 0
      idx == IF known THEN byName[name] - 1 ELSE base + Len(subs)
  IN  /\ new = IF known THEN [entries \o subs EXCEPT ![idx + 1] = entry]
               ELSE entries \o subs \o <<entry>>
      /\ IF name = "" THEN ks = byName /\ m = meant
         ELSE ks = [byName EXCEPT ![name] = idx + 1] /\ m = [meant EXCEPT ![name] = {lit}]
      /\ hs = Append(held, [idx |-> idx, name |-> name, lit |-> lit])

Sayable(name, lit) == name \in Names \union {""} /\ lit \in KeySeqs

LEMMA RegistersOK ==
  ASSUME LoadingOK, NEW name, NEW lit, Sayable(name, lit), NEW new, NEW ks, NEW m, NEW hs,
         Registers(name, lit, new, ks, m, hs)
  PROVE  /\ AllResolve(new) /\ NamesOK(ks, m, new) /\ HeldOK(hs, new) /\ QueueOK(queue, new)
<1> DEFINE f == Flat(lit, 0)
           base == Len(entries)
           subs == [i \in DOMAIN f.regs |-> Remap(f.regs[i], base)]
           e == Remap(Entry(name, lit, f.acts), base)
           known == name # "" /\ byName[name] # 0
           idx == IF known THEN byName[name] - 1 ELSE base + Len(subs)
           h == [idx |-> idx, name |-> name, lit |-> lit]
<1>1. /\ AllResolve(entries) /\ NamesOK(byName, meant, entries) /\ HeldOK(held, entries)
      /\ QueueOK(queue, entries)
  BY DEF LoadingOK
<1>2. IsList(entries) /\ base \in Nat  BY <1>1, ListFacts DEF AllResolve
<1>3. /\ new = IF known THEN [entries \o subs EXCEPT ![idx + 1] = e]
               ELSE entries \o subs \o <<e>>
      /\ IF name = "" THEN ks = byName /\ m = meant
         ELSE ks = [byName EXCEPT ![name] = idx + 1] /\ m = [meant EXCEPT ![name] = {lit}]
      /\ hs = Append(held, h)
  BY DEF Registers
<1>4. Makes(subs, e, name, lit, base)  BY DEF Makes
<1>5. lit \in KeySeqs /\ name \in Names \union {""}  BY DEF Sayable
<1> HIDE DEF subs, e, f
<1>6. IsList(subs) /\ Unnamed(subs) /\ e.name = name /\ e.lit = lit
  <2>1. base \in Nat /\ lit \in KeySeqs  BY <1>2, <1>5
  <2> HIDE DEF base
  <2> DEFINE g == Flat(lit, 0)
  <2>2. g = Flat(lit, 0)  OBVIOUS
  <2> HIDE DEF g
  <2> QED  BY <1>4, <2>1, <2>2, MadeStands
<1>7. Len(subs) \in Nat  BY <1>6, ListFacts
<1>8. ASSUME NEW n \in Names PROVE NamedOK(n, byName[n], meant[n], entries) /\ n # ""
  BY <1>1, SymbolsAssumption DEF NamesOK
<1>9. \E k : /\ k = idx + 1 /\ idx \in 0..Len(new) - 1
             /\ Grew(new, entries, subs, e, k)
             /\ \A i \in 1..base : name # "" /\ entries[i].name = name => i = k
  <2>1. CASE known
    <3> DEFINE k == byName[name]
    <3>1. name \in Names /\ k # 0 /\ name # ""  BY <1>5, <2>1
    <3>2. NamedOK(name, k, meant[name], entries)  BY <1>8, <3>1
    <3>3. k \in 1..base /\ \A i \in 1..base : entries[i].name = name <=> i = k
      BY <3>1, <3>2 DEF NamedOK
    <3>4. idx = k - 1  BY <2>1
    <3>5. idx + 1 = k
      <4> HIDE DEF k, base, idx
      <4> QED  BY <1>2, <3>3, <3>4, BeforeFirst
    <3>6. new = [entries \o subs EXCEPT ![k] = e]  BY <1>3, <2>1, <3>5
    <3>7. Replaces(e, entries, k)  BY <1>6, <3>1, <3>3 DEF Replaces
    <3> HIDE DEF k, idx, base
    <3>8. Grew(new, entries, subs, e, k)  BY <1>2, <1>6, <3>6, <3>7, GrewAt
    <3>9. k \in 1..Len(new) /\ Len(new) \in Nat
      <4>1. k \in 1..Len(new) /\ IsList(new)  BY <3>8 DEF Grew
      <4> QED  BY <4>1, ListFacts
    <3>10. idx \in 0..Len(new) - 1  BY <3>4, <3>9, BeforeFirst
    <3>11. \A i \in 1..base : name # "" /\ entries[i].name = name => i = k  BY <3>3
    <3> QED  BY <3>5, <3>8, <3>10, <3>11
  <2>2. CASE ~known
    <3>1. new = entries \o subs \o <<e>>  BY <1>3, <2>2
    <3>2. Grew(new, entries, subs, e, base + Len(subs) + 1)  BY <1>2, <1>6, <3>1, GrewBehind
    <3>3. idx = base + Len(subs)  BY <2>2
    <3>4. \A i \in 1..base : ~(name # "" /\ entries[i].name = name)
      <4> SUFFICES ASSUME name # "" PROVE \A i \in 1..base : entries[i].name # name
        OBVIOUS
      <4>1. name \in Names /\ byName[name] = 0  BY <1>5, <2>2
      <4>2. NamedOK(name, byName[name], meant[name], entries)  BY <1>8, <4>1
      <4> QED  BY <4>1, <4>2 DEF NamedOK
    <3> HIDE DEF base, idx
    <3>5. Grew(new, entries, subs, e, idx + 1)  BY <3>2, <3>3
    <3>6. idx + 1 \in 1..Len(new) /\ Len(new) \in Nat
      <4>1. idx + 1 \in 1..Len(new) /\ IsList(new)  BY <3>5 DEF Grew
      <4> QED  BY <4>1, ListFacts
    <3>7. idx \in Nat  BY <1>2, <1>7, <3>3
    <3>8. idx \in 0..Len(new) - 1
      <4>1. (idx + 1) - 1 = idx  BY <3>7, OneOff
      <4>2. (idx + 1) - 1 \in 0..Len(new) - 1  BY <3>6, BeforeFirst
      <4> QED  BY <4>1, <4>2
    <3> QED  BY <3>4, <3>5, <3>8
  <2> QED  BY <2>1, <2>2
<1> HIDE DEF known, idx
<1>10. PICK k : /\ k = idx + 1 /\ idx \in 0..Len(new) - 1
                /\ Grew(new, entries, subs, e, k)
                /\ \A i \in 1..base : name # "" /\ entries[i].name = name => i = k
  BY <1>9
<1>11. AllResolve(new)  BY <1>1, <1>4, <1>5, <1>10, GrewResolves
<1>12. Kept(new, entries)  BY <1>10, GrewKept
<1>13. QueueOK(queue, new)  BY <1>1, <1>12, QueueKept
<1>14. HeldOK(hs, new)
  <2>1. h.idx = idx /\ h.name = name /\ h.lit = lit  OBVIOUS
  <2>2. new[idx + 1] = e  BY <1>10 DEF Grew
  <2> HIDE DEF h
  <2>3. LeadsTo(h, h.idx, new)  BY <1>6, <1>10, <2>1, <2>2 DEF LeadsTo
  <2> QED  BY <1>1, <1>3, <1>12, <2>3, HeldMore
<1>15. NamesOK(ks, m, new)
  <2>1. byName = [x \in Names |-> byName[x]] /\ meant = [x \in Names |-> meant[x]]
    BY <1>1 DEF NamesOK
  <2>2. CASE name = ""
    <3>1. ks = byName /\ m = meant  BY <1>3, <2>2
    <3>2. ASSUME NEW n \in Names PROVE NamedOK(n, ks[n], m[n], new)
      <4>1. n # "" /\ n # e.name /\ NamedOK(n, byName[n], meant[n], entries)
        BY <1>6, <1>8, <2>2
      <4> QED  BY <1>6, <1>10, <3>1, <4>1, GrewOther
    <3> QED  BY <2>1, <3>1, <3>2 DEF NamesOK
  <2>3. CASE name # ""
    <3>1. ks = [byName EXCEPT ![name] = k] /\ m = [meant EXCEPT ![name] = {lit}]
      BY <1>3, <1>10, <2>3
    <3>2. name \in Names  BY <1>5, <2>3
    <3>3. ks = [x \in Names |-> IF x = name THEN k ELSE byName[x]]
          /\ m = [x \in Names |-> IF x = name THEN {lit} ELSE meant[x]]
      BY <2>1, <3>1, <3>2
    <3>4. \A x \in Names : /\ ks[x] = IF x = name THEN k ELSE byName[x]
                           /\ m[x] = IF x = name THEN {lit} ELSE meant[x]
      BY <3>3
    <3>5. ks = [x \in Names |-> ks[x]] /\ m = [x \in Names |-> m[x]]  BY <3>3, <3>4
    <3>6. ASSUME NEW n \in Names PROVE NamedOK(n, ks[n], m[n], new)
      <4>1. CASE n = name
        <5>1. NamedOK(e.name, k, {e.lit}, new)  BY <1>6, <1>10, <2>3, GrewName
        <5> QED  BY <1>6, <3>4, <4>1, <5>1
      <4>2. CASE n # name
        <5>1. n # "" /\ n # e.name /\ NamedOK(n, byName[n], meant[n], entries)
          BY <1>6, <1>8, <4>2
        <5>2. NamedOK(n, byName[n], meant[n], new)  BY <1>6, <1>10, <5>1, GrewOther
        <5> QED  BY <3>4, <4>2, <5>2
      <4> QED  BY <4>1, <4>2
    <3> QED  BY <3>5, <3>6 DEF NamesOK
  <2> QED  BY <2>2, <2>3
<1> QED  BY <1>11, <1>13, <1>14, <1>15

-----------------------------------------------------------------------------
IndexInv == FilesOK /\ (loading => LoadingOK) /\ IndexesResolve

LEMMA NothingOK ==
  AllResolve(<<>>) /\ NamesOK(NoIndex, Nothing, <<>>) /\ HeldOK(<<>>, <<>>) /\ QueueOK(<<>>, <<>>)
<1>1. \A n \in Names : NoIndex[n] = 0 /\ Nothing[n] = {}  BY DEF NoIndex, Nothing
<1>2. IsList(<<>>) /\ 1..Len(<<>>) = {}  BY EmptyList
<1>3. NoIndex = [n \in Names |-> NoIndex[n]] /\ Nothing = [n \in Names |-> Nothing[n]]
  BY DEF NoIndex, Nothing
<1> QED  BY <1>1, <1>2, <1>3 DEF AllResolve, NamesOK, NamedOK, HeldOK, QueueOK

LEMMA IndexInit == ScriptInit => IndexInv
<1> SUFFICES ASSUME ScriptInit PROVE IndexInv  OBVIOUS
<1>1. PICK t \in SubTexts : files = [main |-> <<>>, sub |-> t]  BY DEF ScriptInit
<1>2. <<>> \in Texts
  <2>1. <<>> \in [1..0 -> Lines]  OBVIOUS
  <2>2. 0 \in 0..MaxLines  BY ScriptBoundsAssumption
  <2> QED  BY <2>1, <2>2 DEF Texts
<1>3. FilesOK  BY <1>1, <1>2 DEF FilesOK
<1> QED  BY <1>3 DEF IndexInv, ScriptInit, IndexesResolve, Flushed

\* The steps that leave alone what IndexesResolve is about.
LEMMA StreamSame ==
  ASSUME IndexesResolve, UNCHANGED <<loading, stream, meant>>
  PROVE  IndexesResolve'
BY DEF IndexesResolve, Flushed

LEMMA LoadingSame ==
  ASSUME LoadingOK, UNCHANGED <<symbols, entries, byName, meant, held, queue>>
  PROVE  LoadingOK'
BY DEF LoadingOK

LEMMA EditFiles ==
  ASSUME FilesOK, NEW l \in Lines, EditLine(l)
  PROVE  FilesOK'
<1> DEFINE t == files.main
           u == Append(t, l)
<1>1. t \in Texts /\ files.sub \in SubTexts /\ files = [main |-> t, sub |-> files.sub]
      /\ Len(t) < MaxLines /\ files' = [files EXCEPT !.main = u]
  BY DEF FilesOK, EditLine
<1>2. PICK n \in 0..MaxLines : t \in [1..n -> Lines]  BY <1>1 DEF Texts
<1>3. MaxLines \in Nat /\ n \in Nat  BY ScriptBoundsAssumption
<1> HIDE DEF t
<1>4. t \in Seq(Lines) /\ Len(t) = n
  <2>1. DOMAIN t = 1..n  BY <1>2
  <2>2. t \in Seq(Lines)  BY <1>2, <1>3, SeqDef
  <2> QED  BY <1>3, <2>1, <2>2
<1>5. u \in Seq(Lines) /\ Len(u) = n + 1  BY <1>4
<1> HIDE DEF u
<1>6. u \in [1..(n + 1) -> Lines]  BY <1>3, <1>5
<1>7. n + 1 \in 0..MaxLines
  <2>1. n < MaxLines  BY <1>1, <1>4
  <2> QED  BY <1>3, <2>1
<1>8. u \in Texts  BY <1>6, <1>7 DEF Texts
<1>9. files' = [main |-> u, sub |-> files.sub]  BY <1>1
<1> QED  BY <1>1, <1>8, <1>9 DEF FilesOK

LEMMA IndexNext == IndexInv /\ [ScriptNext]_scriptVars => IndexInv'
<1> SUFFICES ASSUME IndexInv, [ScriptNext]_scriptVars PROVE IndexInv'  OBVIOUS
<1>0. FilesOK /\ (loading => LoadingOK) /\ IndexesResolve  BY DEF IndexInv
<1>a. ASSUME UNCHANGED files PROVE FilesOK'  BY <1>0, <1>a DEF FilesOK
<1>b. ASSUME ResetQueue, Defaults \subseteq symbols' /\ symbols' \subseteq Symbols
      PROVE  LoadingOK'
  <2>1. entries' = <<>> /\ byName' = NoIndex /\ meant' = Nothing /\ held' = <<>> /\ queue' = <<>>
    BY <1>b DEF ResetQueue
  <2> QED  BY <1>b, <2>1, NothingOK DEF LoadingOK
<1>1. ASSUME NEW l \in Lines, EditLine(l) PROVE IndexInv'
  <2>1. FilesOK'  BY <1>0, <1>1, EditFiles
  <2>2. IndexesResolve'  BY <1>0, <1>1, StreamSame DEF EditLine
  <2>3. (loading => LoadingOK)'  BY <1>0, <1>1, LoadingSame DEF EditLine
  <2> QED  BY <2>1, <2>2, <2>3 DEF IndexInv
<1>2. ASSUME NEW s \in StartSymbols, StartScript(s) PROVE IndexInv'
  <2>1. Defaults \subseteq symbols' /\ symbols' \subseteq Symbols
    BY <1>2, SymbolsAssumption DEF StartScript
  <2>2. LoadingOK'  BY <1>2, <1>b, <2>1 DEF StartScript
  <2> QED  BY <1>2, <1>a, <2>2 DEF IndexInv, StartScript, IndexesResolve, Flushed
<1>3. ASSUME NEW s \in ScriptSymbols, DefineSymbol(s) PROVE IndexInv'
  <2>1. LoadingOK  BY <1>0, <1>3 DEF DefineSymbol, Call
  <2>2. LoadingOK'  BY <1>3, <2>1, SymbolsAssumption DEF DefineSymbol, LoadingOK
  <2> QED  BY <1>0, <1>3, <1>a, <2>2, StreamSame DEF IndexInv, DefineSymbol
<1>4. ASSUME NEW n \in Names \union {""}, NEW l \in Literals, RegKeySeq(n, l) PROVE IndexInv'
  <2>1. loading /\ LoadingOK  BY <1>0, <1>4 DEF RegKeySeq, Call
  <2>2. Sayable(n, l)  BY KeySeqsAssumption DEF Sayable
  <2>3. Registers(n, l, entries', byName', meant', held')
    BY <1>4 DEF RegKeySeq, Registers
  <2>4. AllResolve(entries') /\ NamesOK(byName', meant', entries') /\ HeldOK(held', entries')
        /\ QueueOK(queue, entries')
    BY <2>1, <2>2, <2>3, RegistersOK
  <2>5. UNCHANGED <<queue, symbols, files, loading>>  BY <1>4 DEF RegKeySeq
  <2>6. LoadingOK'  BY <2>1, <2>4, <2>5 DEF LoadingOK
  <2>7. loading'  BY <2>1, <2>5
  <2> QED  BY <1>a, <2>5, <2>6, <2>7 DEF IndexInv, IndexesResolve, Flushed
<1>5. ASSUME NEW k \in Keys, NEW h \in ToSet(held), AssignKey(k, h) PROVE IndexInv'
  <2>1. loading /\ LoadingOK  BY <1>0, <1>5 DEF AssignKey, Call
  <2> DEFINE c == Assign(k, h)
             e == [t |-> "direct", cmd |-> c]
  <2>2. LeadsTo(h, h.idx, entries)
    <3>1. HeldOK(held, entries)  BY <2>1 DEF LoadingOK
    <3>2. DOMAIN held = 1..Len(held)  BY <3>1, ListFacts DEF HeldOK
    <3>3. PICK i \in DOMAIN held : h = held[i]  BY DEF ToSet
    <3> QED  BY <3>1, <3>2, <3>3 DEF HeldOK
  <2>3. c.c = "AssignKey" /\ c.rhs = h.idx /\ c.name = h.name /\ c.lit = h.lit
    BY DEF Assign
  <2>4. queue' = Append(queue, e)  BY <1>5 DEF AssignKey
  <2>5. e.t = "direct" /\ e.cmd = c  OBVIOUS
  <2> HIDE DEF c, e
  <2>6. QueuedOK(e, entries)  BY <2>2, <2>3, <2>5 DEF QueuedOK, LeadsTo, IsReg
  <2>7. QueueOK(queue', entries)  BY <2>1, <2>4, <2>6, QueueMore DEF LoadingOK
  <2>8. LoadingOK'  BY <1>5, <2>1, <2>7 DEF LoadingOK, AssignKey
  <2> QED  BY <1>0, <1>5, <1>a, <2>8, StreamSame DEF IndexInv, AssignKey
<1>6. ASSUME NEW f \in FileNames, IncludeMayu(f) PROVE IndexInv'
  <2>1. loading /\ LoadingOK  BY <1>0, <1>6 DEF IncludeMayu, Call
  <2> DEFINE e == [t |-> "include", file |-> f]
  <2>2. queue' = Append(queue, e)  BY <1>6 DEF IncludeMayu
  <2>3. QueuedOK(e, entries)  BY DEF QueuedOK
  <2> HIDE DEF e
  <2>4. QueueOK(queue', entries)  BY <2>1, <2>2, <2>3, QueueMore DEF LoadingOK
  <2>5. LoadingOK'  BY <1>6, <2>1, <2>4 DEF LoadingOK, IncludeMayu
  <2> QED  BY <1>0, <1>6, <1>a, <2>5, StreamSame DEF IndexInv, IncludeMayu
<1>7. ASSUME ResetSetting PROVE IndexInv'
  <2>1. loading /\ LoadingOK  BY <1>0, <1>7 DEF ResetSetting, Call
  <2>2. Defaults \subseteq symbols' /\ symbols' \subseteq Symbols
    BY <1>7, <2>1 DEF ResetSetting, LoadingOK
  <2>3. LoadingOK'  BY <1>7, <1>b, <2>2 DEF ResetSetting
  <2>4. loading'  BY <1>7, <2>1 DEF ResetSetting
  <2> QED  BY <1>7, <1>a, <2>3, <2>4 DEF IndexInv, ResetSetting, IndexesResolve, Flushed
<1>8. ASSUME ReturnTrue PROVE IndexInv'
  <2>1. loading /\ ~loading' /\ UNCHANGED files  BY <1>8 DEF ReturnTrue
  <2>2. IndexesResolve'  BY <1>0, <1>8, <2>1, ReturnResolves
  <2> QED  BY <1>a, <2>1, <2>2 DEF IndexInv
<1>9. ASSUME ReturnFalse PROVE IndexInv'
  BY <1>9, <1>a DEF ReturnFalse, IndexInv, IndexesResolve, Flushed
<1>10. CASE UNCHANGED scriptVars
  <2>1. IndexesResolve'  BY <1>0, <1>10, StreamSame DEF scriptVars
  <2>2. (loading => LoadingOK)'  BY <1>0, <1>10, LoadingSame DEF scriptVars
  <2> QED  BY <1>10, <1>a, <2>1, <2>2 DEF IndexInv, scriptVars
<1> QED  BY <1>1, <1>2, <1>3, <1>4, <1>5, <1>6, <1>7, <1>8, <1>9, <1>10 DEF ScriptNext

(***************************************************************************)
(* IndexesResolve.                                                         *)
(***************************************************************************)
THEOREM IndexesAreRight == ScriptSpec => []IndexesResolve
<1>1. ScriptInit => IndexInv  BY IndexInit
<1>2. IndexInv /\ [ScriptNext]_scriptVars => IndexInv'  BY IndexNext
<1>3. IndexInv => IndexesResolve  BY DEF IndexInv
<1> QED  BY <1>1, <1>2, <1>3, PTL DEF ScriptSpec
=============================================================================
