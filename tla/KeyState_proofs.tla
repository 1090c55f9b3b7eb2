--------------------------- MODULE KeyState_proofs ---------------------------
(* Proofs about the key accounting, for every keyboard, every set of Settings *)
(* and every bound.                                                           *)
EXTENDS KeyState, FiniteSetTheorems, TLAPS

KeyEvents == {KeyEvent(k, press) : k \in Key, press \in BOOLEAN}

\* The key in hand is a key event until it is looked up, and a key sequence is
\* always run after that.
InHand ==
  /\ (pc = "lookup" \/ (pc \in {"modifiers", "rest"} /\ after = "lookup"))
       => event \in KeyEvents
  /\ pc = "generate" => after = "boundary"

\* The idle reset runs only with no key counted.
Resetting == pc \in {"modifiers", "rest"} => pressCount = 0

\* What is owed is the event of a key of the active Setting, during its sequence.
OwedDefined ==
  /\ pc # "generate" => owed = {}
  /\ \A e \in owed : e \in KeyEvents /\ e.key \in Defined

\* Marks and counters, apart from everything else.
MarksOK ==
  /\ pressed \subseteq Defined
  /\ onWin32 \subseteq Defined
  /\ pressCount \in Nat
  /\ win32Count \in Nat
  /\ CountsCoverMarks
  /\ CountsExact

\* Everything else.
RestOK ==
  /\ setting \in Setting \cup {NoSetting}
  /\ enabled \in BOOLEAN /\ logMode \in BOOLEAN /\ resyncForceRequested \in BOOLEAN
  /\ inputQueue \in Seq(Events)
  /\ away \in BOOLEAN
  /\ physical \subseteq Key
  /\ os \subseteq Key
  /\ pc \in {"boundary", "lookup", "generate", "modifiers", "rest"}
  /\ after \in {"boundary", "lookup"}
  /\ event \in Events \cup {NoEvent}
  /\ owed \subseteq Events
  /\ switches \in Nat
  /\ bypassed \in BOOLEAN /\ overtaken \in BOOLEAN /\ undelivered \in BOOLEAN
  /\ keyLost \in BOOLEAN /\ gained \in BOOLEAN

IInv == MarksOK /\ RestOK /\ IdleHoldsNothing /\ InHand /\ Resetting /\ OwedDefined

-----------------------------------------------------------------------------
(* The keys a Setting defines are finitely many, and so are the marks. *)

LEMMA DefinedFinite ==
  ASSUME RestOK
  PROVE  Defined \subseteq Key /\ \A S \in SUBSET Defined :
            IsFiniteSet(S) /\ Cardinality(S) \in Nat
<1>1. Defined \subseteq Key  BY KeysAssumption DEF Defined, RestOK
<1>2. \A S \in SUBSET Key : IsFiniteSet(S)  BY KeysAssumption, FS_Subset
<1> QED  BY <1>1, <1>2, FS_CardinalityType

\* Setting or clearing one mark moves a count with the number of marks.
LEMMA WithCount ==
  ASSUME NEW S, IsFiniteSet(S), NEW k, NEW press \in BOOLEAN, NEW n \in Int,
         NEW m, m = IF press = (k \in S) THEN n ELSE n + (IF press THEN 1 ELSE -1)
  PROVE  /\ Cardinality(S) \in Nat
         /\ Cardinality(With(S, k, press)) \in Nat
         /\ m - Cardinality(With(S, k, press)) = n - Cardinality(S)
<1>1. Cardinality(S) \in Nat  BY FS_CardinalityType
<1>2. CASE press
  <2>1. With(S, k, press) = S \cup {k}  BY <1>2 DEF With
  <2>2. /\ IsFiniteSet(S \cup {k})
        /\ Cardinality(S \cup {k}) =
             IF k \in S THEN Cardinality(S) ELSE Cardinality(S) + 1
    BY FS_AddElement
  <2>3. m = IF k \in S THEN n ELSE n + 1  BY <1>2
  <2> QED  BY <1>1, <2>1, <2>2, <2>3
<1>3. CASE ~press
  <2>1. With(S, k, press) = S \ {k}  BY <1>3 DEF With
  <2>2. /\ IsFiniteSet(S \ {k})
        /\ Cardinality(S \ {k}) =
             IF k \in S THEN Cardinality(S) - 1 ELSE Cardinality(S)
    BY FS_RemoveElement
  <2>3. Cardinality(S \ {k}) \in Nat  BY <2>2, FS_CardinalityType
  <2>4. m = IF k \in S THEN n - 1 ELSE n  BY <1>3
  <2> QED  BY <1>1, <2>1, <2>2, <2>3, <2>4
<1> QED  BY <1>2, <1>3

\* The marks on Win32 after one call of generateKeyEvent().
LEMMA MarkOK ==
  ASSUME MarksOK, RestOK, NEW k \in Defined, NEW press \in BOOLEAN, Mark(k, press),
         UNCHANGED <<setting, pressed, pressCount, keyLost>>
  PROVE  MarksOK'
<1>1. IsFiniteSet(onWin32)  BY DefinedFinite DEF MarksOK
<1>2. /\ Cardinality(onWin32) \in Nat
      /\ Cardinality(onWin32') \in Nat
      /\ win32Count' - Cardinality(onWin32') = win32Count - Cardinality(onWin32)
  BY <1>1, WithCount DEF Mark, MarksOK
<1>3. win32Count' \in Int  BY DEF Mark, MarksOK
<1>4. onWin32' \subseteq Defined  BY DEF Mark, MarksOK, With
<1>5. Defined' = Defined  BY DEF Defined
<1> QED  BY <1>2, <1>3, <1>4, <1>5 DEF MarksOK, CountsCoverMarks, CountsExact

\* The physical marks after "press the key and update counter".
LEMMA CountPressOK ==
  ASSUME NEW k \in Defined, NEW press \in BOOLEAN, MarksOK, RestOK, CountPress(k, press)
  PROVE  /\ pressed' \subseteq Defined
         /\ pressCount' \in Nat
         /\ pressCount' >= Cardinality(pressed')
         /\ ~keyLost => pressCount' = Cardinality(pressed')
<1>1. IsFiniteSet(pressed)  BY DefinedFinite DEF MarksOK
<1>2. /\ Cardinality(pressed) \in Nat
      /\ Cardinality(pressed') \in Nat
      /\ pressCount' - Cardinality(pressed') = pressCount - Cardinality(pressed)
  BY <1>1, WithCount DEF CountPress, MarksOK
<1>3. pressCount' \in Int  BY DEF CountPress, MarksOK
<1>4. pressed' \subseteq Defined  BY DEF CountPress, MarksOK, With
<1> QED  BY <1>2, <1>3, <1>4 DEF MarksOK, CountsCoverMarks, CountsExact

\* Dropping marks lowers the count by as many.
LEMMA DropCount ==
  ASSUME NEW S, IsFiniteSet(S), NEW D \in SUBSET S
  PROVE  /\ Cardinality(S) \in Nat /\ Cardinality(D) \in Nat
         /\ Cardinality(S \ D) = Cardinality(S) - Cardinality(D)
<1>1. IsFiniteSet(D) /\ IsFiniteSet(S \ D)  BY FS_Subset
<1>2. (S \ D) \cup D = S /\ (S \ D) \cap D = {}  OBVIOUS
<1>3. Cardinality(S) = Cardinality(S \ D) + Cardinality(D) - Cardinality({})
  BY <1>1, <1>2, FS_Union
<1> QED  BY <1>1, <1>3, FS_EmptySet, FS_CardinalityType

\* What a resync leaves behind, wherever it goes next.
LEMMA ResyncOK ==
  ASSUME MarksOK, RestOK, NEW force \in BOOLEAN, NEW next \in {"boundary", "lookup"},
         Resync(force, next), UNCHANGED <<setting, keyLost>>
  PROVE  /\ MarksOK'
         /\ pc' \in {"modifiers", next} /\ after' = next
         /\ pc' = next => (pressCount' = 0 => pressCount = 0)
         /\ pc' = "modifiers" => pressCount' = 0
<1> DEFINE drop == IF pressCount <= 0 /\ ~force THEN {} ELSE Stale(force)
<1>1. drop \subseteq pressed  BY DEF Stale
<1>2. IsFiniteSet(pressed)  BY DefinedFinite DEF MarksOK
<1>3. /\ Cardinality(pressed) \in Nat /\ Cardinality(drop) \in Nat
      /\ Cardinality(pressed \ drop) = Cardinality(pressed) - Cardinality(drop)
  BY <1>1, <1>2, DropCount
<1>4. pressed' = pressed \ drop /\ pressCount' = pressCount - Cardinality(drop)
  BY DEF Resync
<1>5. pc' = (IF drop = {} THEN next ELSE IdleOr(pressCount', next)) /\ after' = next
  BY DEF Resync
<1>6. Cardinality(pressed \ drop) \in Nat  BY <1>2, FS_Subset, FS_CardinalityType
<1>7. MarksOK'
  <2>1. pressCount' \in Nat  BY <1>3, <1>4, <1>6 DEF MarksOK, CountsCoverMarks
  <2>2. Defined' = Defined  BY DEF Defined
  <2>3. UNCHANGED <<onWin32, win32Count>>  BY DEF Resync
  <2> HIDE DEF drop
  <2> QED  BY <1>3, <1>4, <2>1, <2>2, <2>3 DEF MarksOK, CountsCoverMarks, CountsExact
<1>8. pc' = next => (pressCount' = 0 => pressCount = 0)
  <2>1. CASE drop = {}
    <3>1. Cardinality(drop) = 0  BY <2>1, FS_EmptySet
    <3> HIDE DEF drop
    <3> QED  BY <1>4, <3>1 DEF MarksOK
  <2>2. CASE drop # {}  BY <1>5, <1>7, <2>2 DEF IdleOr, MarksOK
  <2> QED  BY <2>1, <2>2
<1> QED  BY <1>5, <1>7, <1>8 DEF IdleOr, MarksOK

\* What is injected is a key.
LEMMA InjectOK ==
  ASSUME RestOK, NEW k \in Key, NEW press, Inject(k, press)
  PROVE  os' \subseteq Key /\ undelivered' \in BOOLEAN
BY DEF Inject, With, RestOK

\* What generateKeyEvent() leaves behind.
LEMMA GenerateOK ==
  ASSUME MarksOK, RestOK, NEW k \in Defined, NEW press \in BOOLEAN,
         GenerateKeyEvent(k, press), UNCHANGED <<setting, pressed, pressCount, keyLost>>
  PROVE  MarksOK' /\ os' \subseteq Key /\ undelivered' \in BOOLEAN
<1>1. MarksOK'  BY MarkOK DEF GenerateKeyEvent
<1>2. k \in Key  BY DefinedFinite
<1>3. os' \subseteq Key /\ undelivered' \in BOOLEAN
  BY <1>2, InjectOK DEF GenerateKeyEvent, RestOK
<1> QED  BY <1>1, <1>3

\* What the engine takes from the queue.
LEMMA TakeOK ==
  ASSUME RestOK, NEW type, Take(type)
  PROVE  /\ inputQueue' \in Seq(Events)
         /\ Head(inputQueue) \in Events
         /\ type = "key" => Head(inputQueue) \in KeyEvents
         /\ type = "setting" => Head(inputQueue).setting \in Setting
<1>1. inputQueue # <<>> /\ inputQueue \in Seq(Events)  BY DEF Take, RestOK
<1>2. Head(inputQueue) \in Events /\ Tail(inputQueue) \in Seq(Events)  BY <1>1
<1> QED  BY <1>2 DEF Take, Events, KeyEvents, KeyEvent, SettingEvent, AdHocEvent

\* The fields of a key event.
LEMMA KeyEventFields ==
  ASSUME NEW e \in KeyEvents
  PROVE  e.key \in Key /\ e.press \in BOOLEAN /\ e \in Events
BY DEF KeyEvents, KeyEvent, Events

-----------------------------------------------------------------------------
LEMMA InitIInv == Init => IInv
<1> SUFFICES ASSUME Init PROVE IInv  OBVIOUS
<1>1. MarksOK
  BY FS_EmptySet DEF Init, MarksOK, CountsCoverMarks, CountsExact
<1>2. RestOK
  <2>1. inputQueue \in Seq(Events)  BY DEF Init
  <2> QED  BY <2>1 DEF Init, RestOK
<1> QED  BY <1>1, <1>2 DEF Init, IInv, IdleHoldsNothing, InHand, Resetting, OwedDefined

\* The hooks, the UI thread and the desktop touch no mark and no counter.
LEMMA OutsideStep ==
  ASSUME IInv,
         \/ \E k \in Key, press \in BOOLEAN : HookQueues(k, press) \/ HookBypassed(k, press)
         \/ Enable \/ EnableLogMode \/ ChangeForeground \/ Unlocked
         \/ \E s \in Setting : ScheduleSetting(s) \/ ScheduleAdHocKeySeq(s)
  PROVE  IInv'
<1>1. UNCHANGED <<setting, marks, thread, keyLost>>
  BY DEF HookQueues, HookBypassed, Enable, EnableLogMode, ChangeForeground, Unlocked,
         ScheduleSetting, ScheduleAdHocKeySeq, mode, world, marks, thread, history
<1>2. MarksOK' /\ IdleHoldsNothing' /\ InHand' /\ Resetting' /\ OwedDefined'
    BY <1>1
    DEF IInv, MarksOK, CountsCoverMarks, CountsExact, IdleHoldsNothing, InHand, Resetting,
              OwedDefined, Defined, marks, thread
<1>3. RestOK'
  <2>1. ASSUME NEW k \in Key, NEW press \in BOOLEAN, HookQueues(k, press)
        PROVE  RestOK'
    <3>1. KeyEvent(k, press) \in Events  BY DEF Events
    <3>2. inputQueue' \in Seq(Events)  BY <2>1, <3>1 DEF HookQueues, Push, IInv, RestOK
    <3> QED  BY <2>1, <3>2 DEF HookQueues, With, mode, thread, history, IInv, RestOK
  <2>2. ASSUME NEW k \in Key, NEW press \in BOOLEAN, HookBypassed(k, press)
        PROVE  RestOK'
    BY <2>2 DEF HookBypassed, With, mode, thread, IInv, RestOK
  <2>3. CASE Enable
    BY <2>3 DEF Enable, Switch, world, thread, history, IInv, RestOK
  <2>7. CASE EnableLogMode
    BY <2>7 DEF EnableLogMode, Switch, world, thread, history, IInv, RestOK
  <2>5. CASE ChangeForeground
    BY <2>5 DEF ChangeForeground, Switch, mode, thread, history, IInv, RestOK
  <2>6. CASE Unlocked
    BY <2>6 DEF Unlocked, Switch, world, thread, history, IInv, RestOK
  <2>4. ASSUME NEW s \in Setting, ScheduleSetting(s) \/ ScheduleAdHocKeySeq(s)
        PROVE  RestOK'
    <3>1. SettingEvent(s) \in Events /\ AdHocEvent(s) \in Events  BY DEF Events
    <3>2. inputQueue' \in Seq(Events)
      BY <2>4, <3>1 DEF ScheduleSetting, ScheduleAdHocKeySeq, Push, IInv, RestOK
    <3> QED  BY <2>4, <3>2 DEF ScheduleSetting, ScheduleAdHocKeySeq, Switch, mode, world,
                               thread, history, IInv, RestOK
  <2> QED  BY <2>1, <2>2, <2>3, <2>4, <2>5, <2>6, <2>7
<1> QED  BY <1>2, <1>3 DEF IInv

\* Settings, ad-hoc sequences, raw events and resyncs.
LEMMA BoundaryStep ==
  ASSUME IInv, ForceResync \/ ApplySetting \/ StartAdHoc \/ HandleRaw \/ StartKey
  PROVE  IInv'
<1>0. MarksOK /\ RestOK /\ IdleHoldsNothing /\ InHand /\ Resetting /\ OwedDefined
  BY DEF IInv
<1>1. CASE ForceResync
  <2>1. CASE setting = NoSetting
    <3> USE <1>0, <1>1, <2>1 DEF ForceResync, marks, world, history
    <3>1. MarksOK'
      <4>1. UNCHANGED <<setting, pressed, onWin32, pressCount, win32Count, keyLost>>
        OBVIOUS
      <4> QED  BY <4>1 DEF MarksOK, CountsCoverMarks, CountsExact, Defined
    <3>2. RestOK'  BY DEF RestOK
    <3>3. IdleHoldsNothing' /\ InHand' /\ Resetting'
      BY DEF IdleHoldsNothing, InHand, Resetting
    <3>4. OwedDefined'  BY DEF OwedDefined, Defined
    <3> QED  BY <3>1, <3>2, <3>3, <3>4 DEF IInv
  <2>2. CASE setting # NoSetting
    <3>1. Resync(TRUE, "boundary")  BY <1>1, <2>2 DEF ForceResync
    <3>2. UNCHANGED <<setting, keyLost>>  BY <1>1 DEF ForceResync, history
    <3>3. /\ MarksOK'
          /\ pc' \in {"modifiers", "boundary"} /\ after' = "boundary"
          /\ pc' = "boundary" => (pressCount' = 0 => pressCount = 0)
          /\ pc' = "modifiers" => pressCount' = 0
      BY <1>0, <3>1, <3>2, ResyncOK
    <3>4. IdleHoldsNothing'
      BY <1>0, <1>1, <3>1, <3>3 DEF ForceResync, Resync, IdleHoldsNothing
    <3>5. RestOK' /\ InHand' /\ Resetting' /\ OwedDefined'
      BY <1>0, <1>1, <3>3, ZenonT(60)
      DEF ForceResync, world, history, RestOK, InHand, Resetting, OwedDefined, Defined
    <3> QED  BY <3>3, <3>4, <3>5 DEF IInv
  <2> QED  BY <2>1, <2>2
<1>2. CASE ApplySetting
  <2>1. setting' \in Setting /\ inputQueue' \in Seq(Events)
    BY <1>0, <1>2, TakeOK DEF ApplySetting
  <2>2. Defined' = KeysOf[setting']  BY <2>1, KeysAssumption DEF Defined
  <2>3. /\ pressed' \subseteq pressed /\ onWin32' \subseteq onWin32
        /\ UNCHANGED <<pressCount, win32Count>>
    BY <1>2 DEF ApplySetting
  <2>4. /\ Cardinality(pressed') <= Cardinality(pressed)
        /\ Cardinality(onWin32') <= Cardinality(onWin32)
        /\ Cardinality(pressed) \in Nat /\ Cardinality(onWin32) \in Nat
        /\ Cardinality(pressed') \in Nat /\ Cardinality(onWin32') \in Nat
    <3>1. IsFiniteSet(pressed) /\ IsFiniteSet(onWin32)
      BY <1>0, DefinedFinite DEF MarksOK
    <3>2. IsFiniteSet(pressed') /\ IsFiniteSet(onWin32')  BY <2>3, <3>1, FS_Subset
    <3> QED  BY <2>3, <3>1, <3>2, FS_Subset, FS_CardinalityType
  <2>5. ~keyLost' => pressed' = pressed /\ onWin32' = onWin32 /\ ~keyLost
    BY <1>0, <1>2 DEF ApplySetting, RestOK
  <2>6. pressed' \subseteq Defined' /\ onWin32' \subseteq Defined'
    BY <1>2, <2>2 DEF ApplySetting
  <2>7. MarksOK'
    BY <1>0, <2>3, <2>4, <2>5, <2>6 DEF MarksOK, CountsCoverMarks, CountsExact
  <2>8. RestOK'
    BY <1>0, <1>2, <2>1 DEF ApplySetting, world, thread, RestOK
  <2>9. IdleHoldsNothing' /\ InHand' /\ Resetting'
    BY <1>0, <1>2, <2>3 DEF ApplySetting, thread, IdleHoldsNothing, InHand, Resetting
  <2>10. OwedDefined'  BY <1>0, <1>2 DEF ApplySetting, Take, thread, OwedDefined
  <2> QED  BY <2>7, <2>8, <2>9, <2>10 DEF IInv
<1>3. CASE StartAdHoc
  <2>1. inputQueue' \in Seq(Events)  BY <1>0, <1>3, TakeOK DEF StartAdHoc
  <2>2. MarksOK' /\ RestOK'
    BY <1>0, <1>3, <2>1 DEF StartAdHoc, mode, world, marks, history, MarksOK, RestOK,
       CountsCoverMarks, CountsExact, Defined
  <2>3. IdleHoldsNothing' /\ InHand' /\ Resetting' /\ OwedDefined'
    BY <1>0, <1>3 DEF StartAdHoc, Take, mode, marks, IdleHoldsNothing, InHand, Resetting,
       OwedDefined, Defined
  <2> QED  BY <2>2, <2>3 DEF IInv
<1>4. CASE HandleRaw
  <2>1. inputQueue' \in Seq(Events) /\ Head(inputQueue) \in KeyEvents
    BY <1>0, <1>4, TakeOK DEF HandleRaw
  <2>2. Head(inputQueue).key \in Key  BY <2>1, KeyEventFields
  <2>3. os' \subseteq Key /\ undelivered' \in BOOLEAN
    BY <1>0, <1>4, <2>2, InjectOK DEF HandleRaw, RestOK
  <2>4. switches' \in Nat  BY <1>0, <1>4 DEF HandleRaw, Switch, RestOK
  <2>5. UNCHANGED <<mode, world, marks, thread, overtaken, keyLost, gained>> /\ bypassed' = TRUE
    BY <1>4 DEF HandleRaw
  <2>6. MarksOK' /\ IdleHoldsNothing' /\ InHand' /\ Resetting' /\ OwedDefined'
    BY <1>0, <2>5 DEF mode, marks, thread, MarksOK, CountsCoverMarks, CountsExact,
       IdleHoldsNothing, InHand, Resetting, OwedDefined, Defined
  <2>7. RestOK'  BY <1>0, <2>1, <2>3, <2>4, <2>5 DEF mode, world, thread, RestOK
  <2> QED  BY <2>6, <2>7 DEF IInv
<1>5. CASE StartKey
  <2>1. /\ inputQueue' \in Seq(Events)
        /\ Head(inputQueue) \in KeyEvents /\ Head(inputQueue) \in Events
    BY <1>0, <1>5, TakeOK DEF StartKey
  <2>2. Resync(FALSE, "lookup") /\ UNCHANGED <<setting, keyLost>>
    BY <1>5 DEF StartKey, mode, history
  <2>3. /\ MarksOK'
        /\ pc' \in {"modifiers", "lookup"} /\ after' = "lookup"
        /\ pc' = "modifiers" => pressCount' = 0
    BY <1>0, <2>2, ResyncOK
  <2>4. RestOK'
    BY <1>0, <1>5, <2>1, <2>3 DEF StartKey, mode, world, history, RestOK
  <2>5. IdleHoldsNothing' /\ InHand' /\ Resetting' /\ OwedDefined'
      BY <1>0, <1>5, <2>1, <2>3
      DEF StartKey, Take, mode, IdleHoldsNothing, InHand, Resetting,
       OwedDefined, Defined
  <2> QED  BY <2>3, <2>4, <2>5 DEF IInv
<1> QED  BY <1>1, <1>2, <1>3, <1>4, <1>5

\* Looking a key up and running its key sequence.
LEMMA KeyStep ==
  ASSUME IInv, Lookup \/ LookupUndefined \/ Generate \/ EndGenerate
  PROVE  IInv'
<1>0. MarksOK /\ RestOK /\ IdleHoldsNothing /\ InHand /\ Resetting /\ OwedDefined
  BY DEF IInv
<1>1. CASE Lookup
  <2> DEFINE k == event.key
             press == event.press
  <2>1. event \in KeyEvents /\ pc = "lookup"  BY <1>0, <1>1 DEF Lookup, InHand, Resetting
  <2>2. k \in Key /\ press \in BOOLEAN /\ event \in Events  BY <2>1, KeyEventFields
  <2>3. k \in Defined /\ CountPress(k, press)  BY <1>1 DEF Lookup
  <2>4. /\ pressed' \subseteq Defined
        /\ pressCount' \in Nat
        /\ pressCount' >= Cardinality(pressed')
        /\ ~keyLost => pressCount' = Cardinality(pressed')
    BY <1>0, <2>2, <2>3, CountPressOK
  <2>5. UNCHANGED <<setting, keyLost>> /\ Defined' = Defined
    BY <1>1 DEF Lookup, mode, Defined
  <2>6. /\ onWin32' \subseteq Defined
        /\ win32Count' \in Nat
        /\ win32Count' >= Cardinality(onWin32')
        /\ ~keyLost => win32Count' = Cardinality(onWin32')
    <3>1. CASE UNCHANGED <<onWin32, win32Count>>
      BY <1>0, <3>1 DEF MarksOK, CountsCoverMarks, CountsExact
    <3>2. CASE Mark(k, press)
      <4>1. IsFiniteSet(onWin32)  BY <1>0, DefinedFinite DEF MarksOK
      <4>2. /\ Cardinality(onWin32) \in Nat
            /\ Cardinality(onWin32') \in Nat
            /\ win32Count' - Cardinality(onWin32') = win32Count - Cardinality(onWin32)
        BY <1>0, <2>2, <3>2, <4>1, WithCount DEF Mark, MarksOK
      <4>3. win32Count' \in Int  BY <1>0, <3>2 DEF Mark, MarksOK
      <4>4. onWin32' \subseteq Defined  BY <1>0, <2>3, <3>2 DEF Mark, MarksOK, With
      <4> QED  BY <1>0, <4>2, <4>3, <4>4 DEF MarksOK, CountsCoverMarks, CountsExact
    <3> QED  BY <1>1, <3>1, <3>2 DEF Lookup
  <2>7. MarksOK'  BY <2>4, <2>5, <2>6 DEF MarksOK, CountsCoverMarks, CountsExact
  <2>8. os' \subseteq Key /\ undelivered' \in BOOLEAN
    BY <1>0, <1>1, <2>2, InjectOK DEF Lookup, RestOK
  <2>9. /\ pc' \in {"modifiers", "boundary", "generate"} /\ after' = "boundary"
        /\ pc' = "boundary" => pressCount' # 0
        /\ pc' = "modifiers" => pressCount' = 0
    BY <1>1, <2>4 DEF Lookup, IdleOr
  <2>10. /\ pc' # "generate" => owed' = {}
         /\ owed' \subseteq {event}
    BY <1>0, <1>1, <2>1, <2>9 DEF Lookup, OwedDefined, IdleOr
  <2>11. IdleHoldsNothing' /\ InHand' /\ Resetting'
    BY <2>9 DEF IdleHoldsNothing, InHand, Resetting
  <2>12. OwedDefined'  BY <2>1, <2>3, <2>5, <2>10 DEF OwedDefined
  <2>13. RestOK'
    BY <1>0, <1>1, <2>2, <2>8, <2>9, <2>10 DEF Lookup, mode, world, RestOK
  <2> QED  BY <2>7, <2>11, <2>12, <2>13 DEF IInv
<1>2. CASE LookupUndefined
  <2>1. event \in KeyEvents /\ pc = "lookup"
    BY <1>0, <1>2 DEF LookupUndefined, InHand, Resetting
  <2>2. event.key \in Key  BY <2>1, KeyEventFields
  <2>3. os' \subseteq Key /\ undelivered' \in BOOLEAN
    BY <1>0, <1>2, <2>2, InjectOK DEF LookupUndefined, RestOK
  <2>4. /\ pc' \in {"modifiers", "boundary"} /\ after' = "boundary"
        /\ pc' = "boundary" => pressCount' # 0
        /\ pc' = "modifiers" => pressCount' = 0
    BY <1>0, <1>2 DEF LookupUndefined, IdleOr, MarksOK, marks
  <2>5. MarksOK'
    BY <1>0, <1>2 DEF LookupUndefined, mode, marks, MarksOK, CountsCoverMarks,
       CountsExact, Defined
  <2>6. RestOK'  BY <1>0, <1>2, <2>3, <2>4 DEF LookupUndefined, mode, world, RestOK
  <2>7. IdleHoldsNothing' /\ InHand' /\ Resetting'
    BY <2>4 DEF IdleHoldsNothing, InHand, Resetting
  <2>8. OwedDefined'
    BY <1>0, <1>2, <2>1, <2>4 DEF LookupUndefined, mode, OwedDefined, Defined
  <2> QED  BY <2>5, <2>6, <2>7, <2>8 DEF IInv
<1>3. CASE Generate
  <2>1. UNCHANGED <<mode, inputQueue, world, pressed, pressCount, pc, after, event,
                    switches, bypassed, overtaken, keyLost, gained>> /\ pc = "generate"
    BY <1>3 DEF Generate
  <2>2. owed' \subseteq owed  BY <1>3 DEF Generate
  <2>3. MarksOK' /\ os' \subseteq Key /\ undelivered' \in BOOLEAN
    <3>1. ASSUME NEW k \in Defined \ Plain, NEW press \in BOOLEAN,
                 GenerateKeyEvent(k, press)
          PROVE  MarksOK' /\ os' \subseteq Key /\ undelivered' \in BOOLEAN
      BY <1>0, <2>1, <3>1, GenerateOK DEF mode
    <3>2. ASSUME NEW e \in owed, GenerateKeyEvent(e.key, e.press)
          PROVE  MarksOK' /\ os' \subseteq Key /\ undelivered' \in BOOLEAN
      <4>1. e.key \in Defined /\ e.press \in BOOLEAN
        BY <1>0, <3>2, KeyEventFields DEF OwedDefined
      <4> QED  BY <1>0, <2>1, <3>2, <4>1, GenerateOK DEF mode
    <3> QED  BY <1>3, <3>1, <3>2 DEF Generate
  <2>4. RestOK'  BY <1>0, <2>1, <2>2, <2>3 DEF mode, world, RestOK
  <2>5. IdleHoldsNothing' /\ InHand' /\ Resetting'
    BY <1>0, <2>1 DEF IdleHoldsNothing, InHand, Resetting
  <2>6. OwedDefined'  BY <1>0, <2>1, <2>2 DEF mode, OwedDefined, Defined
  <2> QED  BY <2>3, <2>4, <2>5, <2>6 DEF IInv
<1>4. CASE EndGenerate
  <2>1. MarksOK' /\ RestOK'
    BY <1>0, <1>4 DEF EndGenerate, IdleOr, mode, world, marks, history, MarksOK, RestOK,
       CountsCoverMarks, CountsExact, Defined
  <2>2. OwedDefined'  BY <1>4 DEF EndGenerate, OwedDefined
  <2>3. IdleHoldsNothing' /\ InHand' /\ Resetting'
    BY <1>0, <1>4 DEF EndGenerate, IdleOr, marks, MarksOK, IdleHoldsNothing, InHand,
       Resetting
  <2> QED  BY <2>1, <2>2, <2>3 DEF IInv
<1> QED  BY <1>1, <1>2, <1>3, <1>4

\* The idle reset: its releases, then its counters.
LEMMA ResetStep ==
  ASSUME IInv, ReleaseModifier \/ ResetOnWin32 \/ ResetCounts
  PROVE  IInv'
<1>0. MarksOK /\ RestOK /\ IdleHoldsNothing /\ InHand /\ Resetting /\ OwedDefined
  BY DEF IInv
<1>1. ASSUME NEW k \in onWin32, GenerateKeyEvent(k, FALSE), ReleaseModifier \/ ResetOnWin32
      PROVE  IInv'
  <2>1. /\ UNCHANGED <<mode, inputQueue, world, pressed, pressCount, after, event, owed,
                       switches, bypassed, overtaken, keyLost, gained>>
        /\ pc \in {"modifiers", "rest"} /\ pc' \in {"modifiers", "rest"}
    BY <1>1 DEF ReleaseModifier, ResetOnWin32, thread
  <2>2. k \in Defined  BY <1>0 DEF MarksOK
  <2>3. MarksOK' /\ os' \subseteq Key /\ undelivered' \in BOOLEAN
    BY <1>0, <1>1, <2>1, <2>2, GenerateOK DEF mode
  <2>4. RestOK'  BY <1>0, <2>1, <2>3 DEF mode, world, RestOK
  <2>5. IdleHoldsNothing' /\ InHand' /\ Resetting' /\ OwedDefined'
    BY <1>0, <2>1 DEF mode, IdleHoldsNothing, InHand, Resetting, OwedDefined, Defined
  <2> QED  BY <2>3, <2>4, <2>5 DEF IInv
<1>2. CASE ResetCounts
  <2>1. onWin32 = {}
    <3>1. CASE win32Count <= 0
      <4>1. IsFiniteSet(onWin32) /\ Cardinality(onWin32) \in Nat
        BY <1>0, DefinedFinite DEF MarksOK
      <4>2. Cardinality(onWin32) = 0
        BY <1>0, <3>1, <4>1 DEF MarksOK, CountsCoverMarks
      <4> QED  BY <4>1, <4>2, FS_EmptySet
    <3> QED  BY <1>2, <3>1 DEF ResetCounts
  <2>2. pressCount = 0 /\ pressCount' = 0 /\ win32Count' = 0
        /\ UNCHANGED <<setting, pressed, onWin32, keyLost, event, after, owed>>
        /\ pc' = after /\ pc \in {"modifiers", "rest"}
    BY <1>0, <1>2 DEF ResetCounts, Resetting, mode, history
  <2>3. Cardinality(onWin32') = 0  BY <2>1, <2>2, FS_EmptySet
  <2>4. MarksOK'
    BY <1>0, <2>2, <2>3 DEF MarksOK, CountsCoverMarks, CountsExact, Defined
  <2>5. RestOK'  BY <1>0, <1>2, <2>2 DEF ResetCounts, mode, world, history, RestOK
  <2>6. IdleHoldsNothing' /\ InHand' /\ Resetting' /\ OwedDefined'
    BY <1>0, <2>1, <2>2 DEF RestOK, IdleHoldsNothing, InHand, Resetting, OwedDefined,
       Defined
  <2> QED  BY <2>4, <2>5, <2>6 DEF IInv
<1> QED  BY <1>1, <1>2 DEF ReleaseModifier, ResetOnWin32

LEMMA StepIInv == IInv /\ [Next]_vars => IInv'
<1>1. IInv /\ UNCHANGED vars => IInv'
  BY DEF vars, mode, world, marks, thread, history, IInv, MarksOK, RestOK, Defined,
     CountsCoverMarks, CountsExact, IdleHoldsNothing, InHand, Resetting, OwedDefined
<1>2. IInv /\ Next => IInv'
  BY OutsideStep, BoundaryStep, KeyStep, ResetStep DEF Next, EngineStep
<1> QED  BY <1>1, <1>2

\* IInv is an inductive invariant of the key accounting.
THEOREM Inductive == Spec => []IInv
BY InitIInv, StepIInv, PTL DEF Spec

-----------------------------------------------------------------------------
\* Every variable keeps its type: the counters never go below zero, and only
\* keys of the active Setting are marked.
THEOREM TypeCorrect == Spec => []TypeOK
<1>1. IInv => TypeOK  BY DEF IInv, MarksOK, RestOK, TypeOK
<1> QED  BY <1>1, Inductive, PTL

\* "A stale pressed mark always keeps the count above zero" (resyncKeyStates),
\* and a key held on Win32 keeps the other one above zero.
THEOREM CountersCover == Spec => []CountsCoverMarks
<1>1. IInv => CountsCoverMarks  BY DEF IInv, MarksOK
<1> QED  BY <1>1, Inductive, PTL

\* Only a Setting without a marked key makes a counter differ from its marks.
THEOREM CountersExact == Spec => []CountsExact
<1>1. IInv => CountsExact  BY DEF IInv, MarksOK
<1> QED  BY <1>1, Inductive, PTL

\* An engine that counts no pressed key holds none down for the applications
\* when it turns to the next event (resetModifiersIfIdle).
THEOREM IdleReleases == Spec => []IdleHoldsNothing
<1>1. IInv => IdleHoldsNothing  BY DEF IInv
<1> QED  BY <1>1, Inductive, PTL

\* A forced resync with nothing down drops every mark (Engine::unlocked()).
THEOREM Unlocking == Spec => UnlockedForgets
<1> DEFINE A == (pc = "boundary" /\ resyncForceRequested
                  /\ ~resyncForceRequested' /\ os = {}) => pressed' = {}
<1>1. IInv /\ [Next]_vars => [A]_vars
  <2> SUFFICES ASSUME IInv, Next, resyncForceRequested, ~resyncForceRequested', os = {}
               PROVE  pressed' = {}
    OBVIOUS
  <2>1. ForceResync
    BY DEF Next, EngineStep, HookQueues, HookBypassed, Enable, EnableLogMode,
       ChangeForeground, Unlocked, ScheduleSetting, ScheduleAdHocKeySeq, ApplySetting,
       StartAdHoc, HandleRaw, StartKey, Lookup, LookupUndefined, Generate, EndGenerate,
       ReleaseModifier, ResetOnWin32, ResetCounts, mode
  <2>2. CASE setting = NoSetting
    BY <2>1, <2>2 DEF ForceResync, marks, IInv, MarksOK, Defined
  <2>3. CASE setting # NoSetting
    <3>1. Resync(TRUE, "boundary")  BY <2>1, <2>3 DEF ForceResync
    <3>2. Stale(TRUE) = pressed  BY DEF Stale
    <3> QED  BY <3>1, <3>2 DEF Resync
  <2> QED  BY <2>2, <2>3
<1> QED  BY <1>1, Inductive, PTL DEF Spec, UnlockedForgets
-----------------------------------------------------------------------------
(* From the hardware to the applications: the last event on its way from a    *)
(* key to the applications decides what becomes of it.                        *)

IsFor(e, k) == e = KeyEvent(k, TRUE) \/ e = KeyEvent(k, FALSE)

NoneFor(q, k) == \A i \in 1..Len(q) : ~IsFor(q[i], k)

\* the i-th event of q is for the key k, and none after it is
LastFor(q, k, i) ==
  /\ i \in 1..Len(q)
  /\ IsFor(q[i], k)
  /\ \A j \in 1..Len(q) : j > i => ~IsFor(q[j], k)

\* The last queued event of a key, and what is in flight when none is queued, is
\* what the hardware did to the key last.
Agrees(q, flight, down) ==
  \A k \in Key :
    /\ \A i \in 1..Len(q) : LastFor(q, k, i) => q[i] = KeyEvent(k, k \in down)
    /\ NoneFor(q, k) => \A e \in flight : IsFor(e, k) => e = KeyEvent(k, k \in down)

\* what the engine has taken from the queue and not injected yet
InFlight == {event} \cup owed

Settled(k) == NoneFor(inputQueue, k) /\ \A e \in InFlight : ~IsFor(e, k)

\* Events are in hand from StartKey to the lookup only.
HandEmpty ==
  (pc \in {"boundary", "generate"} \/ (pc \in {"modifiers", "rest"} /\ after = "boundary"))
    => event = NoEvent

EventsAgree == ~overtaken => Agrees(inputQueue, InFlight, physical)

OvertakenBypassed == overtaken => bypassed

\* A key is marked as pressed after its release only until the release is looked
\* up, ...
PressedFollow ==
  ~bypassed =>
    \A k \in pressed : NoneFor(inputQueue, k) /\ ~IsFor(event, k) => k \in physical

\* ... a plain button is down for the applications after its release only until
\* the release is injected, ...
ButtonsFollow ==
  ~overtaken /\ ~undelivered =>
    \A k \in Button \cap Plain \cap os : Settled(k) => k \in physical

\* ... and what is down for the applications and not marked is a button that was
\* passed through: one without an assignment, or one without a definition whose
\* release is on its way once it is up.
OsFollow ==
  ~bypassed /\ ~undelivered /\ ~keyLost /\ ~gained =>
    \A k \in os \ onWin32 :
      /\ k \in Button
      /\ k \notin Plain => k \notin Defined /\ (Settled(k) => k \in physical)

Follows ==
  HandEmpty /\ EventsAgree /\ OvertakenBypassed /\ PressedFollow /\ ButtonsFollow /\ OsFollow

-----------------------------------------------------------------------------
(* Events and the keys they are for. *)

LEMMA EventKeys ==
  /\ \A k, j : \A press \in BOOLEAN : IsFor(KeyEvent(k, press), j) <=> j = k
  /\ \A k : ~IsFor(NoEvent, k)
  /\ \A e : e.type # "key" => \A k : ~IsFor(e, k)
<1>1. ASSUME NEW k
      PROVE  /\ KeyEvent(k, TRUE).type = "key" /\ KeyEvent(k, FALSE).type = "key"
             /\ KeyEvent(k, TRUE).key = k /\ KeyEvent(k, FALSE).key = k
  BY DEF KeyEvent
<1>2. NoEvent.type = "none"  BY DEF NoEvent
<1>3. ASSUME NEW k, NEW j, NEW press \in BOOLEAN
      PROVE  IsFor(KeyEvent(k, press), j) <=> j = k
  <2>1. KeyEvent(k, press) \in {KeyEvent(k, TRUE), KeyEvent(k, FALSE)}
    <3>1. CASE press = TRUE  BY <3>1
    <3>2. CASE press = FALSE  BY <3>2
    <3> QED  BY <3>1, <3>2
  <2>2. KeyEvent(k, press).key = k  BY <1>1, <2>1
  <2>3. ASSUME IsFor(KeyEvent(k, press), j) PROVE j = k
    <3>1. KeyEvent(k, press).key = j  BY <1>1, <2>3 DEF IsFor
    <3> QED  BY <2>2, <3>1
  <2>4. j = k => IsFor(KeyEvent(k, press), j)  BY <2>1 DEF IsFor
  <2> QED  BY <2>3, <2>4
<1>4. ASSUME NEW e, NEW k, IsFor(e, k) PROVE e.type = "key"
  BY <1>1, <1>4 DEF IsFor
<1> QED  BY <1>2, <1>3, <1>4

\* A key event is for its own key and says one thing of it.
LEMMA OwnKey ==
  ASSUME NEW e \in KeyEvents
  PROVE  /\ e = KeyEvent(e.key, e.press)
         /\ \A k : IsFor(e, k) <=> k = e.key
         /\ \A k : \A b \in BOOLEAN : e = KeyEvent(k, b) => e.press = b
<1>1. PICK k \in Key, press \in BOOLEAN : e = KeyEvent(k, press)  BY DEF KeyEvents
<1>2. \A j, b : KeyEvent(j, b).key = j /\ KeyEvent(j, b).press = b  BY DEF KeyEvent
<1>3. e.key = k /\ e.press = press  BY <1>1, <1>2
<1> QED  BY <1>1, <1>2, <1>3, EventKeys

\* The last event of a key after one is put behind the others ...
LEMMA LastAppended ==
  ASSUME NEW q \in Seq(Events), NEW e \in Events, NEW k
  PROVE  /\ NoneFor(Append(q, e), k) <=> (NoneFor(q, k) /\ ~IsFor(e, k))
         /\ \A i \in 1..Len(Append(q, e)) : LastFor(Append(q, e), k, i) =>
              \/ IsFor(e, k) /\ Append(q, e)[i] = e
              \/ ~IsFor(e, k) /\ i \in 1..Len(q) /\ LastFor(q, k, i) /\ Append(q, e)[i] = q[i]
<1> DEFINE a == Append(q, e)
<1>1. /\ Len(q) \in Nat /\ Len(a) = Len(q) + 1 /\ a[Len(q) + 1] = e
      /\ \A i \in 1..Len(q) : a[i] = q[i]
  OBVIOUS
<1> HIDE DEF a
<1>2. \A i \in 1..Len(a) : i = Len(q) + 1 \/ i \in 1..Len(q)  BY <1>1
<1>3. Len(q) + 1 \in 1..Len(a) /\ \A i \in 1..Len(q) : i \in 1..Len(a) /\ Len(q) + 1 > i
  BY <1>1
<1>4. NoneFor(a, k) <=> (NoneFor(q, k) /\ ~IsFor(e, k))
  BY <1>1, <1>2, <1>3 DEF NoneFor
<1>5. ASSUME NEW i \in 1..Len(a), LastFor(a, k, i)
      PROVE  \/ IsFor(e, k) /\ a[i] = e
             \/ ~IsFor(e, k) /\ i \in 1..Len(q) /\ LastFor(q, k, i) /\ a[i] = q[i]
  <2>1. CASE i = Len(q) + 1  BY <1>1, <1>5, <2>1 DEF LastFor
  <2>2. CASE i \in 1..Len(q)
    <3>1. ~IsFor(e, k)  BY <1>1, <1>3, <1>5, <2>2 DEF LastFor
    <3>2. LastFor(q, k, i)  BY <1>1, <1>3, <1>5, <2>2 DEF LastFor
    <3> QED  BY <1>1, <2>2, <3>1, <3>2
  <2> QED  BY <1>2, <2>1, <2>2
<1> QED  BY <1>4, <1>5 DEF a

\* ... and after the first is taken.
LEMMA LastTaken ==
  ASSUME NEW q \in Seq(Events), q # <<>>, NEW k
  PROVE  /\ NoneFor(Tail(q), k) /\ ~IsFor(Head(q), k) => NoneFor(q, k)
         /\ NoneFor(Tail(q), k) /\ IsFor(Head(q), k) =>
              1 \in 1..Len(q) /\ LastFor(q, k, 1) /\ q[1] = Head(q)
         /\ \A i \in 1..Len(Tail(q)) : LastFor(Tail(q), k, i) =>
              i + 1 \in 1..Len(q) /\ LastFor(q, k, i + 1) /\ Tail(q)[i] = q[i + 1]
<1> DEFINE t == Tail(q)
           h == Head(q)
<1>1. /\ Len(t) \in Nat /\ Len(q) = Len(t) + 1 /\ h = q[1]
      /\ \A i \in 1..Len(t) : t[i] = q[i + 1]
  OBVIOUS
<1> HIDE DEF t, h
<1>2. \A j \in 1..Len(q) : j = 1 \/ (j - 1 \in 1..Len(t) /\ q[j] = t[j - 1])
  <2> SUFFICES ASSUME NEW j \in 1..Len(q), j # 1
               PROVE  j - 1 \in 1..Len(t) /\ q[j] = t[j - 1]
    OBVIOUS
  <2>1. j - 1 \in 1..Len(t) /\ (j - 1) + 1 = j  BY <1>1
  <2> QED  BY <1>1, <2>1
<1>3. NoneFor(t, k) /\ ~IsFor(h, k) => NoneFor(q, k)  BY <1>1, <1>2 DEF NoneFor
<1>4. ASSUME NoneFor(t, k), IsFor(h, k)
      PROVE  1 \in 1..Len(q) /\ LastFor(q, k, 1) /\ q[1] = h
  <2>1. \A j \in 1..Len(q) : j > 1 => ~IsFor(q[j], k)  BY <1>2, <1>4 DEF NoneFor
  <2> QED  BY <1>1, <1>4, <2>1 DEF LastFor
<1>5. ASSUME NEW i \in 1..Len(t), LastFor(t, k, i)
      PROVE  i + 1 \in 1..Len(q) /\ LastFor(q, k, i + 1) /\ t[i] = q[i + 1]
  <2>1. i + 1 \in 1..Len(q) /\ IsFor(q[i + 1], k) /\ t[i] = q[i + 1]
    BY <1>1, <1>5 DEF LastFor
  <2>2. ASSUME NEW j \in 1..Len(q), j > i + 1 PROVE ~IsFor(q[j], k)
    <3>1. j - 1 \in 1..Len(t) /\ q[j] = t[j - 1] /\ j - 1 > i  BY <1>1, <1>2, <2>2
    <3> QED  BY <1>5, <3>1 DEF LastFor
  <2> QED  BY <2>1, <2>2 DEF LastFor
<1> QED  BY <1>3, <1>4, <1>5 DEF t, h

\* Agreement survives a new event of the hardware, ...
LEMMA AgreesHook ==
  ASSUME NEW q \in Seq(Events), NEW flight, NEW down, Agrees(q, flight, down),
         NEW k \in Key, NEW press \in BOOLEAN
  PROVE  Agrees(Append(q, KeyEvent(k, press)), flight, With(down, k, press))
<1> DEFINE e == KeyEvent(k, press)
           d == With(down, k, press)
<1>1. e \in Events  BY DEF Events
<1>2. (k \in d <=> press) /\ \A j : j # k => (j \in d <=> j \in down)  BY DEF With
<1>3. e = KeyEvent(k, k \in d)  BY <1>2
<1>4. \A j \in Key \ {k} : KeyEvent(j, j \in d) = KeyEvent(j, j \in down)  BY <1>2
<1>5. \A j : IsFor(e, j) <=> j = k  BY EventKeys
<1> HIDE DEF e, d
<1>6. ASSUME NEW j \in Key, NEW i \in 1..Len(Append(q, e)), LastFor(Append(q, e), j, i)
      PROVE  Append(q, e)[i] = KeyEvent(j, j \in d)
  <2>1. CASE j = k  BY <1>1, <1>3, <1>5, <1>6, <2>1, LastAppended
  <2>2. CASE j # k
    <3>1. i \in 1..Len(q) /\ LastFor(q, j, i) /\ Append(q, e)[i] = q[i]
      BY <1>1, <1>5, <1>6, <2>2, LastAppended
    <3> QED  BY <1>4, <2>2, <3>1 DEF Agrees
  <2> QED  BY <2>1, <2>2
<1>7. ASSUME NEW j \in Key, NoneFor(Append(q, e), j), NEW f \in flight, IsFor(f, j)
      PROVE  f = KeyEvent(j, j \in d)
  <2>1. NoneFor(q, j) /\ j # k  BY <1>1, <1>5, <1>7, LastAppended
  <2> QED  BY <1>4, <1>7, <2>1 DEF Agrees
<1>8. Agrees(Append(q, e), flight, d)  BY <1>6, <1>7 DEF Agrees
<1> QED  BY <1>8 DEF e, d

\* ... an event that is for no key, ...
LEMMA AgreesOther ==
  ASSUME NEW q \in Seq(Events), NEW flight, NEW down, Agrees(q, flight, down),
         NEW e \in Events, \A k \in Key : ~IsFor(e, k)
  PROVE  Agrees(Append(q, e), flight, down)
<1>1. ASSUME NEW j \in Key, NEW i \in 1..Len(Append(q, e)), LastFor(Append(q, e), j, i)
      PROVE  Append(q, e)[i] = KeyEvent(j, j \in down)
  <2>1. i \in 1..Len(q) /\ LastFor(q, j, i) /\ Append(q, e)[i] = q[i]
    BY <1>1, LastAppended
  <2> QED  BY <2>1 DEF Agrees
<1>2. ASSUME NEW j \in Key, NoneFor(Append(q, e), j), NEW f \in flight, IsFor(f, j)
      PROVE  f = KeyEvent(j, j \in down)
  <2>1. NoneFor(q, j)  BY <1>2, LastAppended
  <2> QED  BY <1>2, <2>1 DEF Agrees
<1> QED  BY <1>1, <1>2 DEF Agrees

\* ... and the engine taking an event, with nothing else in flight.
LEMMA AgreesTake ==
  ASSUME NEW q \in Seq(Events), q # <<>>, NEW flight, NEW down, Agrees(q, flight, down),
         NEW taken, \A e \in taken : e = Head(q) \/ \A k \in Key : ~IsFor(e, k)
  PROVE  Agrees(Tail(q), taken, down)
<1>1. ASSUME NEW j \in Key, NEW i \in 1..Len(Tail(q)), LastFor(Tail(q), j, i)
      PROVE  Tail(q)[i] = KeyEvent(j, j \in down)
  <2>1. i + 1 \in 1..Len(q) /\ LastFor(q, j, i + 1) /\ Tail(q)[i] = q[i + 1]
    BY <1>1, LastTaken
  <2> QED  BY <2>1 DEF Agrees
<1>2. ASSUME NEW j \in Key, NoneFor(Tail(q), j), NEW f \in taken, IsFor(f, j)
      PROVE  f = KeyEvent(j, j \in down)
  <2>1. f = Head(q)  BY <1>2
  <2>2. 1 \in 1..Len(q) /\ LastFor(q, j, 1) /\ q[1] = Head(q)  BY <1>2, <2>1, LastTaken
  <2> QED  BY <2>1, <2>2 DEF Agrees
<1> QED  BY <1>1, <1>2 DEF Agrees

-----------------------------------------------------------------------------
(* What is on its way, step by step. *)

\* Less in flight agrees still.
LEMMA AgreesShrink ==
  ASSUME NEW q, NEW flight, NEW down, Agrees(q, flight, down), NEW less,
         \A e \in less : e \in flight \/ e = NoEvent
  PROVE  Agrees(q, less, down)
<1>1. ASSUME NEW j \in Key, NoneFor(q, j), NEW e \in less, IsFor(e, j)
      PROVE  e = KeyEvent(j, j \in down)
  <2>1. e \in flight  BY <1>1, EventKeys
  <2> QED  BY <1>1, <2>1 DEF Agrees
<1> QED  BY <1>1 DEF Agrees

\* Between two events the engine has nothing in flight.
LEMMA NothingInFlight ==
  ASSUME IInv, HandEmpty, pc = "boundary"
  PROVE  /\ event = NoEvent /\ owed = {} /\ InFlight = {NoEvent}
         /\ \A k : ~IsFor(event, k)
         /\ \A k : \A e \in InFlight : ~IsFor(e, k)
<1>1. event = NoEvent /\ owed = {}  BY DEF HandEmpty, IInv, OwedDefined
<1>2. InFlight = {NoEvent}  BY <1>1 DEF InFlight
<1> QED  BY <1>1, <1>2, EventKeys

\* What is taken from the queue, and for which key it is.
LEMMA TakeFor ==
  ASSUME IInv, NEW type, Take(type)
  PROVE  /\ pc = "boundary"
         /\ inputQueue \in Seq(Events) /\ inputQueue # <<>>
         /\ inputQueue' = Tail(inputQueue)
         /\ type = "key" => Head(inputQueue) \in KeyEvents
         /\ type # "key" => \A k : ~IsFor(Head(inputQueue), k)
<1>1. inputQueue \in Seq(Events) /\ RestOK  BY DEF IInv, RestOK
<1>2. type # "key" => \A k : ~IsFor(Head(inputQueue), k)  BY EventKeys DEF Take
<1> QED  BY <1>1, <1>2, TakeOK DEF Take

\* Every queued event is one of the kinds the engine takes, and only the hooks and
\* the schedulers put one into the queue.
LEMMA OtherEvents ==
  ASSUME NEW s \in Setting
  PROVE  /\ SettingEvent(s) \in Events /\ AdHocEvent(s) \in Events
         /\ \A k : ~IsFor(SettingEvent(s), k) /\ ~IsFor(AdHocEvent(s), k)
<1>1. SettingEvent(s).type # "key" /\ AdHocEvent(s).type # "key"
  BY DEF SettingEvent, AdHocEvent
<1> QED  BY <1>1, EventKeys DEF Events

LEMMA StepHandEmpty ==
  ASSUME IInv, HandEmpty, [Next]_vars
  PROVE  HandEmpty'
<1> USE DEF HandEmpty
<1>1. ASSUME NEW k \in Key, NEW press \in BOOLEAN,
             HookQueues(k, press) \/ HookBypassed(k, press)
      PROVE  HandEmpty'
  BY <1>1 DEF HookQueues, HookBypassed, thread
<1>2. CASE Enable \/ EnableLogMode \/ ChangeForeground \/ Unlocked
  BY <1>2 DEF Enable, EnableLogMode, ChangeForeground, Unlocked, thread
<1>3. ASSUME NEW s \in Setting, ScheduleSetting(s) \/ ScheduleAdHocKeySeq(s)
      PROVE  HandEmpty'
  BY <1>3 DEF ScheduleSetting, ScheduleAdHocKeySeq, thread
<1>4. CASE ForceResync \/ ApplySetting \/ StartAdHoc \/ HandleRaw
  BY <1>4 DEF ForceResync, ApplySetting, StartAdHoc, HandleRaw, Take, thread
<1>5. CASE StartKey  BY <1>5 DEF StartKey, Resync, IdleOr
<1>6. CASE Lookup \/ LookupUndefined  BY <1>6 DEF Lookup, LookupUndefined
<1>7. CASE Generate \/ EndGenerate
  BY <1>7 DEF Generate, EndGenerate
<1>8. CASE ReleaseModifier \/ ResetOnWin32 \/ ResetCounts
  BY <1>8 DEF ReleaseModifier, ResetOnWin32, ResetCounts, thread, IInv, RestOK
<1>9. CASE UNCHANGED vars  BY <1>9 DEF vars, thread
<1> QED  BY <1>1, <1>2, <1>3, <1>4, <1>5, <1>6, <1>7, <1>8, <1>9 DEF Next, EngineStep

\* What happens to the events on their way: the hooks and the schedulers append,
\* the engine takes the first, and the rest of the time it only gets rid of what
\* is in flight.
LEMMA StepAgree ==
  ASSUME IInv, HandEmpty, EventsAgree, [Next]_vars
  PROVE  EventsAgree'
<1> SUFFICES ASSUME ~overtaken' PROVE Agrees(inputQueue', InFlight', physical')
  BY DEF EventsAgree
<1>q. inputQueue \in Seq(Events) /\ overtaken \in BOOLEAN  BY DEF IInv, RestOK
<1>g. ASSUME UNCHANGED <<inputQueue, physical, overtaken>>,
             \A e \in InFlight' : e \in InFlight \/ e = NoEvent
      PROVE  Agrees(inputQueue', InFlight', physical')
  BY <1>g, AgreesShrink DEF EventsAgree
<1>1. ASSUME NEW k \in Key, NEW press \in BOOLEAN, HookQueues(k, press)
      PROVE  Agrees(inputQueue', InFlight', physical')
  <2>1. /\ ~overtaken /\ InFlight' = InFlight
        /\ inputQueue' = Append(inputQueue, KeyEvent(k, press))
        /\ physical' = With(physical, k, press)
    BY <1>1 DEF HookQueues, Push, thread, history, InFlight
  <2> QED  BY <1>q, <2>1, AgreesHook DEF EventsAgree
<1>2. ASSUME NEW k \in Key, NEW press \in BOOLEAN, HookBypassed(k, press)
      PROVE  Agrees(inputQueue', InFlight', physical')
  <2>1. inputQueue = <<>> /\ pc = "boundary" /\ inputQueue' = <<>>
    BY <1>2 DEF HookBypassed
  <2>2. InFlight' = {NoEvent}
    BY <1>2, <2>1, NothingInFlight DEF HookBypassed, thread, InFlight
  <2>3. Len(inputQueue') = 0  BY <2>1
  <2> QED  BY <2>2, <2>3, EventKeys DEF Agrees
<1>3. CASE Enable \/ EnableLogMode \/ ChangeForeground \/ Unlocked
  BY <1>3, <1>g
  DEF Enable, EnableLogMode, ChangeForeground, Unlocked, world, thread, history, InFlight
<1>4. ASSUME NEW s \in Setting, ScheduleSetting(s) \/ ScheduleAdHocKeySeq(s)
      PROVE  Agrees(inputQueue', InFlight', physical')
  <2>1. ~overtaken /\ UNCHANGED physical /\ InFlight' = InFlight
    BY <1>4 DEF ScheduleSetting, ScheduleAdHocKeySeq, world, thread, history, InFlight
  <2>2. PICK e \in {SettingEvent(s), AdHocEvent(s)} : inputQueue' = Append(inputQueue, e)
    BY <1>4 DEF ScheduleSetting, ScheduleAdHocKeySeq, Push
  <2>3. e \in Events /\ \A k \in Key : ~IsFor(e, k)  BY OtherEvents
  <2> QED  BY <1>q, <2>1, <2>2, <2>3, AgreesOther DEF EventsAgree
<1>5. CASE ForceResync
  BY <1>5, <1>g DEF ForceResync, world, history, InFlight
<1>6. CASE ApplySetting \/ StartAdHoc \/ HandleRaw
  <2>1. \E type : Take(type)  BY <1>6 DEF ApplySetting, StartAdHoc, HandleRaw
  <2>2. /\ inputQueue # <<>> /\ inputQueue' = Tail(inputQueue)
        /\ InFlight = {NoEvent}
    BY <2>1, TakeFor, NothingInFlight
  <2>3. ~overtaken /\ UNCHANGED physical /\ InFlight' = InFlight
    BY <1>6 DEF ApplySetting, StartAdHoc, HandleRaw, world, thread, history, InFlight
  <2>4. \A e \in InFlight' : \A k \in Key : ~IsFor(e, k)  BY <2>2, <2>3, EventKeys
  <2> QED  BY <1>q, <2>2, <2>3, <2>4, AgreesTake DEF EventsAgree
<1>7. CASE StartKey
  <2>1. inputQueue # <<>> /\ inputQueue' = Tail(inputQueue) /\ owed = {}
    BY <1>7, TakeFor, NothingInFlight DEF StartKey
  <2>2. ~overtaken /\ UNCHANGED physical /\ InFlight' = {Head(inputQueue)}
    BY <1>7, <2>1 DEF StartKey, world, history, InFlight
  <2> QED  BY <1>q, <2>1, <2>2, AgreesTake DEF EventsAgree
<1>8. CASE Lookup
  BY <1>8, <1>g DEF Lookup, world, InFlight
<1>9. CASE LookupUndefined
  BY <1>9, <1>g DEF LookupUndefined, world, InFlight
<1>10. CASE Generate \/ EndGenerate
  BY <1>10, <1>g DEF Generate, EndGenerate, world, history, InFlight
<1>11. CASE ReleaseModifier \/ ResetOnWin32 \/ ResetCounts
  BY <1>11, <1>g
  DEF ReleaseModifier, ResetOnWin32, ResetCounts, world, thread, history, InFlight
<1>12. CASE UNCHANGED vars
  BY <1>12, <1>g DEF vars, world, thread, history, InFlight
<1> QED  BY <1>1, <1>2, <1>3, <1>4, <1>5, <1>6, <1>7, <1>8, <1>9, <1>10, <1>11, <1>12
         DEF Next, EngineStep

\* Only the hooks of a system that calls none overtake the queue.
LEMMA StepOvertaken ==
  ASSUME IInv, OvertakenBypassed, [Next]_vars
  PROVE  OvertakenBypassed'
BY DEF OvertakenBypassed, Next, EngineStep, HookQueues, HookBypassed, Enable,
   EnableLogMode, ChangeForeground, Unlocked, ScheduleSetting, ScheduleAdHocKeySeq,
   ForceResync, ApplySetting, StartAdHoc, HandleRaw, StartKey, Lookup, LookupUndefined,
   Generate, EndGenerate, ReleaseModifier, ResetOnWin32, ResetCounts, vars, history

-----------------------------------------------------------------------------
(* What the engine does with the last event of a key. *)

\* The event in flight of a key with none queued is what the hardware did last ...
LEMMA LastSaid ==
  ASSUME EventsAgree, ~overtaken, NEW e \in KeyEvents, e \in InFlight,
         NoneFor(inputQueue, e.key)
  PROVE  e.press <=> e.key \in physical
<1>1. e.key \in Key /\ e.press \in BOOLEAN /\ IsFor(e, e.key)  BY KeyEventFields, OwnKey
<1>2. e = KeyEvent(e.key, e.key \in physical)  BY <1>1 DEF EventsAgree, Agrees
<1>3. CASE e.key \in physical
  <2>1. e = KeyEvent(e.key, TRUE)  BY <1>2, <1>3
  <2>2. e.press = TRUE  BY <2>1, OwnKey
  <2> QED  BY <1>3, <2>2
<1>4. CASE e.key \notin physical
  <2>0. (e.key \in physical) = FALSE  BY <1>4
  <2>1. e = KeyEvent(e.key, FALSE)  BY <1>2, <2>0, Zenon
  <2>2. e.press = FALSE  BY <2>1, OwnKey
  <2> QED  BY <1>4, <2>2
<1> QED  BY <1>3, <1>4

\* ... and so is the first of the queue when no other one of its key is behind it.
LEMMA HeadSaid ==
  ASSUME EventsAgree, ~overtaken, inputQueue \in Seq(Events), inputQueue # <<>>,
         Head(inputQueue) \in KeyEvents, NoneFor(Tail(inputQueue), Head(inputQueue).key)
  PROVE  Head(inputQueue).press <=> Head(inputQueue).key \in physical
<1> DEFINE e == Head(inputQueue)
<1>1. e.key \in Key /\ e.press \in BOOLEAN /\ IsFor(e, e.key)  BY KeyEventFields, OwnKey
<1>2. /\ 1 \in 1..Len(inputQueue) /\ LastFor(inputQueue, e.key, 1) /\ inputQueue[1] = e
  BY <1>1, LastTaken
<1> HIDE DEF e
<1>3. e = KeyEvent(e.key, e.key \in physical)  BY <1>1, <1>2 DEF EventsAgree, Agrees
<1>4. CASE e.key \in physical
  <2>1. e = KeyEvent(e.key, TRUE)  BY <1>3, <1>4
  <2>2. e.press = TRUE  BY <2>1, OwnKey DEF e
  <2> QED  BY <1>4, <2>2 DEF e
<1>5. CASE e.key \notin physical
  <2>0. (e.key \in physical) = FALSE  BY <1>5
  <2>1. e = KeyEvent(e.key, FALSE)  BY <1>3, <2>0, Zenon
  <2>2. e.press = FALSE  BY <2>1, OwnKey DEF e
  <2> QED  BY <1>5, <2>2 DEF e
<1> QED  BY <1>4, <1>5

\* Without a dropped injection, the applications see what was injected.
LEMMA Delivered ==
  ASSUME IInv, NEW k, NEW press \in BOOLEAN, ~undelivered',
         Inject(k, press) \/ UNCHANGED <<os, undelivered>>
  PROVE  /\ ~undelivered
         /\ Inject(k, press) => os' = With(os, k, press)
         /\ \A j : j \in os' /\ j # k => j \in os
         /\ \A j : j \in os' /\ ~press => j \in os
BY DEF Inject, With, IInv, RestOK

\* Everything the outside does to the queue adds to it, everything the engine does
\* takes its head: a key without events had none before, apart from that head.
LEMMA NoneBefore ==
  ASSUME IInv, [Next]_vars, NEW k \in Key, NoneFor(inputQueue', k)
  PROVE  \/ NoneFor(inputQueue, k)
         \/ (HandleRaw \/ StartKey) /\ IsFor(Head(inputQueue), k)
<1>q. inputQueue \in Seq(Events)  BY DEF IInv, RestOK
<1>1. ASSUME NEW j \in Key, NEW press \in BOOLEAN, HookQueues(j, press)
      PROVE  NoneFor(inputQueue, k)
  <2>1. KeyEvent(j, press) \in Events /\ inputQueue' = Append(inputQueue, KeyEvent(j, press))
    BY <1>1 DEF HookQueues, Push, Events
  <2> QED  BY <1>q, <2>1, LastAppended
<1>2. ASSUME NEW s \in Setting, ScheduleSetting(s) \/ ScheduleAdHocKeySeq(s)
      PROVE  NoneFor(inputQueue, k)
  <2>1. PICK e \in {SettingEvent(s), AdHocEvent(s)} : inputQueue' = Append(inputQueue, e)
    BY <1>2 DEF ScheduleSetting, ScheduleAdHocKeySeq, Push
  <2>2. e \in Events  BY OtherEvents
  <2> QED  BY <1>q, <2>1, <2>2, LastAppended
<1>3. CASE ApplySetting \/ StartAdHoc
  <2>1. inputQueue # <<>> /\ inputQueue' = Tail(inputQueue) /\ ~IsFor(Head(inputQueue), k)
    BY <1>3, TakeFor DEF ApplySetting, StartAdHoc
  <2> QED  BY <1>q, <2>1, LastTaken
<1>4. CASE HandleRaw \/ StartKey
  <2>1. inputQueue # <<>> /\ inputQueue' = Tail(inputQueue)
    BY <1>4, TakeFor DEF HandleRaw, StartKey
  <2> QED  BY <1>q, <1>4, <2>1, LastTaken
<1>5. CASE UNCHANGED inputQueue  BY <1>5
<1> QED  BY <1>1, <1>2, <1>3, <1>4, <1>5
         DEF Next, EngineStep, HookBypassed, Enable, EnableLogMode, ChangeForeground,
             Unlocked, ForceResync, Lookup, LookupUndefined, Generate, EndGenerate,
             ReleaseModifier, ResetOnWin32, ResetCounts, vars

LEMMA StepPressed ==
  ASSUME IInv, HandEmpty, EventsAgree, OvertakenBypassed, PressedFollow, [Next]_vars
  PROVE  PressedFollow'
<1> SUFFICES ASSUME ~bypassed', NEW j \in pressed', NoneFor(inputQueue', j),
                    ~IsFor(event', j)
             PROVE  j \in physical'
  BY DEF PressedFollow
<1>k. j \in Key
  <2>1. pressed' \subseteq Defined' /\ RestOK'  BY StepIInv DEF IInv, MarksOK
  <2> QED  BY <2>1, KeysAssumption DEF Defined, RestOK
<1>g. ASSUME ~bypassed, j \in pressed, NoneFor(inputQueue, j), ~IsFor(event, j)
      PROVE  j \in physical
  BY <1>g DEF PressedFollow
<1>1. ASSUME NEW k \in Key, NEW press \in BOOLEAN, HookQueues(k, press)
      PROVE  j \in physical'
  <2>1. /\ ~bypassed /\ j \in pressed /\ ~IsFor(event, j)
        /\ inputQueue' = Append(inputQueue, KeyEvent(k, press))
        /\ physical' = With(physical, k, press)
    BY <1>1 DEF HookQueues, Push, marks, thread, history
  <2>2. NoneFor(inputQueue, j) /\ ~IsFor(KeyEvent(k, press), j)
    BY <2>1, LastAppended DEF IInv, RestOK, Events
  <2>3. j \in physical /\ j # k  BY <1>g, <2>1, <2>2, EventKeys
  <2> QED  BY <2>1, <2>3 DEF With
<1>2. CASE Lookup
  <2> DEFINE k == event.key
             press == event.press
  <2>1. /\ ~bypassed /\ UNCHANGED <<inputQueue, physical>> /\ pc = "lookup"
        /\ pressed' = With(pressed, k, press)
    BY <1>2 DEF Lookup, CountPress, world
  <2>2. event \in KeyEvents  BY <2>1 DEF IInv, InHand
  <2>3. CASE j = k
    <3>1. press  BY <2>1, <2>3 DEF With
    <3>2. ~overtaken /\ event \in InFlight  BY <2>1 DEF OvertakenBypassed, InFlight
    <3> QED  BY <2>1, <2>2, <2>3, <3>1, <3>2, LastSaid
  <2>4. CASE j # k
    <3>1. j \in pressed  BY <2>1, <2>4 DEF With
    <3>2. ~IsFor(event, j)  BY <2>2, <2>4, OwnKey
    <3> QED  BY <1>g, <2>1, <3>1, <3>2
  <2> QED  BY <2>3, <2>4
<1>3. CASE LookupUndefined
  <2>1. /\ ~bypassed /\ UNCHANGED <<inputQueue, physical, pressed>> /\ pc = "lookup"
        /\ event.key \notin Defined
    BY <1>3 DEF LookupUndefined, world, marks
  <2>2. event \in KeyEvents  BY <2>1 DEF IInv, InHand
  <2>3. j # event.key  BY <2>1 DEF IInv, MarksOK
  <2> QED  BY <1>g, <2>1, <2>2, <2>3, OwnKey
<1>4. CASE StartKey
  <2>1. /\ ~bypassed /\ j \in pressed /\ UNCHANGED physical
        /\ event' = Head(inputQueue) /\ event = NoEvent
    BY <1>4, TakeFor, NothingInFlight DEF StartKey, Resync, history, world
  <2>2. NoneFor(inputQueue, j)  BY <1>4, <1>k, <2>1, NoneBefore DEF StartKey, HandleRaw
  <2> QED  BY <1>g, <2>1, <2>2, EventKeys
<1>5. CASE \/ Enable \/ EnableLogMode \/ ChangeForeground \/ Unlocked
           \/ \E s \in Setting : ScheduleSetting(s) \/ ScheduleAdHocKeySeq(s)
           \/ ForceResync \/ ApplySetting \/ StartAdHoc
           \/ Generate \/ EndGenerate \/ ReleaseModifier \/ ResetOnWin32 \/ ResetCounts
           \/ UNCHANGED vars
  <2>1. /\ UNCHANGED <<bypassed, physical, event>> /\ pressed' \subseteq pressed
    BY <1>5 DEF Enable, EnableLogMode, ChangeForeground, Unlocked, ScheduleSetting,
       ScheduleAdHocKeySeq, ForceResync, Resync, ApplySetting, StartAdHoc, Generate,
       EndGenerate, ReleaseModifier, ResetOnWin32, ResetCounts, vars, world, marks,
       thread, history
  <2>2. NoneFor(inputQueue, j) \/ HandleRaw \/ StartKey  BY <1>k, NoneBefore
  <2> QED  BY <1>g, <1>4, <2>1, <2>2 DEF HandleRaw
<1> QED  BY <1>1, <1>2, <1>3, <1>4, <1>5
         DEF Next, EngineStep, HookBypassed, HandleRaw
\* A key with nothing on its way had nothing before a step either, unless that step
\* is the hook queueing an event of it, or the engine's handling of its last one.
LEMMA SettledBefore ==
  ASSUME IInv, HandEmpty, [Next]_vars, NEW k \in Key, Settled(k)'
  PROVE  \/ Settled(k)
         \/ HandleRaw /\ IsFor(Head(inputQueue), k) /\ NoneFor(Tail(inputQueue), k)
         \/ (Lookup \/ LookupUndefined) /\ IsFor(event, k) /\ NoneFor(inputQueue, k)
         \/ Generate /\ NoneFor(inputQueue, k)
              /\ \E e \in owed : IsFor(e, k) /\ GenerateKeyEvent(e.key, e.press)
<1>1. NoneFor(inputQueue', k) /\ \A e \in InFlight' : ~IsFor(e, k)  BY DEF Settled
<1>2. CASE HandleRaw
  <2>1. inputQueue' = Tail(inputQueue) /\ \A e \in InFlight : ~IsFor(e, k)
    BY <1>2, TakeFor, NothingInFlight DEF HandleRaw
  <2> QED  BY <1>1, <1>2, <2>1, NoneBefore DEF Settled, StartKey
<1>3. CASE StartKey
  <2>1. /\ \A e \in InFlight : ~IsFor(e, k)
        /\ Head(inputQueue) \in InFlight'
    BY <1>3, TakeFor, NothingInFlight DEF StartKey, InFlight
  <2>2. NoneFor(inputQueue, k)  BY <1>1, <2>1, NoneBefore
  <2> QED  BY <2>1, <2>2 DEF Settled
<1>4. CASE Lookup \/ LookupUndefined
  <2>1. UNCHANGED inputQueue /\ owed = {}
    BY <1>4 DEF Lookup, LookupUndefined, IInv, OwedDefined
  <2> QED  BY <1>1, <1>4, <2>1 DEF Settled, InFlight
<1>5. CASE Generate
  <2>1. UNCHANGED <<inputQueue, event>>  BY <1>5 DEF Generate
  <2>2. CASE UNCHANGED owed  BY <1>1, <2>1, <2>2 DEF Settled, InFlight
  <2>3. ASSUME NEW e \in owed, GenerateKeyEvent(e.key, e.press), owed' = owed \ {e}
        PROVE  \/ Settled(k)
               \/ NoneFor(inputQueue, k)
                    /\ \E f \in owed : IsFor(f, k) /\ GenerateKeyEvent(f.key, f.press)
    <3>1. CASE IsFor(e, k)  BY <1>1, <2>1, <2>3, <3>1
    <3>2. CASE ~IsFor(e, k)  BY <1>1, <2>1, <2>3, <3>2 DEF Settled, InFlight
    <3> QED  BY <3>1, <3>2
  <2> QED  BY <1>5, <2>2, <2>3 DEF Generate
<1>6. CASE /\ UNCHANGED <<event, owed>>
           /\ ~(HandleRaw \/ StartKey)
  <2>1. NoneFor(inputQueue, k)  BY <1>1, <1>6, NoneBefore
  <2> QED  BY <1>1, <1>6, <2>1 DEF Settled, InFlight
<1>7. ASSUME NEW j \in Key, NEW press \in BOOLEAN, HookQueues(j, press) \/ HookBypassed(j, press)
      PROVE  UNCHANGED <<event, owed>>
  BY <1>7 DEF HookQueues, HookBypassed, thread
<1>8. CASE Enable \/ EnableLogMode \/ ChangeForeground \/ Unlocked
           \/ \E s \in Setting : ScheduleSetting(s) \/ ScheduleAdHocKeySeq(s)
  BY <1>1, <1>2, <1>3, <1>6, <1>8
  DEF Enable, EnableLogMode, ChangeForeground, Unlocked, ScheduleSetting,
      ScheduleAdHocKeySeq, thread
<1>9. CASE \/ ForceResync \/ ApplySetting \/ StartAdHoc \/ EndGenerate
           \/ ReleaseModifier \/ ResetOnWin32 \/ ResetCounts \/ UNCHANGED vars
  <2>1. UNCHANGED <<event, owed>>
    BY <1>9 DEF ForceResync, ApplySetting, StartAdHoc, EndGenerate, ReleaseModifier,
       ResetOnWin32, ResetCounts, vars, thread
  <2> QED  BY <1>2, <1>3, <1>6, <2>1
<1> QED  BY <1>2, <1>3, <1>4, <1>5, <1>6, <1>7, <1>8, <1>9 DEF Next, EngineStep

LEMMA StepButtons ==
  ASSUME IInv, HandEmpty, EventsAgree, ButtonsFollow, [Next]_vars
  PROVE  ButtonsFollow'
<1> SUFFICES ASSUME ~overtaken', ~undelivered', NEW j \in Button \cap Plain,
                    j \in os', Settled(j)'
             PROVE  j \in physical'
  BY DEF ButtonsFollow
<1>k. j \in Key  BY KeysAssumption
<1>g. ASSUME ~overtaken, ~undelivered, j \in os, Settled(j)
      PROVE  j \in physical
  BY <1>g DEF ButtonsFollow
<1>1. CASE HandleRaw
  <2> DEFINE e == Head(inputQueue)
  <2>1. /\ inputQueue \in Seq(Events) /\ inputQueue # <<>> /\ e \in KeyEvents
        /\ inputQueue' = Tail(inputQueue) /\ pc = "boundary"
        /\ ~overtaken /\ UNCHANGED physical
    BY <1>1, TakeFor DEF HandleRaw, world
  <2>2. e.press \in BOOLEAN /\ IsFor(e, e.key)  BY <2>1, KeyEventFields, OwnKey
  <2>3. Inject(e.key, e.press) \/ UNCHANGED <<os, undelivered>>  BY <1>1 DEF HandleRaw
  <2>4. CASE j = e.key
    <3>1. Inject(e.key, e.press)  BY <1>1, <2>4 DEF HandleRaw
    <3>2. os' = With(os, e.key, e.press)  BY <2>2, <3>1, Delivered
    <3>3. e.press  BY <2>4, <3>2 DEF With
    <3>4. NoneFor(Tail(inputQueue), e.key)  BY <2>1, <2>4 DEF Settled
    <3> QED  BY <2>1, <2>4, <3>3, <3>4, HeadSaid
  <2>5. CASE j # e.key
    <3>1. ~IsFor(e, j)  BY <2>1, <2>5, OwnKey
    <3>2. Settled(j)
      BY <1>k, <2>1, <3>1, SettledBefore DEF Lookup, LookupUndefined, Generate
    <3>3. j \in os /\ ~undelivered  BY <2>2, <2>3, <2>5, Delivered
    <3> QED  BY <1>g, <2>1, <3>2, <3>3
  <2> QED  BY <2>4, <2>5
<1>2. CASE Lookup \/ LookupUndefined
  <2> DEFINE k == event.key
             press == event.press
  <2>1. /\ pc = "lookup" /\ ~overtaken /\ UNCHANGED <<inputQueue, physical>>
        /\ Inject(k, press) \/ UNCHANGED <<os, undelivered>>
    BY <1>2 DEF Lookup, LookupUndefined, world
  <2>2. event \in KeyEvents  BY <2>1 DEF IInv, InHand
  <2>3. press \in BOOLEAN /\ IsFor(event, k) /\ event \in InFlight
    BY <2>2, KeyEventFields, OwnKey DEF InFlight
  <2>4. CASE j = k
    <3>1. NoneFor(inputQueue, k) /\ \A f \in InFlight' : ~IsFor(f, k)
      BY <2>1, <2>4 DEF Settled
    <3>2. owed' # {event}  BY <2>3, <3>1 DEF InFlight
    <3>3. Inject(k, press)  BY <1>2, <2>4, <3>2 DEF Lookup, LookupUndefined
    <3>4. os' = With(os, k, press)  BY <2>3, <3>3, Delivered
    <3>5. press  BY <2>4, <3>4 DEF With
    <3> QED  BY <2>1, <2>2, <2>3, <2>4, <3>1, <3>5, LastSaid
  <2>5. CASE j # k
    <3>1. ~IsFor(event, j)  BY <2>2, <2>5, OwnKey
    <3>2. Settled(j)
      BY <1>k, <2>1, <3>1, SettledBefore DEF HandleRaw, Take, Generate
    <3>3. j \in os /\ ~undelivered  BY <2>1, <2>3, <2>5, Delivered
    <3> QED  BY <1>g, <2>1, <3>2, <3>3
  <2> QED  BY <2>4, <2>5
<1>3. CASE Generate
  <2>1. pc = "generate" /\ ~overtaken /\ UNCHANGED <<inputQueue, physical>>
    BY <1>3 DEF Generate, world
  <2>2. ASSUME NEW e \in owed, IsFor(e, j), GenerateKeyEvent(e.key, e.press),
               NoneFor(inputQueue, j)
        PROVE  j \in physical
    <3>1. e \in KeyEvents /\ e \in InFlight  BY DEF IInv, OwedDefined, InFlight
    <3>2. e.key = j /\ e.press \in BOOLEAN  BY <2>2, <3>1, KeyEventFields, OwnKey
    <3>3. Inject(e.key, e.press)  BY <2>2, <3>2 DEF GenerateKeyEvent
    <3>4. os' = With(os, e.key, e.press)  BY <3>2, <3>3, Delivered
    <3>5. e.press  BY <3>2, <3>4 DEF With
    <3> QED  BY <2>1, <2>2, <3>1, <3>2, <3>5, LastSaid
  <2>3. CASE Settled(j)
    <3>1. ASSUME NEW k, NEW press \in BOOLEAN, GenerateKeyEvent(k, press), j # k
          PROVE  j \in os /\ ~undelivered
      BY <3>1, Delivered DEF GenerateKeyEvent
    <3>2. ASSUME NEW e \in owed
          PROVE  e.key # j /\ e.press \in BOOLEAN
      <4>1. e \in KeyEvents /\ ~IsFor(e, j)  BY <2>3 DEF IInv, OwedDefined, Settled, InFlight
      <4> QED  BY <4>1, KeyEventFields, OwnKey
    <3>3. j \in os /\ ~undelivered  BY <1>3, <3>1, <3>2 DEF Generate
    <3> QED  BY <1>g, <2>1, <2>3, <3>3
  <2> QED  BY <1>k, <2>1, <2>2, <2>3, SettledBefore
           DEF HandleRaw, Take, Lookup, LookupUndefined
<1>4. ASSUME NEW k \in Key, NEW press \in BOOLEAN, HookQueues(k, press), Settled(j)
      PROVE  j \in physical'
  <2>1. /\ ~overtaken /\ ~undelivered /\ j \in os
        /\ inputQueue' = Append(inputQueue, KeyEvent(k, press))
        /\ physical' = With(physical, k, press)
    BY <1>4 DEF HookQueues, Push, history
  <2>2. ~IsFor(KeyEvent(k, press), j)
    BY <2>1, LastAppended DEF Settled, IInv, RestOK, Events
  <2>3. j # k  BY <2>2, EventKeys
  <2> QED  BY <1>g, <1>4, <2>1, <2>3 DEF With
<1>5. ASSUME NEW k \in Key, NEW press \in BOOLEAN, HookBypassed(k, press), Settled(j)
      PROVE  j \in physical'
  <2>1. ~overtaken /\ ~undelivered  BY <1>5 DEF HookBypassed
  <2>2. os' = With(os, k, press) /\ physical' = With(physical, k, press)
    BY <1>5 DEF HookBypassed
  <2> QED  BY <1>g, <1>5, <2>1, <2>2 DEF With
<1>6. CASE /\ Settled(j)
           /\ \/ Enable \/ EnableLogMode \/ ChangeForeground \/ Unlocked
              \/ \E s \in Setting : ScheduleSetting(s) \/ ScheduleAdHocKeySeq(s)
              \/ ForceResync \/ ApplySetting \/ StartAdHoc \/ StartKey \/ EndGenerate
              \/ ResetCounts \/ UNCHANGED vars
  <2>1. UNCHANGED <<overtaken, undelivered, physical, os>>
    BY <1>6 DEF Enable, EnableLogMode, ChangeForeground, Unlocked, ScheduleSetting,
       ScheduleAdHocKeySeq, ForceResync, ApplySetting, StartAdHoc, StartKey, EndGenerate,
       ResetCounts, vars, world, history
  <2> QED  BY <1>g, <1>6, <2>1
<1>7. CASE Settled(j) /\ (ReleaseModifier \/ ResetOnWin32)
  <2>1. PICK k : GenerateKeyEvent(k, FALSE)  BY <1>7 DEF ReleaseModifier, ResetOnWin32
  <2>2. j \in os /\ ~undelivered  BY <2>1, Delivered DEF GenerateKeyEvent
  <2>3. UNCHANGED <<world, overtaken>>  BY <1>7 DEF ReleaseModifier, ResetOnWin32
  <2>4. ~overtaken /\ UNCHANGED physical  BY <2>3 DEF world
  <2> QED  BY <1>g, <1>7, <2>2, <2>4
<1>8. HandleRaw \/ Lookup \/ LookupUndefined \/ Generate \/ Settled(j)
  BY <1>k, SettledBefore
<1> QED  BY <1>1, <1>2, <1>3, <1>4, <1>5, <1>6, <1>7, <1>8 DEF Next, EngineStep

\* What generateKeyEvent() leaves down without a mark was so before, and is not the
\* key it was called for.
LEMMA GenerateFollows ==
  ASSUME IInv, OsFollow, NEW k \in Defined, NEW press \in BOOLEAN,
         GenerateKeyEvent(k, press), ~bypassed, ~undelivered', ~keyLost, ~gained,
         NEW j, j \in os' \ onWin32'
  PROVE  ~undelivered /\ j # k /\ j \in os \ onWin32
<1>1. /\ ~undelivered
      /\ Inject(k, press) => os' = With(os, k, press)
      /\ j # k => j \in os
  BY Delivered DEF GenerateKeyEvent
<1>2. onWin32' = With(onWin32, k, press)  BY DEF GenerateKeyEvent, Mark
<1>3. j # k
  <2> SUFFICES ASSUME j = k PROVE FALSE  OBVIOUS
  <2>1. ~press  BY <1>2 DEF With
  <2>2. ~Inject(k, press)  BY <1>1, <2>1 DEF With
  <2>3. k \notin onWin32 \cup Button /\ os' = os  BY <2>1, <2>2 DEF GenerateKeyEvent
  <2>4. k \in os \ onWin32  BY <2>3
  <2> QED  BY <1>1, <2>3, <2>4 DEF OsFollow
<1>4. j \notin onWin32  BY <1>2, <1>3 DEF With
<1> QED  BY <1>1, <1>3, <1>4

LEMMA StepOs ==
  ASSUME IInv, HandEmpty, EventsAgree, OvertakenBypassed, OsFollow, [Next]_vars
  PROVE  OsFollow'
<1> SUFFICES ASSUME ~bypassed', ~undelivered', ~keyLost', ~gained', NEW j \in os' \ onWin32'
             PROVE  /\ j \in Button
                    /\ j \notin Plain => j \notin Defined' /\ (Settled(j)' => j \in physical')
  BY DEF OsFollow
<1>k. j \in Key  BY StepIInv DEF IInv, RestOK
<1>g. ASSUME ~bypassed, ~undelivered, ~keyLost, ~gained, j \in os \ onWin32
      PROVE  /\ j \in Button
             /\ j \notin Plain => j \notin Defined /\ (Settled(j) => j \in physical)
  BY <1>g DEF OsFollow
<1>1. CASE Lookup
  <2> DEFINE k == event.key
             press == event.press
  <2>1. /\ pc = "lookup" /\ UNCHANGED <<inputQueue, physical, setting>>
        /\ ~bypassed /\ ~keyLost /\ ~gained /\ k \in Defined
    BY <1>1 DEF Lookup, mode, world
  <2>2. event \in KeyEvents /\ Defined' = Defined  BY <2>1 DEF IInv, InHand, Defined
  <2>3. press \in BOOLEAN  BY <2>2, KeyEventFields
  <2>4. j # k => (Settled(j)' => Settled(j))
    <3> SUFFICES ASSUME j # k, Settled(j)' PROVE Settled(j)  OBVIOUS
    <3>1. ~IsFor(event, j)  BY <2>2, OwnKey
    <3> QED  BY <1>k, <2>1, <3>1, SettledBefore DEF HandleRaw, Take, Generate
  <2>5. CASE Mark(k, press) /\ Inject(k, press)
    <3>1. ~undelivered /\ os' = With(os, k, press) /\ onWin32' = With(onWin32, k, press)
      BY <2>3, <2>5, Delivered DEF Mark
    <3>2. j # k /\ j \in os \ onWin32  BY <3>1 DEF With
    <3> QED  BY <1>g, <2>1, <2>2, <2>4, <3>1, <3>2
  <2>6. CASE UNCHANGED <<os, onWin32, undelivered>>
    BY <1>g, <2>1, <2>2, <2>4, <2>6
  <2> QED  BY <1>1, <2>5, <2>6 DEF Lookup
<1>2. CASE LookupUndefined
  <2> DEFINE k == event.key
             press == event.press
  <2>1. /\ pc = "lookup" /\ UNCHANGED <<inputQueue, physical, setting, onWin32>>
        /\ ~bypassed /\ ~overtaken /\ ~keyLost /\ ~gained /\ k \notin Defined
    BY <1>2 DEF LookupUndefined, mode, world, marks, OvertakenBypassed
  <2>2. event \in KeyEvents /\ Defined' = Defined  BY <2>1 DEF IInv, InHand, Defined
  <2>3. press \in BOOLEAN /\ event \in InFlight  BY <2>2, KeyEventFields DEF InFlight
  <2>4. j # k => (Settled(j)' => Settled(j))
    <3> SUFFICES ASSUME j # k, Settled(j)' PROVE Settled(j)  OBVIOUS
    <3>1. ~IsFor(event, j)  BY <2>2, OwnKey
    <3> QED  BY <1>k, <2>1, <3>1, SettledBefore DEF HandleRaw, Take, Generate
  <2>5. CASE k \in Button
    <3>1. Inject(k, press)  BY <1>2, <2>5 DEF LookupUndefined
    <3>2. ~undelivered /\ os' = With(os, k, press)  BY <2>3, <3>1, Delivered
    <3>3. CASE j = k
      <4>1. press  BY <3>2, <3>3 DEF With
      <4>2. Settled(j)' => j \in physical
        BY <2>1, <2>2, <2>3, <3>3, <4>1, LastSaid DEF Settled
      <4> QED  BY <2>1, <2>2, <2>5, <3>3, <4>2
    <3>4. CASE j # k
      <4>1. j \in os \ onWin32  BY <2>1, <3>2, <3>4 DEF With
      <4> QED  BY <1>g, <2>1, <2>2, <2>4, <3>2, <3>4, <4>1
    <3> QED  BY <3>3, <3>4
  <2>6. CASE k \notin Button
    <3>1. UNCHANGED <<os, undelivered>>  BY <1>2, <2>6 DEF LookupUndefined
    <3> QED  BY <1>g, <2>1, <2>2, <2>4, <2>6, <3>1
  <2> QED  BY <2>5, <2>6
<1>3. CASE Generate
  <2>1. /\ pc = "generate" /\ UNCHANGED <<inputQueue, physical, setting>>
        /\ ~bypassed /\ ~keyLost /\ ~gained
    BY <1>3 DEF Generate, mode, world
  <2>2. PICK k \in Defined, press \in BOOLEAN :
          /\ GenerateKeyEvent(k, press)
          /\ \/ UNCHANGED owed
             \/ \E e \in owed : e.key = k /\ owed' = owed \ {e}
    <3>1. \A e \in owed : e.key \in Defined /\ e.press \in BOOLEAN
      BY KeyEventFields DEF IInv, OwedDefined
    <3> QED  BY <1>3, <3>1 DEF Generate
  <2>3. ~undelivered /\ j # k /\ j \in os \ onWin32  BY <2>1, <2>2, GenerateFollows
  <2>4. Settled(j)' => Settled(j)
    <3>1. \A e \in owed : e.key # j => ~IsFor(e, j)
      BY OwnKey DEF IInv, OwedDefined
    <3>2. UNCHANGED event  BY <1>3 DEF Generate
    <3> QED  BY <2>1, <2>2, <2>3, <3>1, <3>2 DEF Settled, InFlight
  <2>5. Defined' = Defined  BY <2>1 DEF Defined
  <2> QED  BY <1>g, <2>1, <2>3, <2>4, <2>5
<1>4. CASE ReleaseModifier \/ ResetOnWin32
  <2>1. PICK k \in onWin32 : GenerateKeyEvent(k, FALSE)
    BY <1>4 DEF ReleaseModifier, ResetOnWin32
  <2>2. k \in Defined  BY DEF IInv, MarksOK
  <2>3. UNCHANGED <<mode, inputQueue, world, event, owed, bypassed, keyLost, gained>>
    BY <1>4 DEF ReleaseModifier, ResetOnWin32, thread
  <2>4. ~undelivered /\ j \in os \ onWin32  BY <2>1, <2>2, <2>3, GenerateFollows
  <2>5. (Settled(j)' => Settled(j)) /\ Defined' = Defined /\ UNCHANGED physical
    BY <2>3 DEF Settled, InFlight, Defined, mode, world
  <2> QED  BY <1>g, <2>3, <2>4, <2>5
<1>5. ASSUME NEW k \in Key, NEW press \in BOOLEAN, HookQueues(k, press)
      PROVE  /\ j \in Button
             /\ j \notin Plain => j \notin Defined' /\ (Settled(j)' => j \in physical')
  <2>1. /\ UNCHANGED <<setting, os, onWin32, event, owed, history>>
        /\ inputQueue' = Append(inputQueue, KeyEvent(k, press))
        /\ physical' = With(physical, k, press)
    BY <1>5 DEF HookQueues, Push, mode, marks, thread
  <2>2. Settled(j)' => Settled(j) /\ j # k
    <3> SUFFICES ASSUME Settled(j)' PROVE Settled(j) /\ j # k  OBVIOUS
    <3>1. NoneFor(inputQueue, j) /\ ~IsFor(KeyEvent(k, press), j)
      BY <2>1, LastAppended DEF Settled, IInv, RestOK, Events
    <3>2. j # k  BY <3>1, EventKeys
    <3> QED  BY <2>1, <3>1, <3>2 DEF Settled, InFlight
  <2>3. Defined' = Defined  BY <2>1 DEF Defined
  <2>4. ~bypassed /\ ~undelivered /\ ~keyLost /\ ~gained /\ j \in os \ onWin32
    BY <2>1 DEF history
  <2> QED  BY <1>g, <2>1, <2>2, <2>3, <2>4 DEF With
<1>6. CASE ApplySetting
  <2>1. /\ UNCHANGED <<physical, os, bypassed, undelivered>>
        /\ setting' \in Setting /\ ~keyLost /\ ~gained /\ onWin32' = onWin32
        /\ (Button \cap os \cap KeysOf[setting']) \ (Plain \cup Defined) = {}
    BY <1>6, TakeOK DEF ApplySetting, world, IInv, RestOK
  <2>2. Defined' = KeysOf[setting']  BY <2>1, KeysAssumption DEF Defined
  <2>3. Settled(j)' => Settled(j)
    BY <1>6, <1>k, SettledBefore
       DEF ApplySetting, Take, HandleRaw, Lookup, LookupUndefined, Generate
  <2> QED  BY <1>g, <2>1, <2>2, <2>3
<1>7. CASE \/ Enable \/ EnableLogMode \/ ChangeForeground \/ Unlocked
           \/ \E s \in Setting : ScheduleSetting(s) \/ ScheduleAdHocKeySeq(s)
           \/ ForceResync \/ StartAdHoc \/ StartKey \/ EndGenerate \/ ResetCounts
           \/ UNCHANGED vars
  <2>1. UNCHANGED <<setting, physical, os, onWin32, history>>
    BY <1>7 DEF Enable, EnableLogMode, ChangeForeground, Unlocked, ScheduleSetting,
       ScheduleAdHocKeySeq, ForceResync, StartAdHoc, StartKey, Resync, EndGenerate,
       ResetCounts, vars, mode, world, marks
  <2>2. /\ ~bypassed /\ ~undelivered /\ ~keyLost /\ ~gained /\ j \in os \ onWin32
        /\ Defined' = Defined
    BY <2>1 DEF history, Defined
  <2>3. ~Lookup /\ ~LookupUndefined /\ ~Generate /\ ~HandleRaw => (Settled(j)' => Settled(j))
    BY <1>k, SettledBefore
  <2> QED  BY <1>g, <1>1, <1>2, <1>3, <2>1, <2>2, <2>3 DEF HandleRaw
<1> QED  BY <1>1, <1>2, <1>3, <1>4, <1>5, <1>6, <1>7
         DEF Next, EngineStep, HookBypassed, HandleRaw

-----------------------------------------------------------------------------
LEMMA InitFollows == Init => Follows
<1> SUFFICES ASSUME Init PROVE Follows  OBVIOUS
<1>1. Len(inputQueue) = 0 /\ \A k : ~IsFor(event, k)  BY EventKeys DEF Init
<1>2. InFlight = {NoEvent}  BY DEF Init, InFlight
<1>3. EventsAgree  BY <1>1, <1>2, EventKeys DEF EventsAgree, Agrees
<1> QED  BY <1>3 DEF Init, Follows, HandEmpty, OvertakenBypassed, PressedFollow,
                     ButtonsFollow, OsFollow

\* What the engine believes and what the applications see follow the hardware up to
\* the events still on their way.
THEOREM Following == Spec => [](IInv /\ Follows)
<1>1. IInv /\ Follows /\ [Next]_vars => IInv' /\ Follows'
  BY StepIInv, StepHandEmpty, StepAgree, StepOvertaken, StepPressed, StepButtons, StepOs
     DEF Follows
<1> QED  BY InitIInv, InitFollows, <1>1, PTL DEF Spec

\* With the queue empty and nothing in hand every key is settled.
LEMMA AllSettled ==
  ASSUME IInv, HandEmpty, pc = "boundary", inputQueue = <<>>
  PROVE  \A k : Settled(k) /\ NoneFor(inputQueue, k) /\ ~IsFor(event, k)
<1>1. Len(inputQueue) = 0  OBVIOUS
<1> QED  BY <1>1, NothingInFlight DEF Settled, NoneFor

\* Once the last key is up and its release was handled, nothing is marked and nothing
\* is down for the applications: resyncs, log mode, reloads that keep the marked keys
\* and every key sequence of the user lead back to rest.
THEOREM AtRest == Spec => []NothingStuck
<1>1. IInv /\ Follows => NothingStuck
  <2> SUFFICES ASSUME IInv, Follows, pc = "boundary", inputQueue = <<>>, physical = {},
                      ~bypassed, ~undelivered, ~keyLost, ~gained
               PROVE  pressed = {} /\ onWin32 = {} /\ os = {}
    BY DEF NothingStuck
  <2>1. \A k : Settled(k) /\ NoneFor(inputQueue, k) /\ ~IsFor(event, k)
    BY AllSettled DEF Follows
  <2>2. pressed = {}  BY <2>1 DEF Follows, PressedFollow
  <2>3. pressCount = 0
    BY <2>2, FS_EmptySet DEF IInv, MarksOK, CountsExact
  <2>4. onWin32 = {}  BY <2>3 DEF IInv, IdleHoldsNothing
  <2>5. ~overtaken  BY DEF Follows, OvertakenBypassed
  <2>6. ASSUME NEW k \in os PROVE FALSE
    <3>1. k \in Button /\ (k \notin Plain => k \in physical)
      BY <2>1, <2>4, <2>6 DEF Follows, OsFollow
    <3>2. k \in Plain => k \in physical  BY <2>1, <2>5, <2>6, <3>1 DEF Follows, ButtonsFollow
    <3> QED  BY <3>1, <3>2
  <2> QED  BY <2>2, <2>4, <2>6
<1> QED  BY <1>1, Following, PTL

\* A plain mouse button is never left down for the applications, whatever was
\* switched, reloaded or passed by between its press and its release.
THEOREM ButtonsUp == Spec => []ButtonsReleased
<1>1. IInv /\ Follows => ButtonsReleased
  BY AllSettled DEF Follows, ButtonsFollow, ButtonsReleased
<1> QED  BY <1>1, Following, PTL
=============================================================================
