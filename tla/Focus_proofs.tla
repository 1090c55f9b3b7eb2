---------------------------- MODULE Focus_proofs ----------------------------
(***************************************************************************)
(* Proofs about the focus tracking, for every set of threads and windows   *)
(* and every bound.                                                        *)
(***************************************************************************)
EXTENDS Focus, TLAPS

DesktopType ==
    /\ fore \in Threads \cup {Nothing}
    /\ focus \in Windows \cup {Nothing}
    /\ alive \subseteq Hooked /\ inMenu \subseteq Hooked
    /\ reborn \subseteq Hooked
    /\ reported \in [Hooked -> Windows \cup {Nothing}]
    /\ ends \in 0..MaxEnds

MailType == mail \in Seq(Messages) /\ Len(mail) <= MaxMail

EntryType ==
    /\ DOMAIN entries \subseteq Threads
    /\ \A t \in DOMAIN entries :
          entries[t] \in FocusOfThreads
    /\ detached \subseteq Hooked
    /\ taken \subseteq Hooked

EngineType ==
    /\ setting \in 0..MaxSetting
    /\ isSync = (pc = "sync")
    /\ current \in Threads \cup {Global, Nothing}
    /\ erased \in FocusOfThreads \cup {Nothing}
    /\ hwndFocus \in Windows \cup {Nothing}
    /\ keymap \in Keymaps
    /\ pc \in {"idle", "look", "unlocked", "global", "event", "sync", "crashed"}
    /\ seen \in Threads \cup {Nothing}
    /\ again \in BOOLEAN

\* A thread reports its own windows only, and the focus is one of them.
OwnFocus == focus # Nothing => fore \in Hooked /\ Owner[focus] = fore
OwnReports ==
    \A t \in Hooked : reported[t] # Nothing => Owner[reported[t]] = t
OwnMail ==
    \A i \in 1..Len(mail) :
        mail[i].type = "setFocus" => Owner[mail[i].face.hwnd] = mail[i].thread
OwnEntries ==
    \A t \in DOMAIN entries : Owner[entries[t].face.hwnd] = t

\* The newest message of a thread that has a focus window names that window;
\* once there is none left, and it was taken in, the entry does.
Newest(t, i) ==
    /\ mail[i].thread = t
    /\ \A j \in 1..Len(mail) : j > i => mail[j].thread # t
InMail(t) ==
    \A i \in 1..Len(mail) :
        Newest(t, i) => /\ mail[i].type = "setFocus"
                        /\ mail[i].face.hwnd = reported[t]
InEntry(t) ==
    t \in taken /\ (\A i \in 1..Len(mail) : mail[i].thread # t) =>
        /\ t \in DOMAIN entries \ detached
        /\ entries[t].face.hwnd = reported[t]
Tracked ==
    \A t \in Hooked : reported[t] # Nothing => InMail(t) /\ InEntry(t)

\* Before the first Setting there is no keymap; with one, whatever an event
\* may find as its keymap is there.
NoSettingNoKeymap ==
    setting = 0 => /\ keymap = Nothing
                   /\ \A t \in DOMAIN entries : entries[t].keymap = Nothing
SettingHasFocus == setting # 0 => current # Nothing
WindowHasKeymap ==
    setting # 0 /\ keymap # Nothing /\ hwndFocus # Nothing =>
        \A t \in DOMAIN entries :
            entries[t].face.hwnd = hwndFocus => entries[t].keymap # Nothing
ErasedHasKeymap ==
    erased # Nothing =>
        /\ erased.keymap # Nothing => erased.keymap.setting = setting
        /\ (setting # 0 /\ keymap # Nothing /\ hwndFocus # Nothing
              /\ erased.face.hwnd = hwndFocus) => erased.keymap # Nothing
EventHasKeymap ==
    (pc \in {"event", "sync"} /\ Ready /\ current \in Threads) =>
        Pointed.keymap # Nothing
\* A thread whose end was reported runs only if its id was used again.
Ended(t) == t \in alive => t \in reborn
EndsReported ==
    /\ fore \in Hooked => fore \in alive
    /\ \A t \in detached : Ended(t)
    /\ \A i \in 1..Len(mail) :
          mail[i].type = "threadDetach" => Ended(mail[i].thread)

\* m_currentFocusOfThread dangles only after the thread it was of has ended,
\* and gets past checkFocusWindow only if that thread's id was used again.
PointerInv ==
    /\ erased = Nothing /\ current \in Threads => current \in DOMAIN entries
    /\ erased # Nothing =>
          /\ current \in Hooked /\ Ended(current)
          /\ pc = "look" /\ seen = current => current \in reborn
          /\ pc \in {"idle", "event", "sync"} => current \in reborn
          /\ pc \in {"event", "sync"} => seen = current
SyncIsReady == pc = "sync" => Ready

DesktopInv == DesktopType /\ OwnFocus /\ OwnReports
MailInv == MailType /\ OwnMail
EntryInv == EntryType /\ OwnEntries
KeymapInv ==
    /\ KeymapsOfThisSetting /\ NoSettingNoKeymap /\ SettingHasFocus
    /\ WindowHasKeymap /\ ErasedHasKeymap /\ EventHasKeymap /\ SyncIsReady

IInv == /\ DesktopInv /\ MailInv /\ EntryInv /\ EngineType
        /\ Tracked /\ EndsReported /\ PointerInv /\ KeymapInv

-----------------------------------------------------------------------------
(* Messages, faces and keymaps *)

LEMMA MessageFields ==
    ASSUME NEW m \in Messages
    PROVE  /\ m.thread \in Hooked
           /\ m.type \in {"setFocus", "threadDetach"}
           /\ m.type = "setFocus" => m.face \in Faces
BY DEF Messages

LEMMA NewMessages ==
    ASSUME NEW t \in Hooked, NEW w \in Windows, NEW m \in BOOLEAN
    PROVE  /\ [type |-> "setFocus", thread |-> t, face |-> Face(w, m)]
                  \in Messages
           /\ [type |-> "threadDetach", thread |-> t] \in Messages
BY DEF Messages, Face, Faces

LEMMA KeymapIsThere ==
    ASSUME NEW s \in 1..MaxSetting, NEW f \in Faces \cup {Global}
    PROVE  /\ [of |-> f, setting |-> s] \in Keymaps
           /\ [of |-> f, setting |-> s] # Nothing
BY BoundsAssumption DEF Keymaps, Faces

LEMMA InitInv == Init => IInv
<1> SUFFICES ASSUME Init PROVE IInv  OBVIOUS
<1> USE DEF Init
<1>1. DesktopInv
  BY BoundsAssumption DEF DesktopInv, DesktopType, OwnFocus, OwnReports
<1>2. MailInv  BY BoundsAssumption DEF MailInv, MailType, OwnMail
<1>3. EntryInv  BY DEF EntryInv, EntryType, OwnEntries
<1>4. EngineType
  <2>1. 0 \in 0..MaxSetting /\ Nothing \in Keymaps
    BY BoundsAssumption DEF Keymaps
  <2>2. isSync = (pc = "sync")  BY Zenon
  <2> QED  BY <2>1, <2>2 DEF EngineType
<1>5. Tracked  BY DEF Tracked
<1>6. KeymapInv
  BY DEF KeymapInv, KeymapsOfThisSetting, NoSettingNoKeymap, SettingHasFocus,
         WindowHasKeymap, ErasedHasKeymap, EventHasKeymap, SyncIsReady
<1>7. EndsReported /\ PointerInv
  BY BoundsAssumption DEF EndsReported, PointerInv, Threads
<1> QED  BY <1>1, <1>2, <1>3, <1>4, <1>5, <1>6, <1>7 DEF IInv

-----------------------------------------------------------------------------
(* The desktop: the engine's variables stay, the mail may grow. *)

LEMMA NotifySetFocusKeeps ==
    ASSUME IInv, NEW t \in Hooked, NEW w \in Windows \cup {Nothing},
           NEW m \in BOOLEAN, NEW force \in BOOLEAN,
           w # Nothing => Owner[w] = t,
           NotifySetFocus(t, w, m, force), UNCHANGED <<entryVars, taken>>
    PROVE  /\ reported' \in [Hooked -> Windows \cup {Nothing}]
           /\ OwnReports' /\ MailInv' /\ Tracked'
<1> USE DEF IInv, DesktopInv, DesktopType
<1>1. CASE UNCHANGED <<reported, mail>>
  BY <1>1 DEF OwnReports, MailInv, MailType, OwnMail, Tracked, InMail,
              InEntry, Newest, entryVars
<1>2. CASE /\ reported' = [reported EXCEPT ![t] = w]
           /\ w = Nothing /\ UNCHANGED mail
  <2>1. /\ reported' \in [Hooked -> Windows \cup {Nothing}]
        /\ OwnReports' /\ MailInv'
    BY <1>2 DEF OwnReports, MailInv, MailType, OwnMail
  <2>2. Tracked'
    BY <1>2 DEF Tracked, InMail, InEntry, Newest, entryVars
  <2> QED  BY <2>1, <2>2
<1>3. CASE /\ reported' = [reported EXCEPT ![t] = w]
           /\ w # Nothing /\ Report(t, w, m)
  <2> DEFINE msg == [type |-> "setFocus", thread |-> t, face |-> Face(w, m)]
  <2>1. msg \in Messages /\ msg.type = "setFocus" /\ msg.thread = t
        /\ msg.face.hwnd = w /\ Owner[w] = t
    BY <1>3, NewMessages DEF Face
  <2>2. /\ mail' = Append(mail, msg) /\ Len(mail) < MaxMail
        /\ mail \in Seq(Messages)
    BY <1>3 DEF Report, Notify, MailInv, MailType
  <2> HIDE DEF msg
  <2>3. /\ Len(mail') = Len(mail) + 1
        /\ \A i \in 1..Len(mail) : mail'[i] = mail[i]
        /\ mail'[Len(mail')] = msg /\ mail' \in Seq(Messages)
    BY <2>1, <2>2
  <2>4. reported' \in [Hooked -> Windows \cup {Nothing}] /\ OwnReports'
    BY <1>3 DEF OwnReports
  <2>5. MailInv'
    BY <2>1, <2>2, <2>3, BoundsAssumption DEF MailInv, MailType, OwnMail
  <2>6. ASSUME NEW u \in Hooked, reported'[u] # Nothing
        PROVE  InMail(u)' /\ InEntry(u)'
    <3>1. CASE u = t
      <4>1. reported'[u] = w  BY <1>3, <3>1
      <4> QED  BY <2>1, <2>2, <2>3, <3>1, <4>1 DEF InMail, InEntry, Newest
    <3>2. CASE u # t
      <4>1. reported'[u] = reported[u] /\ InMail(u) /\ InEntry(u)
        BY <1>3, <2>6, <3>2 DEF Tracked
      <4>2. ASSUME NEW i \in 1..Len(mail'), Newest(u, i)'
            PROVE  i \in 1..Len(mail) /\ Newest(u, i) /\ mail'[i] = mail[i]
        BY <2>1, <2>2, <2>3, <3>2, <4>2 DEF Newest
      <4>3. InMail(u)'  BY <4>1, <4>2 DEF InMail
      <4>4. InEntry(u)'
        BY <2>2, <2>3, <4>1 DEF InEntry, entryVars
      <4> QED  BY <4>3, <4>4
    <3> QED  BY <3>1, <3>2
  <2> QED  BY <2>4, <2>5, <2>6 DEF Tracked
<1> QED  BY <1>1, <1>2, <1>3 DEF NotifySetFocus

LEMMA EngineIdle ==
    ASSUME IInv, UNCHANGED engineState
    PROVE  EntryInv' /\ EngineType' /\ KeymapInv'
<1> USE DEF IInv, engineState, entryVars, pointerVars, engineVars, roundVars
<1>1. EntryInv'  BY DEF EntryInv, EntryType, OwnEntries
<1>2. EngineType'  BY DEF EngineType
<1>3. KeymapInv'
  BY DEF KeymapInv, KeymapsOfThisSetting, NoSettingNoKeymap, SettingHasFocus,
         WindowHasKeymap, ErasedHasKeymap, EventHasKeymap, SyncIsReady, Ready,
         Pointed
<1> QED  BY <1>1, <1>2, <1>3

\* A thread that has ended stays so, or its id is used again.
LEMMA DesktopEnds ==
    ASSUME IInv, Desktop, DesktopType'
    PROVE  EndsReported' /\ PointerInv'
<1> USE DEF IInv, DesktopInv, DesktopType
<1>1. UNCHANGED engineState
  BY DEF Desktop, Activate, TakeFocus, MenuLoop, ThreadEnds, ThreadStarts
<1>2. reborn \subseteq reborn'
      /\ \A u \in Hooked : u \in alive' => u \in alive \/ u \in reborn'
  BY DEF Desktop, Activate, TakeFocus, MenuLoop, ThreadEnds, ThreadStarts
<1>3. \A u \in Hooked : Ended(u) => Ended(u)'  BY <1>2 DEF Ended
<1>4. PointerInv'
  BY <1>1, <1>2, <1>3
  DEF PointerInv, engineState, entryVars, pointerVars, roundVars
<1>5. fore' \in Hooked => fore' \in alive'
  <2>1. fore \in Hooked => fore \in alive  BY DEF EndsReported
  <2>2. ASSUME NEW t \in Threads \cup {Nothing}, Activate(t)
        PROVE  fore' \in Hooked => fore' \in alive'
    BY <2>2 DEF Activate
  <2>3. ASSUME NEW t \in Hooked, ThreadEnds(t) \/ ThreadStarts(t)
        PROVE  fore' \in Hooked => fore' \in alive'
    BY <2>1, <2>3, BoundsAssumption DEF ThreadEnds, ThreadStarts
  <2>4. ASSUME NEW w \in Windows, TakeFocus(w)
        PROVE  fore' \in Hooked => fore' \in alive'
    BY <2>1, <2>4 DEF TakeFocus
  <2>5. ASSUME NEW m \in BOOLEAN, MenuLoop(m)
        PROVE  fore' \in Hooked => fore' \in alive'
    BY <2>1, <2>5 DEF MenuLoop
  <2> QED  BY <2>2, <2>3, <2>4, <2>5 DEF Desktop
<1>6. \A t \in detached' : Ended(t)'
  BY <1>1, <1>3 DEF EndsReported, EntryInv, EntryType, engineState, entryVars
<1>7. ASSUME NEW i \in 1..Len(mail'), mail'[i].type = "threadDetach"
      PROVE  Ended(mail[i].thread)'
  <2>0. mail \in Seq(Messages) /\ \A j \in 1..Len(mail) :
          mail[j].type = "threadDetach" =>
              mail[j].thread \in Hooked /\ Ended(mail[j].thread)
    <3>1. mail \in Seq(Messages)  BY DEF MailInv, MailType
    <3>2. \A j \in 1..Len(mail) : mail[j] \in Messages  BY <3>1
    <3> QED  BY <3>1, <3>2, MessageFields DEF EndsReported
  <2>1. \/ UNCHANGED mail
        \/ \E m : mail' = Append(mail, m) /\ m.type = "setFocus"
        \/ \E t \in Hooked :
              /\ ThreadEnds(t)
              /\ mail' = Append(mail, [type |-> "threadDetach", thread |-> t])
    <3>1. ASSUME NEW t, NEW w, NEW m, NEW force, NotifySetFocus(t, w, m, force)
          PROVE  UNCHANGED mail \/ \E n : mail' = Append(mail, n)
                                          /\ n.type = "setFocus"
      BY <3>1 DEF NotifySetFocus, Report, Notify
    <3>2. ASSUME NEW t \in Threads \cup {Nothing}, Activate(t)
          PROVE  UNCHANGED mail \/ \E n : mail' = Append(mail, n)
                                          /\ n.type = "setFocus"
      BY <3>1, <3>2 DEF Activate
    <3>3. ASSUME NEW w \in Windows, TakeFocus(w)
          PROVE  UNCHANGED mail \/ \E n : mail' = Append(mail, n)
                                          /\ n.type = "setFocus"
      BY <3>1, <3>3 DEF TakeFocus
    <3>4. ASSUME NEW m \in BOOLEAN, MenuLoop(m)
          PROVE  UNCHANGED mail \/ \E n : mail' = Append(mail, n)
                                          /\ n.type = "setFocus"
      BY <3>1, <3>4 DEF MenuLoop
    <3>5. ASSUME NEW t \in Hooked, ThreadEnds(t)
          PROVE  mail' = Append(mail, [type |-> "threadDetach", thread |-> t])
      BY <3>5 DEF ThreadEnds, Notify
    <3>6. ASSUME NEW t \in Hooked, ThreadStarts(t)  PROVE UNCHANGED mail
      BY <3>6 DEF ThreadStarts
    <3> QED  BY <3>2, <3>3, <3>4, <3>5, <3>6 DEF Desktop
  <2>2. CASE UNCHANGED mail  BY <1>3, <1>7, <2>0, <2>2
  <2>3. CASE \E m : mail' = Append(mail, m) /\ m.type = "setFocus"
    <3>1. PICK m : mail' = Append(mail, m) /\ m.type = "setFocus"  BY <2>3
    <3>2. i \in 1..Len(mail) /\ mail'[i] = mail[i]
      BY <1>7, <2>0, <3>1
    <3> QED  BY <1>3, <1>7, <2>0, <3>2
  <2>4. CASE \E t \in Hooked :
               /\ ThreadEnds(t)
               /\ mail' = Append(mail, [type |-> "threadDetach", thread |-> t])
    <3>1. PICK t \in Hooked :
               /\ ThreadEnds(t)
               /\ mail' = Append(mail, [type |-> "threadDetach", thread |-> t])
      BY <2>4
    <3>2. Ended(t)'  BY <3>1 DEF ThreadEnds, Ended
    <3>3. \/ i \in 1..Len(mail) /\ mail'[i] = mail[i]
          \/ mail'[i].thread = t
      BY <2>0, <3>1
    <3> QED  BY <1>3, <1>7, <2>0, <3>2, <3>3
  <2> QED  BY <2>1, <2>2, <2>3, <2>4
<1> QED  BY <1>4, <1>5, <1>6, <1>7 DEF EndsReported

LEMMA DesktopKeeps == IInv /\ Desktop => IInv'
<1> SUFFICES ASSUME IInv, Desktop PROVE IInv'  OBVIOUS
<1> USE DEF IInv, DesktopInv, DesktopType
<1>0. UNCHANGED engineState
  BY DEF Desktop, Activate, TakeFocus, MenuLoop, ThreadEnds, ThreadStarts
<1>a. EntryInv' /\ EngineType' /\ KeymapInv'  BY <1>0, EngineIdle
<1>b. UNCHANGED <<entryVars, taken>>  BY <1>0 DEF engineState
<1>c. DesktopType' => EndsReported' /\ PointerInv'  BY DesktopEnds
<1>1. ASSUME NEW t \in Threads \cup {Nothing}, Activate(t) PROVE IInv'
  <2>1. DesktopType' /\ OwnFocus' /\ OwnReports' /\ MailInv' /\ Tracked'
    <3>1. CASE UNCHANGED <<reported, mail>>
      BY <1>1, <1>b, <3>1 DEF Activate, OwnFocus, OwnReports, MailInv,
         MailType, OwnMail, Tracked, InMail, InEntry, Newest, entryVars
    <3>2. CASE t \in Hooked /\ NotifySetFocus(t, Nothing, t \in inMenu, FALSE)
      <4>1. /\ reported' \in [Hooked -> Windows \cup {Nothing}]
            /\ OwnReports' /\ MailInv' /\ Tracked'
        <5> DEFINE m == t \in inMenu
        <5>1. m \in BOOLEAN  OBVIOUS
        <5>2. NotifySetFocus(t, Nothing, m, FALSE)  BY <3>2
        <5> HIDE DEF m
        <5> QED  BY <1>b, <3>2, <5>1, <5>2, NotifySetFocusKeeps
      <4> QED  BY <1>1, <4>1 DEF Activate, OwnFocus
    <3> QED  BY <1>1, <3>1, <3>2 DEF Activate
  <2> QED  BY <1>a, <1>c, <2>1
<1>2. ASSUME NEW w \in Windows, TakeFocus(w) PROVE IInv'
  <2>1. fore \in Hooked /\ Owner[w] = fore /\ w # Nothing
    BY <1>2, BoundsAssumption DEF TakeFocus
  <2>2. /\ reported' \in [Hooked -> Windows \cup {Nothing}]
        /\ OwnReports' /\ MailInv' /\ Tracked'
    BY <1>2, <1>b, <2>1, NotifySetFocusKeeps DEF TakeFocus
  <2>3. DesktopType' /\ OwnFocus'
    BY <1>2, <2>1, <2>2 DEF TakeFocus, OwnFocus
  <2> QED  BY <1>a, <1>c, <2>2, <2>3
<1>3. ASSUME NEW m \in BOOLEAN, MenuLoop(m) PROVE IInv'
  <2>1. fore \in Hooked /\ (focus # Nothing => Owner[focus] = fore)
    BY <1>3, BoundsAssumption DEF MenuLoop, OwnFocus
  <2>2. /\ reported' \in [Hooked -> Windows \cup {Nothing}]
        /\ OwnReports' /\ MailInv' /\ Tracked'
    BY <1>3, <1>b, <2>1, NotifySetFocusKeeps DEF MenuLoop
  <2>3. DesktopType' /\ OwnFocus'
    BY <1>3, <2>1, <2>2 DEF MenuLoop, OwnFocus
  <2> QED  BY <1>a, <1>c, <2>2, <2>3
<1>4. ASSUME NEW t \in Hooked, ThreadEnds(t) PROVE IInv'
  <2> DEFINE msg == [type |-> "threadDetach", thread |-> t]
  <2>1. msg \in Messages /\ msg.type = "threadDetach" /\ msg.thread = t
    BY DEF Messages
  <2>2. /\ mail' = Append(mail, msg) /\ Len(mail) < MaxMail
        /\ mail \in Seq(Messages)
    BY <1>4 DEF ThreadEnds, Notify, MailInv, MailType
  <2> HIDE DEF msg
  <2>3. /\ Len(mail') = Len(mail) + 1
        /\ \A i \in 1..Len(mail) : mail'[i] = mail[i]
        /\ mail'[Len(mail')] = msg /\ mail' \in Seq(Messages)
    BY <2>1, <2>2
  <2>4. DesktopType' /\ OwnFocus' /\ OwnReports'
    <3>1. ends' \in 0..MaxEnds
      BY <1>4, BoundsAssumption DEF ThreadEnds
    <3> QED  BY <1>4, <3>1 DEF ThreadEnds, OwnFocus, OwnReports
  <2>5. MailInv'
    BY <2>1, <2>2, <2>3, BoundsAssumption DEF MailInv, MailType, OwnMail
  <2>6. ASSUME NEW u \in Hooked, reported'[u] # Nothing
        PROVE  InMail(u)' /\ InEntry(u)'
    <3>1. u # t /\ reported'[u] = reported[u]
      BY <1>4, <2>6 DEF ThreadEnds
    <3>2. InMail(u) /\ InEntry(u)  BY <2>6, <3>1 DEF Tracked
    <3>3. ASSUME NEW i \in 1..Len(mail'), Newest(u, i)'
          PROVE  i \in 1..Len(mail) /\ Newest(u, i) /\ mail'[i] = mail[i]
      BY <2>1, <2>2, <2>3, <3>1, <3>3 DEF Newest
    <3>4. InMail(u)'  BY <3>1, <3>2, <3>3 DEF InMail
    <3>5. InEntry(u)'
      BY <1>b, <2>2, <2>3, <3>1, <3>2 DEF InEntry, entryVars
    <3> QED  BY <3>4, <3>5
  <2>7. Tracked'  BY <2>6 DEF Tracked
  <2> QED  BY <1>a, <1>c, <2>4, <2>5, <2>7
<1>5. ASSUME NEW t \in Hooked, ThreadStarts(t) PROVE IInv'
  BY <1>5, <1>a, <1>b, <1>c DEF ThreadStarts, OwnFocus, OwnReports, MailInv,
     MailType, OwnMail, Tracked, InMail, InEntry, Newest, entryVars
<1> QED  BY <1>1, <1>2, <1>3, <1>4, <1>5 DEF Desktop

-----------------------------------------------------------------------------
(* What setFocus leaves in the entries. *)

LEMMA SetFocusEntries ==
    ASSUME IInv, NEW t \in Threads, NEW face \in Faces,
           Owner[face.hwnd] = t, SetFocus(t, face)
    PROVE  /\ DOMAIN entries \subseteq DOMAIN entries'
           /\ DOMAIN entries' \subseteq Threads
           /\ detached' \subseteq detached
           /\ \A u \in DOMAIN entries' :
                 /\ entries'[u] \in FocusOfThreads
                 /\ Owner[entries'[u].face.hwnd] = u
                 /\ u # t => u \in DOMAIN entries
                 /\ \/ u \in DOMAIN entries /\ entries'[u] = entries[u]
                    \/ /\ u = t /\ setting = 0
                       /\ entries'[u].keymap = Nothing
                    \/ /\ u = t /\ setting # 0
                       /\ entries'[u].keymap # Nothing
                       /\ entries'[u].keymap.setting = setting
           /\ ~isSync => /\ t \in DOMAIN entries' \ detached'
                         /\ entries'[t].face = face
           /\ \/ UNCHANGED pointerVars
              \/ /\ current' = t /\ erased' = Nothing /\ ~isSync
                 /\ t \in DOMAIN entries' /\ t \notin DOMAIN entries
<1> DEFINE fresh == [face |-> face, keymap |-> KeymapFor(face)]
<1>0. EntryInv /\ setting \in 0..MaxSetting  BY DEF IInv, EngineType
<1>1. /\ fresh \in FocusOfThreads
      /\ fresh.face = face
      /\ setting = 0 => fresh.keymap = Nothing
      /\ setting # 0 => fresh.keymap # Nothing
                        /\ fresh.keymap.setting = setting
  <2>1. CASE setting = 0  BY <2>1 DEF KeymapFor, Keymaps, FocusOfThreads
  <2>2. CASE setting # 0
    <3>1. setting \in 1..MaxSetting  BY <1>0, <2>2, BoundsAssumption
    <3> QED  BY <2>2, <3>1, KeymapIsThere DEF KeymapFor, Lookup, FocusOfThreads
  <2> QED  BY <2>1, <2>2
<1> HIDE DEF fresh
<1>2. CASE isSync
  BY <1>0, <1>2
  DEF SetFocus, entryVars, pointerVars, EntryInv, EntryType, OwnEntries
<1>3. CASE ~isSync /\ t \in DOMAIN entries /\ entries[t].face = face
  BY <1>0, <1>3
  DEF SetFocus, Recorded, Allocated, pointerVars, EntryInv, EntryType,
      OwnEntries
<1>4. CASE ~isSync /\ ~(t \in DOMAIN entries /\ entries[t].face = face)
  <2>1. /\ entries' = [u \in DOMAIN entries \cup {t} |->
                          IF u = t THEN fresh ELSE entries[u]]
        /\ detached' = detached \ {t}
    BY <1>4 DEF SetFocus, Recorded, Entered, fresh
  <2>2. DOMAIN entries' = DOMAIN entries \cup {t} /\ entries'[t] = fresh
    BY <2>1
  <2>3. \A u \in DOMAIN entries : u # t => entries'[u] = entries[u]
    BY <2>1
  <2>4. \A u \in DOMAIN entries :
           /\ entries[u] \in FocusOfThreads
           /\ Owner[entries[u].face.hwnd] = u
    BY <1>0 DEF EntryInv, EntryType, OwnEntries
  <2>5. DOMAIN entries \subseteq Threads  BY <1>0 DEF EntryInv, EntryType
  <2>6. \/ UNCHANGED pointerVars
        \/ current' = t /\ erased' = Nothing /\ t \notin DOMAIN entries
    BY <1>4 DEF SetFocus, Allocated
  <2> QED  BY <1>1, <1>4, <2>1, <2>2, <2>3, <2>4, <2>5, <2>6
<1> QED  BY <1>2, <1>3, <1>4

\* KeymapInv needs of the entries only what SetFocusEntries says of them.
LEMMA SetFocusKeymaps ==
    ASSUME IInv, NEW t \in Threads, NEW face \in Faces,
           Owner[face.hwnd] = t, SetFocus(t, face), UNCHANGED engineVars
    PROVE  /\ KeymapsOfThisSetting' /\ NoSettingNoKeymap'
           /\ SettingHasFocus' /\ WindowHasKeymap' /\ ErasedHasKeymap'
           /\ UNCHANGED pc => EventHasKeymap' /\ SyncIsReady'
<1> DEFINE Same(u) == u \in DOMAIN entries /\ entries'[u] = entries[u]
<1>1. \A u \in DOMAIN entries' :
         \/ Same(u)
         \/ u = t /\ setting = 0 /\ entries'[u].keymap = Nothing
         \/ /\ u = t /\ setting # 0 /\ entries'[u].keymap # Nothing
            /\ entries'[u].keymap.setting = setting
  BY SetFocusEntries
<1>2. DOMAIN entries \subseteq DOMAIN entries'  BY SetFocusEntries
<1>3. UNCHANGED <<setting, isSync, hwndFocus, keymap>>
  BY DEF engineVars
<1>a. \/ UNCHANGED <<current, erased>>
      \/ /\ current' = t /\ erased' = Nothing /\ ~isSync
         /\ t \in DOMAIN entries' /\ t \notin DOMAIN entries
  BY SetFocusEntries DEF pointerVars
<1>b. t # Nothing  BY BoundsAssumption DEF Threads
<1> USE DEF IInv, KeymapInv
<1>4. KeymapsOfThisSetting'
  <2> SUFFICES ASSUME NEW u \in DOMAIN entries', entries'[u].keymap # Nothing
               PROVE  entries'[u].keymap.setting = setting
    BY <1>3 DEF KeymapsOfThisSetting
  <2> QED  BY <1>1 DEF KeymapsOfThisSetting
<1>5. NoSettingNoKeymap'  BY <1>1, <1>3 DEF NoSettingNoKeymap
<1>6. SettingHasFocus'  BY <1>3, <1>a, <1>b DEF SettingHasFocus
<1>7. WindowHasKeymap'  BY <1>1, <1>3 DEF WindowHasKeymap
<1>8. ErasedHasKeymap'  BY <1>3, <1>a DEF ErasedHasKeymap
<1>9. ASSUME UNCHANGED pc  PROVE EventHasKeymap' /\ SyncIsReady'
  <2>1. EventHasKeymap'
    <3> SUFFICES ASSUME pc \in {"event", "sync"}, setting # 0,
                        keymap # Nothing, current' \in Threads
                 PROVE  Pointed'.keymap # Nothing
      BY <1>3, <1>9 DEF EventHasKeymap, Ready
    <3>1. CASE UNCHANGED <<current, erased>>
      <4>1. Pointed.keymap # Nothing
        <5>1. current # Nothing  BY <3>1, BoundsAssumption DEF Threads
        <5> QED  BY <3>1, <5>1 DEF EventHasKeymap, Ready
      <4>2. CASE erased # Nothing  BY <3>1, <4>1, <4>2 DEF Pointed
      <4>3. CASE erased = Nothing
        <5>1. current \in DOMAIN entries  BY <3>1, <4>3 DEF PointerInv
        <5> QED  BY <1>1, <1>2, <3>1, <4>1, <4>3, <5>1 DEF Pointed
      <4> QED  BY <4>2, <4>3
    <3>2. CASE /\ current' = t /\ erased' = Nothing
               /\ t \in DOMAIN entries' /\ t \notin DOMAIN entries
      BY <1>1, <3>2 DEF Pointed
    <3> QED  BY <1>a, <3>1, <3>2
  <2>2. SyncIsReady'  BY <1>3, <1>6, <1>9 DEF SyncIsReady, Ready, SettingHasFocus
  <2> QED  BY <2>1, <2>2
<1> QED  BY <1>4, <1>5, <1>6, <1>7, <1>8, <1>9

\* The pointer stays as it was, or the new entry is put under it.
LEMMA SetFocusPointer ==
    ASSUME IInv, NEW t \in Threads, NEW face \in Faces,
           Owner[face.hwnd] = t, SetFocus(t, face),
           UNCHANGED <<alive, reborn, pc, seen>>
    PROVE  PointerInv'
<1>1. DOMAIN entries \subseteq DOMAIN entries'  BY SetFocusEntries
<1>2. \/ UNCHANGED <<current, erased>>
      \/ current' = t /\ erased' = Nothing /\ t \in DOMAIN entries'
  BY SetFocusEntries DEF pointerVars
<1> QED  BY <1>1, <1>2 DEF IInv, PointerInv, Ended

LEMMA DeliverKeeps == IInv /\ Deliver => IInv'
<1> SUFFICES ASSUME IInv, Deliver PROVE IInv'  OBVIOUS
<1> DEFINE n == Head(mail)
<1>1. /\ mail \in Seq(Messages) /\ mail # << >> /\ mail' = Tail(mail)
      /\ Len(mail) <= MaxMail
  BY DEF Deliver, IInv, MailInv, MailType
<1>2. /\ n = mail[1] /\ n \in Messages /\ mail' \in Seq(Messages)
      /\ Len(mail') = Len(mail) - 1 /\ Len(mail) \in Nat
      /\ \A i \in 1..Len(mail') : mail'[i] = mail[i + 1] /\ i + 1 \in 1..Len(mail)
  BY <1>1
<1> HIDE DEF n
<1>3. UNCHANGED <<desktopVars, engineVars, roundVars>>  BY DEF Deliver
<1>4. DesktopInv'
  BY <1>3 DEF IInv, DesktopInv, DesktopType, OwnFocus, OwnReports, desktopVars
<1>5. MailInv'
  BY <1>1, <1>2, BoundsAssumption DEF IInv, MailInv, MailType, OwnMail
<1>7. /\ n.thread \in Hooked
      /\ n.type = "setFocus" => n.face \in Faces
                                /\ Owner[n.face.hwnd] = n.thread
  <2>1. n.type = "setFocus" => Owner[n.face.hwnd] = n.thread
    BY <1>1, <1>2 DEF IInv, MailInv, OwnMail
  <2> QED  BY <1>2, <2>1, MessageFields
\* A message of u that is the newest of those left was the newest before.
<1>8. ASSUME NEW u \in Hooked, InMail(u)  PROVE InMail(u)'
  <2> SUFFICES ASSUME NEW i \in 1..Len(mail'), Newest(u, i)'
               PROVE  mail[i+1].type = "setFocus"
                      /\ mail[i+1].face.hwnd = reported[u]
    BY <1>2, <1>3 DEF InMail, desktopVars
  <2>1. mail[i+1].thread = u /\ i + 1 \in 1..Len(mail)
    BY <1>2 DEF Newest
  <2>2. ASSUME NEW j \in 1..Len(mail), j > i + 1  PROVE mail[j].thread # u
    <3>1. j - 1 \in 1..Len(mail') /\ j - 1 > i  BY <1>2, <2>2
    <3>2. mail'[j - 1].thread # u  BY <3>1 DEF Newest
    <3>3. mail'[j - 1] = mail[j - 1 + 1]  BY <1>2, <3>1
    <3>4. j - 1 + 1 = j  OBVIOUS
    <3> QED  BY <3>2, <3>3, <3>4
  <2>3. Newest(u, i + 1)  BY <2>1, <2>2 DEF Newest
  <2> QED  BY <1>8, <2>1, <2>3 DEF InMail
\* If nothing of u is left, the message just read was u's newest or there
\* was none.
<1>9. ASSUME NEW u \in Hooked, \A i \in 1..Len(mail') : mail'[i].thread # u
      PROVE  /\ n.thread # u => \A i \in 1..Len(mail) : mail[i].thread # u
             /\ n.thread = u => Newest(u, 1) /\ 1 \in 1..Len(mail)
  <2>1. \A i \in 1..Len(mail) : i > 1 => mail[i].thread # u
    <3> SUFFICES ASSUME NEW i \in 1..Len(mail), i > 1
                 PROVE  mail[i].thread # u
      OBVIOUS
    <3>1. i - 1 \in 1..Len(mail') /\ (i - 1) + 1 = i  BY <1>2
    <3> QED  BY <1>2, <1>9, <3>1
  <2> QED  BY <1>1, <1>2, <2>1 DEF Newest
<1>10. CASE n.type = "setFocus"
  <2>1. SetFocus(n.thread, n.face) /\ n.thread \in Threads
    BY <1>7, <1>10 DEF Deliver, n, Threads
  <2>2. taken' = IF isSync THEN taken \ {n.thread}
                           ELSE taken \cup {n.thread}
    BY <1>10 DEF Deliver, n
  <2>3. /\ DOMAIN entries' \subseteq Threads
        /\ detached' \subseteq detached
        /\ \A u \in DOMAIN entries' :
              /\ entries'[u] \in FocusOfThreads
              /\ Owner[entries'[u].face.hwnd] = u
    BY <1>7, <1>10, <2>1, SetFocusEntries
  <2>4. EntryInv'
    BY <1>7, <2>2, <2>3 DEF IInv, EntryInv, EntryType, OwnEntries
  <2>5. KeymapInv'
    BY <1>3, <1>7, <1>10, <2>1, SetFocusKeymaps DEF KeymapInv, roundVars
  <2>7. EngineType'
    <3>1. current' \in {current, n.thread} /\ erased' \in {erased, Nothing}
      BY <1>7, <1>10, <2>1, SetFocusEntries DEF pointerVars
    <3> QED
      BY <1>3, <2>1, <3>1 DEF IInv, EngineType, engineVars, roundVars
  <2>8. PointerInv'
    BY <1>3, <1>7, <1>10, <2>1, SetFocusPointer DEF desktopVars, roundVars
  <2>9. EndsReported'
    <3>1. UNCHANGED <<fore, alive, reborn>>  BY <1>3 DEF desktopVars
    <3> QED  BY <1>2, <2>3, <3>1 DEF IInv, EndsReported, Ended
  <2>6. Tracked'
    <3> SUFFICES ASSUME NEW u \in Hooked, reported[u] # Nothing
                 PROVE  InMail(u)' /\ InEntry(u)'
      BY <1>3 DEF Tracked, desktopVars
    <3>1. InMail(u) /\ InEntry(u)  BY DEF IInv, Tracked
    <3>2. ASSUME u \in taken',
                 \A i \in 1..Len(mail') : mail'[i].thread # u
          PROVE  /\ u \in DOMAIN entries' \ detached'
                 /\ entries'[u].face.hwnd = reported[u]
      <4>1. CASE n.thread = u
        <5>1. ~isSync  BY <2>2, <3>2, <4>1
        <5>2. u \in DOMAIN entries' \ detached' /\ entries'[u].face = n.face
          BY <1>7, <1>10, <2>1, <4>1, <5>1, SetFocusEntries
        <5>3. n.face.hwnd = reported[u]
          BY <1>2, <1>9, <3>1, <3>2, <4>1 DEF InMail
        <5> QED  BY <5>2, <5>3
      <4>2. CASE n.thread # u
        <5>1. u \in DOMAIN entries \ detached
              /\ entries[u].face.hwnd = reported[u]
          BY <1>9, <2>2, <3>1, <3>2, <4>2 DEF InEntry
        <5>2. u \in DOMAIN entries' /\ entries'[u] = entries[u]
          BY <1>7, <1>10, <2>1, <4>2, <5>1, SetFocusEntries
        <5> QED  BY <2>3, <5>1, <5>2
      <4> QED  BY <4>1, <4>2
    <3>3. InEntry(u)'  BY <1>3, <3>2 DEF InEntry, desktopVars
    <3> QED  BY <1>8, <3>1, <3>3
  <2> QED  BY <1>4, <1>5, <2>4, <2>5, <2>6, <2>7, <2>8, <2>9 DEF IInv
<1>11. CASE n.type # "setFocus"
  <2>1. /\ detached' = detached \cup {n.thread}
        /\ UNCHANGED <<entries, current, erased, taken>>
    BY <1>11 DEF Deliver, n, pointerVars
  <2>2. EntryInv'
    BY <1>7, <2>1 DEF IInv, EntryInv, EntryType, OwnEntries
  <2>3. KeymapInv'
    BY <1>3, <2>1 DEF IInv, KeymapInv, KeymapsOfThisSetting,
       NoSettingNoKeymap, SettingHasFocus, WindowHasKeymap, ErasedHasKeymap,
       EventHasKeymap, SyncIsReady, Ready, Pointed, engineVars, roundVars
  <2>5. EngineType'
    BY <1>3, <2>1 DEF IInv, EngineType, engineVars, roundVars
  <2>6. UNCHANGED <<fore, alive, reborn, pc, seen>>
    BY <1>3 DEF desktopVars, roundVars
  <2>7. PointerInv'  BY <2>1, <2>6 DEF IInv, PointerInv, Ended
  <2>8. EndsReported'
    <3>1. n.type = "threadDetach"  BY <1>2, <1>11, MessageFields
    <3>2. Ended(n.thread)  BY <1>1, <1>2, <3>1 DEF IInv, EndsReported
    <3> QED  BY <1>2, <2>1, <2>6, <3>2 DEF IInv, EndsReported, Ended
  <2>4. Tracked'
    <3> SUFFICES ASSUME NEW u \in Hooked, reported[u] # Nothing
                 PROVE  InMail(u)' /\ InEntry(u)'
      BY <1>3 DEF Tracked, desktopVars
    <3>1. InMail(u) /\ InEntry(u)  BY DEF IInv, Tracked
    <3>2. ASSUME u \in taken',
                 \A i \in 1..Len(mail') : mail'[i].thread # u
          PROVE  /\ u \in DOMAIN entries' \ detached'
                 /\ entries'[u].face.hwnd = reported[u]
      <4>1. n.thread # u
        BY <1>2, <1>9, <1>11, <3>1, <3>2 DEF InMail
      <4> QED  BY <1>9, <2>1, <3>1, <3>2, <4>1 DEF InEntry
    <3>3. InEntry(u)'  BY <1>3, <3>2 DEF InEntry, desktopVars
    <3> QED  BY <1>8, <3>1, <3>3
  <2> QED  BY <1>4, <1>5, <2>2, <2>3, <2>4, <2>5, <2>7, <2>8 DEF IInv
<1> QED  BY <1>10, <1>11

-----------------------------------------------------------------------------
(* The engine: the desktop and the mail stay as they are. *)

LEMMA DesktopIdle ==
    ASSUME IInv, UNCHANGED <<desktopVars, mail>>
    PROVE  DesktopInv' /\ MailInv'
BY DEF IInv, DesktopInv, DesktopType, OwnFocus, OwnReports, MailInv,
       MailType, OwnMail, desktopVars

LEMMA EntriesIdle ==
    ASSUME IInv, UNCHANGED <<desktopVars, mail, entryVars, taken>>
    PROVE  DesktopInv' /\ MailInv' /\ EntryInv' /\ Tracked' /\ EndsReported'
<1>1. EntryInv'
  BY DEF IInv, EntryInv, EntryType, OwnEntries, entryVars
<1>2. Tracked'
  BY DEF IInv, Tracked, InMail, InEntry, Newest, desktopVars, entryVars
<1>3. EndsReported'
  BY DEF IInv, EndsReported, Ended, desktopVars, entryVars
<1> QED  BY <1>1, <1>2, <1>3, DesktopIdle

\* A round that ends leaves nothing for the parts about an event.
LEMMA RoundEnds ==
    ASSUME IInv, EndRound, isSync' = FALSE
    PROVE  /\ isSync' = (pc' = "sync") /\ pc' = "idle"
           /\ seen' \in Threads \cup {Nothing} /\ again' \in BOOLEAN
           /\ EventHasKeymap' /\ SyncIsReady'
<1>1. pc' = "idle" /\ seen' = Nothing /\ again' = FALSE  BY DEF EndRound
<1>2. isSync' = (pc' = "sync")  BY <1>1, Zenon
<1> QED  BY <1>1, <1>2 DEF EventHasKeymap, SyncIsReady

\* Outside a wait no round is in one.
LEMMA NotSync ==
    ASSUME IInv, pc # "sync"  PROVE isSync = FALSE
<1>1. isSync = (pc = "sync")  BY DEF IInv, EngineType
<1> QED  BY <1>1, Zenon

\* The pointer stays; the event and the next look begin only past the look.
LEMMA PointerIdle ==
    ASSUME IInv, UNCHANGED <<desktopVars, entries, pointerVars>>,
           \/ /\ pc' = "look" /\ pc = "idle"
           \/ /\ pc' = "idle" /\ pc \in {"event", "sync"}
           \/ pc' \in {"global", "unlocked", "crashed"}
           \/ /\ pc' \in {"event", "sync"} /\ UNCHANGED seen
              /\ pc \in {"event", "sync"} \/ (pc = "look" /\ current = seen)
    PROVE  PointerInv'
BY DEF IInv, PointerInv, Ended, desktopVars, pointerVars

LEMMA ReadForegroundKeeps == IInv /\ ReadForeground => IInv'
<1> SUFFICES ASSUME IInv, ReadForeground PROVE IInv'  OBVIOUS
<1>1. DesktopInv' /\ MailInv' /\ EntryInv' /\ Tracked' /\ EndsReported'
  BY EntriesIdle DEF ReadForeground
<1>2. /\ pc' \in {"global", "look"} /\ seen' = fore /\ again' = FALSE
      /\ UNCHANGED <<engineVars, current, erased>> /\ UNCHANGED entries
      /\ isSync = FALSE
  BY NotSync DEF ReadForeground, entryVars, pointerVars
<1>3. isSync' = (pc' = "sync")
  <2>1. isSync' = FALSE /\ pc' # "sync"  BY <1>2 DEF engineVars
  <2> QED  BY <2>1, Zenon
<1>4. EngineType'
  BY <1>2, <1>3 DEF IInv, EngineType, engineVars, DesktopInv, DesktopType
<1>5. KeymapInv'
  BY <1>2 DEF IInv, KeymapInv, KeymapsOfThisSetting, NoSettingNoKeymap,
     SettingHasFocus, WindowHasKeymap, ErasedHasKeymap, EventHasKeymap,
     SyncIsReady, Ready, engineVars
<1>6. PointerInv'  BY PointerIdle DEF ReadForeground, entryVars
<1> QED  BY <1>1, <1>4, <1>5, <1>6 DEF IInv

LEMMA LookUpKeeps ==
    ASSUME IInv, pc = "look", LookUp,
           UNCHANGED <<desktopVars, mail, setting, isSync, seen, again, taken>>
    PROVE  IInv'
<1>1. DesktopInv' /\ MailInv'  BY DesktopIdle
<1>2. /\ entries' = Known /\ detached' = {}
      /\ DOMAIN Known = DOMAIN entries \ detached
      /\ \A t \in DOMAIN Known : Known[t] = entries[t]
  BY DEF LookUp, Known
<1>3. EntryInv'
  BY <1>2 DEF IInv, EntryInv, EntryType, OwnEntries
<1>4. Tracked'
  BY <1>2 DEF IInv, Tracked, InMail, InEntry, Newest, desktopVars
<1>a. EndsReported'
  BY <1>2 DEF IInv, EndsReported, Ended, desktopVars
<1>5. CASE seen \in DOMAIN Known /\ (seen # Console \/ again)
  <2>1. /\ current' = seen /\ erased' = Nothing
        /\ keymap' = entries[seen].keymap
        /\ hwndFocus' = entries[seen].face.hwnd /\ pc' = "event"
        /\ seen \in DOMAIN entries /\ seen \in DOMAIN entries'
        /\ entries'[seen] = entries[seen]
    BY <1>2, <1>5 DEF LookUp
  <2>2. /\ seen \in Threads /\ entries[seen].keymap \in Keymaps
        /\ entries[seen].face.hwnd \in Windows
    BY <2>1 DEF IInv, EntryInv, EntryType, Faces, FocusOfThreads
  <2>3. isSync' = (pc' = "sync")
    <3>1. isSync' = FALSE  BY NotSync
    <3> QED  BY <2>1, <3>1, Zenon
  <2>4. EngineType'  BY <2>1, <2>2, <2>3 DEF IInv, EngineType
  <2>5. PointerInv' /\ SyncIsReady' /\ ErasedHasKeymap'
    BY <2>1 DEF PointerInv, SyncIsReady, ErasedHasKeymap
  <2>6. KeymapsOfThisSetting' /\ NoSettingNoKeymap'
    BY <1>2, <2>1 DEF IInv, KeymapInv, KeymapsOfThisSetting, NoSettingNoKeymap
  <2>7. SettingHasFocus'
    BY <2>1, <2>2, BoundsAssumption DEF SettingHasFocus, Threads
  <2>8. WindowHasKeymap'
    BY <1>2, <2>1, <2>2 DEF IInv, EntryInv, OwnEntries, WindowHasKeymap
  <2>9. EventHasKeymap'  BY <2>1 DEF EventHasKeymap, Ready, Pointed
  <2> QED
    BY <1>1, <1>3, <1>4, <1>a, <2>4, <2>5, <2>6, <2>7, <2>8, <2>9
    DEF IInv, KeymapInv
<1>6. CASE ~(seen \in DOMAIN Known /\ (seen # Console \/ again))
  <2>1. /\ UNCHANGED <<keymap, hwndFocus>> /\ pc' = "unlocked"
        /\ \/ current' = seen /\ seen \in DOMAIN Known /\ erased' = Nothing
           \/ UNCHANGED current /\ erased' = PointerAfterErasing
    BY <1>6 DEF LookUp
  <2>0. EntryType  BY DEF IInv, EntryInv
  <2>2. isSync' = (pc' = "sync")
    <3>1. isSync' = FALSE  BY NotSync
    <3> QED  BY <2>1, <3>1, Zenon
  <2>3. /\ erased' \in FocusOfThreads \cup {Nothing}
        /\ \/ erased' \in {Nothing, erased}
           \/ /\ erased = Nothing /\ erased' = entries[current]
              /\ current \in DOMAIN entries \cap detached
    BY <2>0, <2>1 DEF PointerAfterErasing, IInv, EngineType, EntryType
  <2>4. EngineType'  BY <2>1, <2>2, <2>3 DEF IInv, EngineType
  <2>5. SyncIsReady' /\ EventHasKeymap'
    BY <2>1 DEF SyncIsReady, EventHasKeymap
  <2>6. KeymapsOfThisSetting' /\ NoSettingNoKeymap'
    BY <1>2, <2>1 DEF IInv, KeymapInv, KeymapsOfThisSetting, NoSettingNoKeymap
  <2>7. SettingHasFocus'
    <3>1. DOMAIN Known \subseteq Threads
      BY <1>2 DEF IInv, EntryInv, EntryType
    <3> QED
      BY <2>1, <3>1, BoundsAssumption
      DEF IInv, KeymapInv, SettingHasFocus, Threads
  <2>8. WindowHasKeymap'
    BY <1>2, <2>1 DEF IInv, KeymapInv, WindowHasKeymap
  <2>9. ErasedHasKeymap'
    BY <2>1, <2>3
    DEF IInv, KeymapInv, ErasedHasKeymap, KeymapsOfThisSetting, WindowHasKeymap
  <2>10. PointerInv'
    <3>1. CASE current' = seen /\ seen \in DOMAIN Known /\ erased' = Nothing
      BY <1>2, <3>1 DEF PointerInv
    <3>2. CASE UNCHANGED current /\ erased' = PointerAfterErasing
      <4>1. erased' = Nothing =>
              (current' \in Threads => current' \in DOMAIN entries')
        <5> SUFFICES ASSUME erased' = Nothing, current \in Threads
                     PROVE  current \in DOMAIN entries'
          BY <3>2
        <5>1. erased = Nothing
          BY <3>2 DEF PointerAfterErasing
        <5>2. current \in DOMAIN entries  BY <5>1 DEF IInv, PointerInv
        <5>3. CASE current \in detached
          <6>1. entries[current] \in FocusOfThreads
            BY <2>0, <5>2 DEF EntryType
          <6>2. entries[current] = Nothing
            BY <3>2, <5>1, <5>2, <5>3 DEF PointerAfterErasing
          <6>3. PointerInv' /\ FALSE
            BY <6>1, <6>2, BoundsAssumption DEF FocusOfThreads
          <6> QED  BY <6>3
        <5> QED  BY <1>2, <5>2, <5>3
      <4>2. erased' # Nothing => current \in Hooked /\ Ended(current)
        <5>1. CASE erased # Nothing  BY <5>1 DEF IInv, PointerInv
        <5>2. CASE erased = Nothing
          BY <2>0, <3>2, <5>2
          DEF PointerAfterErasing, IInv, EndsReported, EntryType
        <5> QED  BY <5>1, <5>2
      <4>3. Ended(current)' <=> Ended(current)
        BY <3>2 DEF Ended, desktopVars
      <4> QED  BY <2>1, <3>2, <4>1, <4>2, <4>3 DEF PointerInv
    <3> QED  BY <2>1, <3>1, <3>2
  <2> QED
    BY <1>1, <1>3, <1>4, <1>a, <2>4, <2>5, <2>6, <2>7, <2>8, <2>9, <2>10
    DEF IInv, KeymapInv
<1> QED  BY <1>5, <1>6

LEMMA CheckFocusWindowKeeps == IInv /\ CheckFocusWindow => IInv'
<1> SUFFICES ASSUME IInv, CheckFocusWindow PROVE IInv'  OBVIOUS
<1>1. CASE LookUp  BY <1>1, LookUpKeeps DEF CheckFocusWindow
<1>2. CASE /\ Unchanged /\ pc' = "event"
           /\ UNCHANGED <<entryVars, pointerVars, keymap, hwndFocus>>
  <2>1. DesktopInv' /\ MailInv' /\ EntryInv' /\ Tracked' /\ EndsReported'
    BY <1>2, EntriesIdle DEF CheckFocusWindow
  <2>2. /\ pc = "look" /\ pc' = "event" /\ current = seen
        /\ Pointed.face.hwnd = hwndFocus
        /\ UNCHANGED <<entries, current, erased, keymap, hwndFocus, setting,
                       isSync, seen, again>>
    BY <1>2 DEF CheckFocusWindow, Unchanged, entryVars, pointerVars
  <2>3. isSync' = (pc' = "sync")
    <3>1. isSync' = FALSE  BY <2>2, NotSync
    <3> QED  BY <2>2, <3>1, Zenon
  <2>4. EngineType'  BY <2>2, <2>3 DEF IInv, EngineType
  <2>5. PointerInv'
    BY <1>2, <2>2, PointerIdle DEF CheckFocusWindow, pointerVars
  <2>6. ASSUME Ready, current \in Threads  PROVE Pointed.keymap # Nothing
    <3>1. CASE erased # Nothing
      <4>1. Pointed = erased /\ erased \in FocusOfThreads
        BY <3>1 DEF Pointed, IInv, EngineType
      <4>2. hwndFocus # Nothing
        BY <2>2, <4>1, BoundsAssumption DEF Faces, FocusOfThreads
      <4> QED
        BY <2>2, <2>6, <3>1, <4>1, <4>2
        DEF IInv, KeymapInv, ErasedHasKeymap, Ready
    <3>2. CASE erased = Nothing
      <4>1. Pointed = entries[current] /\ current \in DOMAIN entries
        BY <2>6, <3>2 DEF Pointed, IInv, PointerInv
      <4>2. entries[current] \in FocusOfThreads
        BY <4>1 DEF IInv, EntryInv, EntryType
      <4>3. hwndFocus # Nothing
        BY <2>2, <4>1, <4>2, BoundsAssumption DEF Faces, FocusOfThreads
      <4> QED
        BY <2>2, <2>6, <4>1, <4>3 DEF IInv, KeymapInv, WindowHasKeymap, Ready
    <3> QED  BY <3>1, <3>2
  <2>7. EventHasKeymap'
    BY <2>2, <2>6 DEF EventHasKeymap, Ready, Pointed
  <2>8. KeymapInv'
    BY <2>2, <2>7 DEF IInv, KeymapInv, KeymapsOfThisSetting,
       NoSettingNoKeymap, SettingHasFocus, WindowHasKeymap, ErasedHasKeymap,
       SyncIsReady
  <2> QED  BY <2>1, <2>4, <2>5, <2>8 DEF IInv
<1> QED  BY <1>1, <1>2 DEF CheckFocusWindow

LEMMA AskConsoleKeeps == IInv /\ AskConsole => IInv'
<1> SUFFICES ASSUME IInv, AskConsole PROVE IInv'  OBVIOUS
<1>1. /\ pc = "unlocked" /\ pc' \in {"global", "look"} /\ seen' = fore
      /\ again' = TRUE /\ UNCHANGED <<desktopVars, mail, engineVars, taken>>
      /\ seen = Console
  BY DEF AskConsole
<1>2. PICK w \in Windows : Owner[w] = Console
                           /\ SetFocus(Console, Face(w, FALSE))
  BY DEF AskConsole
<1>3. /\ Face(w, FALSE) \in Faces /\ Face(w, FALSE).hwnd = w
      /\ Console \in Threads
  BY DEF Face, Faces, Threads
<1> DEFINE face == Face(w, FALSE)
<1>4. face \in Faces /\ Owner[face.hwnd] = Console /\ SetFocus(Console, face)
  BY <1>2, <1>3
<1> HIDE DEF face
<1>5. DesktopInv' /\ MailInv'  BY <1>1, DesktopIdle
<1>6. EntryInv'
  <2>1. DOMAIN entries' \subseteq Threads /\ detached' \subseteq detached
    BY <1>3, <1>4, SetFocusEntries
  <2>2. \A u \in DOMAIN entries' :
           /\ entries'[u] \in FocusOfThreads
           /\ Owner[entries'[u].face.hwnd] = u
    BY <1>3, <1>4, SetFocusEntries
  <2> QED  BY <1>1, <2>1, <2>2 DEF IInv, EntryInv, EntryType, OwnEntries
<1>7. Tracked'
  <2>1. \A u \in Hooked : u \in DOMAIN entries \ detached =>
           u \in DOMAIN entries' \ detached' /\ entries'[u] = entries[u]
    <3>1. /\ DOMAIN entries \subseteq DOMAIN entries'
          /\ detached' \subseteq detached
          /\ \A u \in DOMAIN entries' : u # Console => entries'[u] = entries[u]
      BY <1>3, <1>4, SetFocusEntries
    <3> QED  BY <3>1, BoundsAssumption
  <2> QED
    BY <1>1, <2>1 DEF IInv, Tracked, InMail, InEntry, Newest, desktopVars
<1>8. isSync' = (pc' = "sync")
  <2>1. isSync' = FALSE  BY <1>1, NotSync DEF engineVars
  <2> QED  BY <1>1, <2>1, Zenon
<1>9. EngineType'
  <2>1. current' \in {current, Console} /\ erased' \in {erased, Nothing}
    BY <1>3, <1>4, SetFocusEntries DEF pointerVars
  <2> QED
    BY <1>1, <1>3, <1>8, <2>1
    DEF IInv, EngineType, engineVars, DesktopInv, DesktopType
<1>10. KeymapInv'
  <2>1. /\ KeymapsOfThisSetting' /\ NoSettingNoKeymap'
        /\ SettingHasFocus' /\ WindowHasKeymap' /\ ErasedHasKeymap'
    BY <1>1, <1>3, <1>4, SetFocusKeymaps
  <2>2. EventHasKeymap' /\ SyncIsReady'
    BY <1>1 DEF EventHasKeymap, SyncIsReady
  <2> QED  BY <2>1, <2>2 DEF KeymapInv
\* The thread that has the keyboard runs: if it is the one that has ended,
\* its id was used again.
<1>11. PointerInv'
  <2>1. DOMAIN entries \subseteq DOMAIN entries'
        /\ \/ UNCHANGED <<current, erased>>
           \/ /\ current' = Console /\ erased' = Nothing
              /\ Console \in DOMAIN entries'
    BY <1>3, <1>4, SetFocusEntries DEF pointerVars
  <2>2. UNCHANGED <<fore, alive, reborn>>  BY <1>1 DEF desktopVars
  <2>3. erased # Nothing /\ fore = current => current \in reborn
    BY DEF IInv, PointerInv, EndsReported, Ended
  <2> QED  BY <1>1, <2>1, <2>2, <2>3 DEF IInv, PointerInv, Ended
<1>12. EndsReported'
  <2>1. detached' \subseteq detached  BY <1>3, <1>4, SetFocusEntries
  <2> QED  BY <1>1, <2>1 DEF IInv, EndsReported, Ended, desktopVars
<1> QED  BY <1>5, <1>6, <1>7, <1>9, <1>10, <1>11, <1>12 DEF IInv

LEMMA GlobalKeymapType ==
    ASSUME IInv
    PROVE  /\ GlobalKeymap \in Keymaps
           /\ (GlobalKeymap = Nothing) <=> (setting = 0)
           /\ setting # 0 => GlobalKeymap.setting = setting
<1>1. setting \in 0..MaxSetting  BY DEF IInv, EngineType
<1>2. CASE setting = 0  BY <1>2 DEF GlobalKeymap, Keymaps
<1>3. CASE setting # 0
  <2>1. setting \in 1..MaxSetting  BY <1>1, <1>3, BoundsAssumption
  <2> QED  BY <1>3, <2>1, KeymapIsThere DEF GlobalKeymap, Lookup
<1> QED  BY <1>2, <1>3

LEMMA NoEntryKeeps == IInv /\ NoEntry => IInv'
<1> SUFFICES ASSUME IInv, NoEntry PROVE IInv'  OBVIOUS
<1>1. DesktopInv' /\ MailInv' /\ EntryInv' /\ Tracked' /\ EndsReported'
  BY EntriesIdle DEF NoEntry
<1>2. /\ pc \in {"global", "unlocked"} /\ pc' = "event"
      /\ UNCHANGED <<entries, setting, isSync, seen, again>>
      /\ hwndFocus' = Nothing
      /\ current' = IF GlobalKeymap = Nothing THEN Nothing ELSE Global
      /\ erased' = Nothing
      /\ keymap' = IF current = Global THEN keymap ELSE GlobalKeymap
  BY DEF NoEntry, FallBack, entryVars
<1>3. isSync' = (pc' = "sync")
  <2>1. isSync' = FALSE  BY <1>2, NotSync
  <2> QED  BY <1>2, <2>1, Zenon
<1>4. EngineType'
  BY <1>2, <1>3, GlobalKeymapType DEF IInv, EngineType
<1>5. KeymapsOfThisSetting' /\ NoSettingNoKeymap' /\ SettingHasFocus'
      /\ WindowHasKeymap'
  BY <1>2, GlobalKeymapType, BoundsAssumption
  DEF IInv, KeymapInv, KeymapsOfThisSetting, NoSettingNoKeymap,
      SettingHasFocus, WindowHasKeymap
<1>6. EventHasKeymap' /\ SyncIsReady' /\ ErasedHasKeymap' /\ PointerInv'
  BY <1>2, BoundsAssumption
  DEF EventHasKeymap, SyncIsReady, ErasedHasKeymap, PointerInv, Ready, Threads
<1> QED  BY <1>1, <1>4, <1>5, <1>6 DEF IInv, KeymapInv

LEMMA HandlePlainKeeps == IInv /\ HandlePlain => IInv'
<1> SUFFICES ASSUME IInv, HandlePlain PROVE IInv'  OBVIOUS
<1>1. DesktopInv' /\ MailInv' /\ EntryInv' /\ Tracked' /\ EndsReported'
  BY EntriesIdle DEF HandlePlain
<1>2. isSync' = FALSE /\ EndRound
  BY NotSync DEF HandlePlain, engineVars
<1>3. EngineType'
  BY <1>2, RoundEnds DEF IInv, EngineType, HandlePlain, engineVars, pointerVars
<1>4. KeymapInv'
  BY <1>2, RoundEnds DEF HandlePlain, engineVars, entryVars, pointerVars,
     IInv, KeymapInv, KeymapsOfThisSetting, NoSettingNoKeymap,
     SettingHasFocus, WindowHasKeymap, ErasedHasKeymap
<1>5. PointerInv'  BY PointerIdle DEF HandlePlain, EndRound, entryVars
<1> QED  BY <1>1, <1>3, <1>4, <1>5 DEF IInv

\* The keymap a key sequence ends on
LEMMA CurrentKeymapType ==
    ASSUME IInv, pc \in {"event", "sync"}, Ready
    PROVE  /\ CurrentKeymap \in Keymaps /\ CurrentKeymap # Nothing
           /\ CurrentKeymap.setting = setting
<1>1. CASE current = Global
  BY <1>1, GlobalKeymapType DEF CurrentKeymap, Ready
<1>2. CASE current # Global
  <2>1. current \in Threads
    BY <1>2 DEF IInv, EngineType, Ready
  <2>2. Pointed.keymap # Nothing
    BY <2>1 DEF IInv, KeymapInv, EventHasKeymap
  <2>3. CASE erased # Nothing
    BY <1>2, <2>2, <2>3
    DEF FocusOfThreads, CurrentKeymap, Pointed, IInv, EngineType,
        KeymapInv, ErasedHasKeymap
  <2>4. CASE erased = Nothing
    <3>1. current \in DOMAIN entries  BY <2>1, <2>4 DEF IInv, PointerInv
    <3> QED
      BY <1>2, <2>2, <2>4, <3>1
      DEF FocusOfThreads, CurrentKeymap, Pointed, IInv, EntryInv, EntryType,
          KeymapInv, KeymapsOfThisSetting
  <2> QED  BY <2>3, <2>4
<1> QED  BY <1>1, <1>2

\* A round that ends with the first keymap of the current window
LEMMA KeyEnds ==
    ASSUME IInv, pc \in {"event", "sync"}, Ready, keymap' = CurrentKeymap,
           EndRound, isSync' = FALSE,
           UNCHANGED <<desktopVars, mail, entryVars, pointerVars, setting,
                       hwndFocus, taken>>
    PROVE  IInv'
<1>1. DesktopInv' /\ MailInv' /\ EntryInv' /\ Tracked' /\ EndsReported'
  BY EntriesIdle
<1>2. EngineType'
  BY RoundEnds, CurrentKeymapType DEF IInv, EngineType, pointerVars
<1>3. UNCHANGED <<entries, current, erased>>  BY DEF entryVars, pointerVars
<1>4. KeymapInv'
  BY <1>3, RoundEnds, CurrentKeymapType
  DEF IInv, KeymapInv, KeymapsOfThisSetting, NoSettingNoKeymap,
      SettingHasFocus, WindowHasKeymap, ErasedHasKeymap, Ready
<1>5. PointerInv'  BY PointerIdle DEF EndRound, entryVars
<1> QED  BY <1>1, <1>2, <1>4, <1>5 DEF IInv

LEMMA HandleKeyKeeps == IInv /\ HandleKey => IInv'
<1> SUFFICES ASSUME IInv, HandleKey PROVE IInv'  OBVIOUS
<1>1. isSync' = FALSE  BY NotSync DEF HandleKey
<1> QED  BY <1>1, KeyEnds DEF HandleKey

LEMMA EndSyncKeeps == IInv /\ EndSync => IInv'
<1> SUFFICES ASSUME IInv, EndSync PROVE IInv'  OBVIOUS
<1>1. Ready  BY DEF EndSync, IInv, KeymapInv, SyncIsReady
<1> QED  BY <1>1, KeyEnds DEF EndSync

LEMMA BeginSyncKeeps == IInv /\ BeginSync => IInv'
<1> SUFFICES ASSUME IInv, BeginSync PROVE IInv'  OBVIOUS
<1>1. DesktopInv' /\ MailInv' /\ EntryInv' /\ Tracked' /\ EndsReported'
  BY EntriesIdle DEF BeginSync
<1>2. isSync' = (pc' = "sync")
  <2>1. isSync' = TRUE /\ pc' = "sync"  BY DEF BeginSync
  <2> QED  BY <2>1, Zenon
<1>3. EngineType'  BY <1>2 DEF BeginSync, IInv, EngineType, pointerVars
<1>4. KeymapInv'
  BY DEF BeginSync, IInv, KeymapInv, KeymapsOfThisSetting, NoSettingNoKeymap,
     SettingHasFocus, WindowHasKeymap, ErasedHasKeymap, EventHasKeymap,
     SyncIsReady, Ready, Pointed, entryVars, pointerVars
<1>5. PointerInv'  BY PointerIdle DEF BeginSync, entryVars
<1> QED  BY <1>1, <1>3, <1>4, <1>5 DEF IInv

LEMMA ApplySettingKeeps == IInv /\ ApplySetting => IInv'
<1> SUFFICES ASSUME IInv, ApplySetting PROVE IInv'  OBVIOUS
<1>1. /\ setting' = setting + 1 /\ setting \in 0..MaxSetting
      /\ setting' \in 1..MaxSetting
      /\ entries' = Refreshed(setting')
      /\ current' = Global /\ erased' = Nothing
      /\ keymap' = [of |-> Global, setting |-> setting']
      /\ hwndFocus' = Nothing /\ EndRound /\ isSync' = FALSE
      /\ UNCHANGED <<desktopVars, mail, detached, taken>>
  <2>1. setting \in 0..MaxSetting  BY DEF IInv, EngineType
  <2>2. setting < MaxSetting /\ setting' = setting + 1  BY DEF ApplySetting
  <2>3. setting' \in 1..MaxSetting  BY <2>1, <2>2, BoundsAssumption
  <2>4. isSync' = FALSE  BY NotSync DEF ApplySetting
  <2> QED  BY <2>1, <2>2, <2>3, <2>4 DEF ApplySetting
<1>2. DesktopInv' /\ MailInv'  BY <1>1, DesktopIdle
<1>3. keymap' \in Keymaps /\ keymap' # Nothing /\ keymap'.setting = setting'
  BY <1>1, KeymapIsThere
<1>4. /\ DOMAIN entries' = DOMAIN entries
      /\ \A t \in DOMAIN entries :
            /\ entries'[t].face = entries[t].face
            /\ entries'[t] \in FocusOfThreads
            /\ entries'[t].keymap # Nothing =>
                   entries'[t].keymap.setting = setting'
  <2>1. CASE current = Nothing
    <3>1. entries' = entries /\ setting = 0
      BY <1>1, <2>1 DEF Refreshed, IInv, KeymapInv, SettingHasFocus
    <3>2. \A t \in DOMAIN entries : entries[t].keymap = Nothing
      BY <3>1 DEF IInv, KeymapInv, NoSettingNoKeymap
    <3> QED  BY <3>1, <3>2 DEF IInv, EntryInv, EntryType
  <2>2. CASE current # Nothing
    <3>1. entries' = [t \in DOMAIN entries |->
            [entries[t] EXCEPT
               !.keymap = [of |-> entries[t].face, setting |-> setting']]]
      BY <1>1, <2>2 DEF Refreshed
    <3>2. ASSUME NEW t \in DOMAIN entries
          PROVE  /\ entries'[t].face = entries[t].face
                 /\ entries'[t] \in FocusOfThreads
                 /\ entries'[t].keymap.setting = setting'
      <4>1. entries[t] \in FocusOfThreads
        BY DEF IInv, EntryInv, EntryType
      <4>2. [of |-> entries[t].face, setting |-> setting'] \in Keymaps
        BY <1>1, <4>1, KeymapIsThere DEF FocusOfThreads
      <4> QED  BY <3>1, <4>1, <4>2 DEF FocusOfThreads
    <3> QED  BY <3>1, <3>2
  <2> QED  BY <2>1, <2>2
<1>5. EntryInv'  BY <1>1, <1>4 DEF IInv, EntryInv, EntryType, OwnEntries
<1>6. Tracked'
  <2> SUFFICES ASSUME NEW t \in Hooked, reported[t] # Nothing
               PROVE  InMail(t)' /\ InEntry(t)'
    BY <1>1 DEF Tracked, desktopVars
  <2>1. InMail(t) /\ InEntry(t)  BY DEF IInv, Tracked
  <2>2. InMail(t)'  BY <1>1, <2>1 DEF InMail, Newest, desktopVars
  <2>3. InEntry(t)'  BY <1>1, <1>4, <2>1 DEF InEntry, desktopVars
  <2> QED  BY <2>2, <2>3
<1>7. EngineType'
  <2>1. setting' \in 0..MaxSetting  BY <1>1, BoundsAssumption
  <2>2. /\ isSync' = (pc' = "sync") /\ pc' = "idle"
        /\ seen' \in Threads \cup {Nothing} /\ again' \in BOOLEAN
    BY <1>1, RoundEnds
  <2> QED  BY <1>1, <1>3, <2>1, <2>2 DEF EngineType
<1>8. KeymapInv'
  <2>1. KeymapsOfThisSetting'  BY <1>3, <1>4 DEF KeymapsOfThisSetting
  <2>2. NoSettingNoKeymap' /\ SettingHasFocus' /\ WindowHasKeymap'
    BY <1>1, BoundsAssumption
    DEF NoSettingNoKeymap, SettingHasFocus, WindowHasKeymap
  <2>3. ErasedHasKeymap'  BY <1>1 DEF ErasedHasKeymap
  <2> QED  BY <1>1, <2>1, <2>2, <2>3, RoundEnds DEF KeymapInv
<1>9. PointerInv' /\ EndsReported'
  BY <1>1, BoundsAssumption
  DEF PointerInv, IInv, EndsReported, Ended, desktopVars, Threads
<1> QED  BY <1>2, <1>5, <1>6, <1>7, <1>8, <1>9 DEF IInv

LEMMA CrashKeeps == IInv /\ Crash => IInv'
<1> SUFFICES ASSUME IInv, Crash PROVE IInv'  OBVIOUS
<1>1. DesktopInv' /\ MailInv' /\ EntryInv' /\ Tracked' /\ EndsReported'
  BY EntriesIdle DEF Crash
<1>2. isSync' = (pc' = "sync")
  <2>1. isSync' = FALSE /\ pc' # "sync"  BY DEF Crash
  <2> QED  BY <2>1, Zenon
<1>3. EngineType'  BY <1>2 DEF Crash, IInv, EngineType, pointerVars
<1>4. KeymapInv'
  BY DEF Crash, IInv, KeymapInv, KeymapsOfThisSetting, NoSettingNoKeymap,
     SettingHasFocus, WindowHasKeymap, ErasedHasKeymap, EventHasKeymap,
     SyncIsReady, Ready, entryVars, pointerVars
<1>5. PointerInv'  BY PointerIdle DEF Crash, entryVars
<1> QED  BY <1>1, <1>3, <1>4, <1>5 DEF IInv

-----------------------------------------------------------------------------
LEMMA NextKeeps == IInv /\ [Next]_vars => IInv'
<1> SUFFICES ASSUME IInv, [Next]_vars PROVE IInv'  OBVIOUS
<1>1. CASE UNCHANGED vars
  <2>1. UNCHANGED <<desktopVars, mail, entryVars, taken>>
        /\ UNCHANGED engineState
    BY <1>1 DEF vars, engineState
  <2>2. PointerInv'
    BY <2>1 DEF IInv, PointerInv, Ended, engineState, desktopVars, entryVars,
       pointerVars, roundVars
  <2> QED  BY <2>1, <2>2, EntriesIdle, EngineIdle DEF IInv
<1> QED
  BY <1>1, DesktopKeeps, DeliverKeeps, ReadForegroundKeeps,
     CheckFocusWindowKeeps, AskConsoleKeeps, NoEntryKeeps, HandlePlainKeeps,
     HandleKeyKeeps, BeginSyncKeeps, EndSyncKeeps, ApplySettingKeeps,
     CrashKeeps
  DEF Next, Engine

THEOREM Invariance == Spec => []IInv
BY InitInv, NextKeeps, PTL DEF Spec

(***************************************************************************)
(* Every variable keeps a value its declaration in the code allows.        *)
(***************************************************************************)
THEOREM TypeCorrect == Spec => []TypeOK
<1>1. IInv => TypeOK
  BY DEF IInv, DesktopInv, DesktopType, MailInv, MailType, EntryInv,
         EntryType, EngineType, TypeOK
<1> QED  BY <1>1, Invariance, PTL

(***************************************************************************)
(* While an event is handled m_currentFocusOfThread points to an entry     *)
(* that exists, or to the erased one of a thread whose id Windows gave to  *)
(* the thread that had the keyboard at the look (engine.cpp:65, 87),       *)
(* however many threads come and go.                                       *)
(***************************************************************************)
THEOREM CurrentStaysLive == Spec => []CurrentIsLive
<1>1. IInv => CurrentIsLive
  BY DEF IInv, PointerInv, EngineType, CurrentIsLive
<1> QED  BY <1>1, Invariance, PTL

(***************************************************************************)
(* No keymap of a replaced Setting is left anywhere (engine.cpp:1914).     *)
(***************************************************************************)
THEOREM NoStaleKeymap == Spec => []KeymapsOfThisSetting
<1>1. IInv => KeymapsOfThisSetting  BY DEF IInv, KeymapInv
<1> QED  BY <1>1, Invariance, PTL

(***************************************************************************)
(* A key sequence that began ends on a keymap that exists (engine.cpp:729, *)
(* 750).                                                                   *)
(***************************************************************************)
THEOREM FrontAlwaysExists == Spec => []FrontExists
<1>1. IInv => FrontExists  BY CurrentKeymapType DEF FrontExists
<1> QED  BY <1>1, Invariance, PTL

(***************************************************************************)
(* A focus window whose report was taken in is the one the next event acts *)
(* on (engine.cpp:67, 2079).                                               *)
(***************************************************************************)
THEOREM FocusIsFollowed == Spec => FollowsFocus
<1>1. ASSUME IInv, CheckFocusWindow, seen = fore, Announced, fore \in taken,
             erased = Nothing
      PROVE  current' = fore /\ hwndFocus' = focus
  <2>1. /\ fore \in Hooked /\ reported[fore] = focus /\ focus # Nothing
        /\ \A i \in 1..Len(mail) : mail[i].thread # fore
    BY <1>1 DEF Announced, IInv, MailInv, MailType
  <2>2. /\ fore \in DOMAIN entries \ detached
        /\ entries[fore].face.hwnd = focus
    BY <1>1, <2>1 DEF IInv, Tracked, InEntry
  <2>3. seen \in DOMAIN Known /\ Known[seen] = entries[seen]
        /\ seen # Console
    BY <1>1, <2>1, <2>2, BoundsAssumption DEF Known
  <2>4. CASE Unchanged /\ UNCHANGED <<pointerVars, hwndFocus>>
    BY <1>1, <2>2, <2>4 DEF Unchanged, Pointed, pointerVars
  <2>5. CASE LookUp
    BY <1>1, <2>2, <2>3, <2>5 DEF LookUp
  <2> QED  BY <1>1, <2>4, <2>5 DEF CheckFocusWindow
<1>2. IInv => [(CheckFocusWindow /\ seen = fore /\ Announced /\ fore \in taken
                   /\ erased = Nothing)
                  => current' = fore /\ hwndFocus' = focus]_vars
  BY <1>1
<1> QED  BY <1>2, Invariance, PTL DEF FollowsFocus
=============================================================================
