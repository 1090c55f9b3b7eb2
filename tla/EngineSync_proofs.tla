-------------------------- MODULE EngineSync_proofs --------------------------
(* Proofs about &Sync and &Wait, for sequences of any length and depth and   *)
(* for any number of waits and notifications; and, at the end, about prefix  *)
(* and one-shot keys.                                                        *)
(*                                                                           *)
(* An event of a key makes calls that make others, without a bound that the  *)
(* proof could go by.  It goes by the next call instead: the current keymap  *)
(* is at home, or some call that is still to be made will bring it there     *)
(* (HomeInv).                                                                *)
EXTENDS EngineSync, PrefixKeys, SequenceTheorems, WellFoundedInduction, TLAPS

\* Where the engine thread is says who may take m_mutex and which flags are up.
Phases ==
  /\ engineLocked <=> pc \in {"generate", "finish"}
  /\ isSynchronizing <=> pc \in {"sync", "wait", "endSync", "endWait"}
  /\ SyncKeyOnlyInSync
  /\ pc \in {"boundary", "finish"} => frames = <<>>

NoSyncIn(m) == \A i \in 1..Len(m) : m[i] # Sync

OneSyncIn(m) == \A i, j \in 1..Len(m) : m[i] = Sync /\ m[j] = Sync => i = j

NoNotifyOfSync == NoSyncIn(mailslot) /\ reading # Sync

\* The trace of a &Sync is in one place only: the sync key in the application's
\* queue, its notification in the mailslot or with the reader, or the event.  A &Sync
\* that ended with its notification leaves none of them behind.
Tokens ==
  ~cutShort =>
    /\ pc = "sync" => /\ appQueue = <<>> \/ (appQueue = <<syncs>> /\ NoNotifyOfSync)
                      /\ appQueue # <<>> => ~eSync
                      /\ eSync => NoNotifyOfSync
                      /\ OneSyncIn(mailslot)
                      /\ reading = Sync => NoSyncIn(mailslot)
    /\ pc # "sync" => appQueue = <<>> /\ NoNotifyOfSync

\* The flags, and everything else, keep their types.
EngineFlags ==
  /\ engineLocked \in BOOLEAN /\ isSynchronizing \in BOOLEAN /\ isAborting \in BOOLEAN
  /\ eSync \in BOOLEAN /\ syncKey \in BOOLEAN /\ injected \in BOOLEAN
  /\ cutShort \in BOOLEAN

WorldFlags ==
  /\ eShutdown \in BOOLEAN /\ isStopping \in BOOLEAN /\ readerStop \in BOOLEAN
  /\ currentLock \in BOOLEAN /\ systemLock \in BOOLEAN /\ hooked \in BOOLEAN
  /\ dropped \in BOOLEAN

Flags == EngineFlags /\ WorldFlags

Data ==
  /\ pc \in {"boundary", "generate", "sync", "wait", "endSync", "endWait", "finish"}
  /\ result \in {"none", "Signaled", "Aborted", "Timeout"}
  /\ frames \in Seq(0..MaxAction)
  /\ appQueue \in Seq(1..MaxSync)
  /\ mailslot \in Seq(Notify)
  /\ reading \in Notify \cup {NoNotify}
  /\ syncs \in 0..MaxSync
  /\ toggled \in 0..MaxMail

IInv == Flags /\ Data /\ Phases /\ Tokens

-----------------------------------------------------------------------------
(* Sequences of actions and of notifications. *)

\* Beginning an action leaves the counts of the sequences in their range.
LEMMA AdvanceType ==
  ASSUME frames \in Seq(0..MaxAction), MoreActions(frames), MaxAction \in Nat
  PROVE  Advance \in Seq(0..MaxAction)
<1>1. Head(frames) = frames[1] /\ 1 \in 1..Len(frames)  BY DEF MoreActions
<1>2. frames[1] \in 0..MaxAction /\ frames[1] > 0  BY <1>1 DEF MoreActions
<1>3. frames[1] - 1 \in 0..MaxAction  BY <1>2
<1> QED  BY <1>1, <1>3 DEF Advance

\* What an application appends and what the reader takes off the mailslot.
LEMMA MailslotShape ==
  ASSUME NEW m \in Seq(Notify)
  PROVE  /\ \A n \in Notify \ {Sync} : NoSyncIn(m) => NoSyncIn(Append(m, n))
         /\ \A n \in Notify \ {Sync} : OneSyncIn(m) => OneSyncIn(Append(m, n))
         /\ NoSyncIn(m) => OneSyncIn(Append(m, Sync)) /\ OneSyncIn(m)
         /\ m # <<>> /\ NoSyncIn(m) => Head(m) # Sync /\ NoSyncIn(Tail(m))
         /\ m # <<>> /\ OneSyncIn(m) => OneSyncIn(Tail(m))
         /\ m # <<>> /\ OneSyncIn(m) /\ Head(m) = Sync => NoSyncIn(Tail(m))
<1>1. \A n \in Notify : /\ Len(Append(m, n)) = Len(m) + 1
                        /\ Append(m, n)[Len(m) + 1] = n
                        /\ \A i \in 1..Len(m) : Append(m, n)[i] = m[i]
  OBVIOUS
<1>2. m # <<>> => /\ Len(Tail(m)) = Len(m) - 1
                  /\ Head(m) = m[1]
                  /\ \A i \in 1..Len(Tail(m)) : Tail(m)[i] = m[i + 1]
  OBVIOUS
<1>3. Len(m) \in Nat /\ (m # <<>> => Len(m) > 0)  OBVIOUS
<1>4. Sync \in Notify  BY DEF Notify
<1>5. \A n \in Notify \ {Sync} : NoSyncIn(m) => NoSyncIn(Append(m, n))
  BY <1>1, <1>3 DEF NoSyncIn
<1>6. \A n \in Notify \ {Sync} : OneSyncIn(m) => OneSyncIn(Append(m, n))
  BY <1>1, <1>3 DEF OneSyncIn
<1>7. NoSyncIn(m) => OneSyncIn(Append(m, Sync)) /\ OneSyncIn(m)
  BY <1>1, <1>3, <1>4 DEF NoSyncIn, OneSyncIn
<1>8. m # <<>> /\ NoSyncIn(m) => Head(m) # Sync /\ NoSyncIn(Tail(m))
  BY <1>2, <1>3 DEF NoSyncIn
<1>9. m # <<>> /\ OneSyncIn(m) => OneSyncIn(Tail(m))
  BY <1>2, <1>3 DEF OneSyncIn
<1>10. m # <<>> /\ OneSyncIn(m) /\ Head(m) = Sync => NoSyncIn(Tail(m))
  BY <1>2, <1>3 DEF OneSyncIn, NoSyncIn
<1> QED  BY <1>5, <1>6, <1>7, <1>8, <1>9, <1>10

\* A notification of the lock state is not one of the sync key.
LEMMA LockIsNotSync == \A l \in BOOLEAN : LockState(l) \in Notify /\ LockState(l) # Sync
  BY DEF Notify, LockState, Sync

-----------------------------------------------------------------------------
(* Each action keeps the invariant. *)

\* The engine thread outside its waits: events and the actions of a sequence.
LEMMA SequenceStep ==
  ASSUME IInv, BeginEvent \/ LeaveSequence \/ ActionKey \/ ActionKeySeq
                 \/ EndSequence \/ EndEvent
  PROVE  IInv'
<1> USE BoundsAssumption DEF IInv
<1>1. CASE BeginEvent
  <2>1. Flags' /\ Data'
    <3>1. frames' \in Seq(0..MaxAction)
      <4>1. CASE isAborting  BY <1>1, <4>1 DEF BeginEvent, Data
      <4>2. CASE ~isAborting
        <5>1. PICK n \in 1..MaxAction : frames' = <<n>>  BY <1>1, <4>2 DEF BeginEvent
        <5>2. n \in 0..MaxAction  OBVIOUS
        <5> QED  BY <5>1, <5>2
      <4> QED  BY <4>1, <4>2
    <3>2. Flags'
      <4>1. EngineFlags'
        BY <1>1
        DEF BeginEvent, Flags, EngineFlags, syncVars, appVars, stopVars, readerVars
      <4>2. WorldFlags'
        BY <1>1 DEF BeginEvent, Flags, WorldFlags, syncVars, appVars, stopVars, readerVars
      <4> QED  BY <4>1, <4>2 DEF Flags
    <3>3. Data'
      BY <1>1, <3>1 DEF BeginEvent, Data, syncVars, appVars, stopVars, readerVars
    <3> QED  BY <3>2, <3>3
  <2>2. Phases'  BY <1>1 DEF BeginEvent, Phases, SyncKeyOnlyInSync, syncVars
  <2>3. Tokens'
    BY <1>1 DEF BeginEvent, Tokens, syncVars, appVars, NoNotifyOfSync, readerVars
  <2> QED  BY <2>1, <2>2, <2>3
<1>2. CASE LeaveSequence
  <2>1. frames' \in Seq(0..MaxAction)  BY <1>2 DEF LeaveSequence, Data
  <2>2. Flags' /\ Data'
    <3>1. Flags'
      <4>1. EngineFlags'
        BY <1>2
        DEF LeaveSequence, Flags, EngineFlags, syncVars, appVars, stopVars, readerVars
      <4>2. WorldFlags'
        BY <1>2
        DEF LeaveSequence, Flags, WorldFlags, syncVars, appVars, stopVars, readerVars
      <4> QED  BY <4>1, <4>2 DEF Flags
    <3>2. Data'
      BY <1>2, <2>1 DEF LeaveSequence, Data, syncVars, appVars, stopVars, readerVars
    <3> QED  BY <3>1, <3>2
  <2>3. Phases'  BY <1>2 DEF LeaveSequence, Phases, SyncKeyOnlyInSync, syncVars
  <2>4. Tokens'
    BY <1>2 DEF LeaveSequence, Tokens, syncVars, appVars, NoNotifyOfSync, readerVars
  <2> QED  BY <2>2, <2>3, <2>4
<1>3. CASE ActionKey
  <2>1. frames' \in Seq(0..MaxAction)
    BY <1>3, AdvanceType DEF ActionKey, Acting, Data
  <2>2. Flags' /\ Data'
    <3>1. Flags'
      <4>1. EngineFlags'
        BY <1>3
        DEF ActionKey, Acting, Flags, EngineFlags, syncVars, appVars, stopVars, readerVars
      <4>2. WorldFlags'
        BY <1>3
        DEF ActionKey, Acting, Flags, WorldFlags, syncVars, appVars, stopVars, readerVars
      <4> QED  BY <4>1, <4>2 DEF Flags
    <3>2. Data'
      BY <1>3, <2>1 DEF ActionKey, Acting, Data, syncVars, appVars, stopVars, readerVars
    <3> QED  BY <3>1, <3>2
  <2>3. Phases'  BY <1>3 DEF ActionKey, Acting, Phases, SyncKeyOnlyInSync, syncVars
  <2>4. Tokens'
    BY <1>3 DEF ActionKey, Acting, Tokens, syncVars, appVars, NoNotifyOfSync, readerVars
  <2> QED  BY <2>2, <2>3, <2>4
<1>4. CASE ActionKeySeq
  <2>1. Advance \in Seq(0..MaxAction)
    BY <1>4, AdvanceType DEF ActionKeySeq, Acting, Data
  <2>2. frames' \in Seq(0..MaxAction)
    <3>1. PICK n \in 1..MaxAction : frames' = <<n>> \o Advance
      BY <1>4 DEF ActionKeySeq
    <3>2. <<n>> \in Seq(0..MaxAction)  OBVIOUS
    <3> QED  BY <3>1, <3>2, <2>1, ConcatProperties
  <2>3. Flags' /\ Data'
    <3>1. Flags'
      <4>1. EngineFlags'
        BY <1>4
        DEF ActionKeySeq, Flags, EngineFlags, syncVars, appVars, stopVars, readerVars
      <4>2. WorldFlags'
        BY <1>4
        DEF ActionKeySeq, Flags, WorldFlags, syncVars, appVars, stopVars, readerVars
      <4> QED  BY <4>1, <4>2 DEF Flags
    <3>2. Data'
      BY <1>4, <2>2
      DEF ActionKeySeq, Acting, Data, syncVars, appVars, stopVars, readerVars
    <3> QED  BY <3>1, <3>2
  <2>4. Phases'  BY <1>4 DEF ActionKeySeq, Acting, Phases, SyncKeyOnlyInSync, syncVars
  <2>5. Tokens'
    BY <1>4
    DEF ActionKeySeq, Acting, Tokens, syncVars, appVars, NoNotifyOfSync, readerVars
  <2> QED  BY <2>3, <2>4, <2>5
<1>5. CASE EndSequence
  <2>1. Flags' /\ Data'
    <3>1. Flags'
      <4>1. EngineFlags'
        BY <1>5
        DEF EndSequence, Flags, EngineFlags, syncVars, appVars, stopVars, readerVars
      <4>2. WorldFlags'
        BY <1>5
        DEF EndSequence, Flags, WorldFlags, syncVars, appVars, stopVars, readerVars
      <4> QED  BY <4>1, <4>2 DEF Flags
    <3>2. Data'  BY <1>5 DEF EndSequence, Data, syncVars, appVars, stopVars, readerVars
    <3> QED  BY <3>1, <3>2
  <2>2. Phases'  BY <1>5 DEF EndSequence, Phases, SyncKeyOnlyInSync, syncVars
  <2>3. Tokens'
    BY <1>5 DEF EndSequence, Tokens, syncVars, appVars, NoNotifyOfSync, readerVars
  <2> QED  BY <2>1, <2>2, <2>3
<1>6. CASE EndEvent
  <2>1. Flags' /\ Data'
    <3>1. Flags'
      <4>1. EngineFlags'
        BY <1>6 DEF EndEvent, Flags, EngineFlags, syncVars, appVars, stopVars, readerVars
      <4>2. WorldFlags'
        BY <1>6 DEF EndEvent, Flags, WorldFlags, syncVars, appVars, stopVars, readerVars
      <4> QED  BY <4>1, <4>2 DEF Flags
    <3>2. Data'  BY <1>6 DEF EndEvent, Data, syncVars, appVars, stopVars, readerVars
    <3> QED  BY <3>1, <3>2
  <2>2. Phases'  BY <1>6 DEF EndEvent, Phases, SyncKeyOnlyInSync, syncVars
  <2>3. Tokens'
    BY <1>6 DEF EndEvent, Tokens, syncVars, appVars, NoNotifyOfSync, readerVars
  <2> QED  BY <2>1, <2>2, <2>3
<1> QED  BY <1>1, <1>2, <1>3, <1>4, <1>5, <1>6

\* Parking the engine thread.
LEMMA ParkStep ==
  ASSUME IInv, StartSync \/ StartWait
  PROVE  IInv'
<1> USE BoundsAssumption DEF IInv
<1>1. pc = "generate" /\ MoreActions(frames)  BY DEF StartSync, StartWait, Acting
<1>2. frames' \in Seq(0..MaxAction)
  BY <1>1, AdvanceType DEF StartSync, StartWait, Data
<1>3. CASE StartSync
  <2>1. appQueue' \in Seq(1..MaxSync) /\ syncs' \in 0..MaxSync
    <3>1. syncs + 1 \in 1..MaxSync  BY <1>3 DEF StartSync, Data
    <3> QED  BY <1>3, <3>1 DEF StartSync, Data
  <2>2. Flags' /\ Data'
    <3>1. Flags'
      <4>1. EngineFlags'
        BY <1>2, <1>3, <2>1 DEF StartSync, Flags, EngineFlags, stopVars, readerVars
      <4>2. WorldFlags'
        BY <1>2, <1>3, <2>1 DEF StartSync, Flags, WorldFlags, stopVars, readerVars
      <4> QED  BY <4>1, <4>2 DEF Flags
    <3>2. Data'  BY <1>2, <1>3, <2>1 DEF StartSync, Data, stopVars, readerVars
    <3> QED  BY <3>1, <3>2
  <2>3. Phases'  BY <1>3 DEF StartSync, Phases, SyncKeyOnlyInSync
  <2>4. Tokens'
    <3> SUFFICES ASSUME ~cutShort PROVE Tokens'
      BY <1>3 DEF StartSync, Tokens, NoNotifyOfSync, readerVars
    <3>1. appQueue = <<>> /\ NoSyncIn(mailslot) /\ reading # Sync
      BY <1>1 DEF Tokens, NoNotifyOfSync
    <3>2. appQueue' = <<syncs'>>  BY <1>3, <3>1 DEF StartSync
    <3>3. OneSyncIn(mailslot)  BY <3>1, MailslotShape DEF Data
    <3> QED  BY <1>3, <3>1, <3>2, <3>3 DEF StartSync, Tokens, NoNotifyOfSync, readerVars
  <2> QED  BY <2>2, <2>3, <2>4
<1>4. CASE StartWait
  <2>1. Flags' /\ Data'
    <3>1. Flags'
      <4>1. EngineFlags'
        BY <1>2, <1>4 DEF StartWait, Flags, EngineFlags, appVars, stopVars, readerVars
      <4>2. WorldFlags'
        BY <1>2, <1>4 DEF StartWait, Flags, WorldFlags, appVars, stopVars, readerVars
      <4> QED  BY <4>1, <4>2 DEF Flags
    <3>2. Data'  BY <1>2, <1>4 DEF StartWait, Data, appVars, stopVars, readerVars
    <3> QED  BY <3>1, <3>2
  <2>2. Phases'  BY <1>1, <1>4 DEF StartWait, Phases, SyncKeyOnlyInSync
  <2>3. Tokens'  BY <1>1, <1>4 DEF StartWait, Tokens, appVars, NoNotifyOfSync, readerVars
  <2> QED  BY <2>1, <2>2, <2>3
<1> QED  BY <1>3, <1>4

\* The end of a wait.
LEMMA WakeStep ==
  ASSUME IInv, Signaled \/ Aborted \/ Timeout \/ EndWait
  PROVE  IInv'
<1> USE DEF IInv
<1>1. CASE Signaled
  <2>1. Flags' /\ Data'
    <3>1. Flags'
      <4>1. EngineFlags'
        BY <1>1 DEF Signaled, Wake, Flags, EngineFlags, appVars, stopVars, readerVars
      <4>2. WorldFlags'
        BY <1>1 DEF Signaled, Wake, Flags, WorldFlags, appVars, stopVars, readerVars
      <4> QED  BY <4>1, <4>2 DEF Flags
    <3>2. Data'  BY <1>1 DEF Signaled, Wake, Data, appVars, stopVars, readerVars
    <3> QED  BY <3>1, <3>2
  <2>2. Phases'  BY <1>1 DEF Signaled, Wake, Phases, SyncKeyOnlyInSync
  <2>3. Tokens'
    BY <1>1 DEF Signaled, Wake, Tokens, appVars, NoNotifyOfSync, readerVars
  <2> QED  BY <2>1, <2>2, <2>3
<1>2. CASE Aborted
  <2>1. Flags' /\ Data'
    <3>1. Flags'
      <4>1. EngineFlags'
        BY <1>2
        DEF Aborted, Parked, Wake, Flags, EngineFlags, appVars, stopVars, readerVars
      <4>2. WorldFlags'
        BY <1>2
        DEF Aborted, Parked, Wake, Flags, WorldFlags, appVars, stopVars, readerVars
      <4> QED  BY <4>1, <4>2 DEF Flags
    <3>2. Data'  BY <1>2 DEF Aborted, Parked, Wake, Data, appVars, stopVars, readerVars
    <3> QED  BY <3>1, <3>2
  <2>2. Phases'  BY <1>2 DEF Aborted, Parked, Wake, Phases, SyncKeyOnlyInSync
  <2>3. Tokens'
    BY <1>2 DEF Aborted, Parked, Wake, Tokens, appVars, NoNotifyOfSync, readerVars
  <2> QED  BY <2>1, <2>2, <2>3
<1>3. CASE Timeout
  <2>1. Flags' /\ Data'
    <3>1. Flags'
      <4>1. EngineFlags'
        BY <1>3
        DEF Timeout, Parked, Wake, Flags, EngineFlags, appVars, stopVars, readerVars
      <4>2. WorldFlags'
        BY <1>3
        DEF Timeout, Parked, Wake, Flags, WorldFlags, appVars, stopVars, readerVars
      <4> QED  BY <4>1, <4>2 DEF Flags
    <3>2. Data'  BY <1>3 DEF Timeout, Parked, Wake, Data, appVars, stopVars, readerVars
    <3> QED  BY <3>1, <3>2
  <2>2. Phases'  BY <1>3 DEF Timeout, Parked, Wake, Phases, SyncKeyOnlyInSync
  <2>3. Tokens'
    BY <1>3 DEF Timeout, Parked, Wake, Tokens, appVars, NoNotifyOfSync, readerVars
  <2> QED  BY <2>1, <2>2, <2>3
<1>4. CASE EndWait
  <2>1. Flags' /\ Data'
    <3>1. Flags'
      <4>1. EngineFlags'
        BY <1>4 DEF EndWait, Flags, EngineFlags, appVars, stopVars, readerVars
      <4>2. WorldFlags'
        BY <1>4 DEF EndWait, Flags, WorldFlags, appVars, stopVars, readerVars
      <4> QED  BY <4>1, <4>2 DEF Flags
    <3>2. Data'  BY <1>4 DEF EndWait, Data, appVars, stopVars, readerVars
    <3> QED  BY <3>1, <3>2
  <2>2. Phases'  BY <1>4 DEF EndWait, Phases, SyncKeyOnlyInSync
  <2>3. Tokens'  BY <1>4 DEF EndWait, Tokens, appVars, NoNotifyOfSync, readerVars
  <2> QED  BY <2>1, <2>2, <2>3
<1> QED  BY <1>1, <1>2, <1>3, <1>4

\* The applications put their notifications into the mailslot.
LEMMA ApplicationStep ==
  ASSUME IInv, TakeMessage \/ ToggleLock
  PROVE  IInv'
<1> USE BoundsAssumption DEF IInv
<1>1. CASE TakeMessage
  <2>1. appQueue' \in Seq(1..MaxSync)  BY <1>1 DEF TakeMessage, Data
  <2>2. mailslot' \in Seq(Notify)  BY <1>1 DEF TakeMessage, Data, Notify
  <2>3. Flags' /\ Data'
    <3>1. Flags'
      <4>1. EngineFlags'
        BY <1>1
        DEF TakeMessage, Flags, EngineFlags, engineVars, syncVars, stopVars, readerVars
      <4>2. WorldFlags'
        BY <1>1
        DEF TakeMessage, Flags, WorldFlags, engineVars, syncVars, stopVars, readerVars
      <4> QED  BY <4>1, <4>2 DEF Flags
    <3>2. Data'
      BY <1>1, <2>1, <2>2
      DEF TakeMessage, Data, engineVars, syncVars, stopVars, readerVars
    <3> QED  BY <3>1, <3>2
  <2>4. Phases'
    BY <1>1 DEF TakeMessage, Phases, SyncKeyOnlyInSync, engineVars, syncVars
  <2>5. Tokens'
    <3> SUFFICES ASSUME ~cutShort PROVE Tokens'
      BY <1>1 DEF TakeMessage, Tokens, NoNotifyOfSync, readerVars
    <3>1. pc = "sync" /\ appQueue = <<syncs>> /\ NoSyncIn(mailslot) /\ ~eSync
      BY <1>1 DEF TakeMessage, Tokens, NoNotifyOfSync, readerVars
    <3>2. appQueue' = <<>>  BY <1>1, <3>1 DEF TakeMessage
    <3>3. OneSyncIn(mailslot')  BY <1>1, <3>1, MailslotShape DEF TakeMessage, Data
    <3> QED
      BY <1>1, <3>1, <3>2, <3>3
      DEF TakeMessage, Tokens, engineVars, syncVars, NoNotifyOfSync, readerVars
  <2> QED  BY <2>3, <2>4, <2>5
<1>2. CASE ToggleLock
  <2>1. PICK l \in BOOLEAN : mailslot' = Append(mailslot, LockState(l))
    BY <1>2 DEF ToggleLock, Data
  <2>2. mailslot' \in Seq(Notify)  BY <2>1, LockIsNotSync DEF Data
  <2>3. Flags' /\ Data'
    <3>1. Flags'
      <4>1. EngineFlags'
        BY <1>2
        DEF ToggleLock, Flags, EngineFlags, engineVars, syncVars, stopVars, readerVars
      <4>2. WorldFlags'
        BY <1>2
        DEF ToggleLock, Flags, WorldFlags, engineVars, syncVars, stopVars, readerVars
      <4> QED  BY <4>1, <4>2 DEF Flags
    <3>2. Data'
      BY <1>2, <2>2 DEF ToggleLock, Data, engineVars, syncVars, stopVars, readerVars
    <3> QED  BY <3>1, <3>2
  <2>4. Phases'
    BY <1>2 DEF ToggleLock, Phases, SyncKeyOnlyInSync, engineVars, syncVars
  <2>5. Tokens'
    <3>1. NoSyncIn(mailslot) => NoSyncIn(mailslot')
      BY <2>1, LockIsNotSync, MailslotShape DEF Data
    <3>2. OneSyncIn(mailslot) => OneSyncIn(mailslot')
      BY <2>1, LockIsNotSync, MailslotShape DEF Data
    <3> QED
      BY <1>2, <3>1, <3>2
      DEF ToggleLock, Tokens, engineVars, syncVars, NoNotifyOfSync, readerVars
  <2> QED  BY <2>3, <2>4, <2>5
<1> QED  BY <1>1, <1>2

\* The reader takes one of them out, and hands it to the engine.
LEMMA ReadStep ==
  ASSUME IInv, ReadMailslot \/ Handle
  PROVE  IInv'
<1> USE DEF IInv
<1>1. CASE ReadMailslot
  <2>1. mailslot # <<>> /\ mailslot \in Seq(Notify) /\ reading # Sync
    BY <1>1 DEF ReadMailslot, Data, NoNotify, Sync
  <2>2. reading' \in Notify /\ mailslot' \in Seq(Notify)  BY <1>1, <2>1 DEF ReadMailslot
  <2>3. Flags'
    <3>1. EngineFlags'
      BY <1>1 DEF ReadMailslot, Flags, EngineFlags, engineVars, syncVars, stopVars
    <3>2. WorldFlags'
      BY <1>1 DEF ReadMailslot, Flags, WorldFlags, engineVars, syncVars, stopVars
    <3> QED  BY <3>1, <3>2 DEF Flags
  <2>4. Data'  BY <1>1, <2>2 DEF ReadMailslot, Data, engineVars, syncVars, stopVars
  <2>5. Phases'
    BY <1>1 DEF ReadMailslot, Phases, SyncKeyOnlyInSync, engineVars, syncVars
  <2>6. Tokens'
    <3>1. /\ NoSyncIn(mailslot) => reading' # Sync /\ NoSyncIn(mailslot')
          /\ OneSyncIn(mailslot) => OneSyncIn(mailslot')
          /\ OneSyncIn(mailslot) /\ reading' = Sync => NoSyncIn(mailslot')
      BY <1>1, <2>1, MailslotShape DEF ReadMailslot
    <3> QED
      BY <1>1, <2>1, <3>1 DEF ReadMailslot, Tokens, NoNotifyOfSync, engineVars, syncVars
  <2> QED  BY <2>3, <2>4, <2>5, <2>6
<1>2. CASE Handle
  <2>1. reading \in Notify  BY <1>2 DEF Handle, Data
  <2>2. reading # Sync => reading.lock \in BOOLEAN  BY <2>1 DEF Notify, LockState
  <2>3. currentLock' \in BOOLEAN  BY <1>2, <2>2 DEF Handle, Flags, WorldFlags
  <2>4. Flags'
    <3>1. EngineFlags'
      BY <1>2, <2>3 DEF Handle, Flags, EngineFlags, engineVars, appVars, stopVars
    <3>2. WorldFlags'
      BY <1>2, <2>3 DEF Handle, Flags, WorldFlags, engineVars, appVars, stopVars
    <3> QED  BY <3>1, <3>2 DEF Flags
  <2>5. Data'  BY <1>2 DEF Handle, Data, engineVars, appVars, stopVars
  <2>6. Phases'  BY <1>2 DEF Handle, Phases, SyncKeyOnlyInSync, engineVars
  <2>7. Tokens'
    <3>1. NoNotify # Sync  BY DEF NoNotify, Sync
    <3> QED  BY <1>2, <3>1 DEF Handle, Tokens, NoNotifyOfSync, engineVars, appVars
  <2> QED  BY <2>4, <2>5, <2>6, <2>7
<1> QED  BY <1>1, <1>2

\* Ending the program touches none of it.
LEMMA ShutdownStep ==
  ASSUME IInv, UninstallMessageHook \/ StopNotifyReader \/ SignalShutdown \/ SignalStop
  PROVE  IInv'
<1>1. Flags'
  <2>1. CASE UninstallMessageHook
    <3>1. EngineFlags'
      BY <2>1 DEF IInv, UninstallMessageHook, Flags, EngineFlags, engineVars, syncVars, readerVars, stopVars
    <3>2. WorldFlags'
      BY <2>1 DEF IInv, UninstallMessageHook, Flags, WorldFlags, engineVars, syncVars, readerVars, stopVars
    <3> QED  BY <3>1, <3>2 DEF Flags
  <2>2. CASE StopNotifyReader
    <3>1. EngineFlags'
      BY <2>2 DEF IInv, StopNotifyReader, Flags, EngineFlags, engineVars, syncVars, appVars, stopVars
    <3>2. WorldFlags'
      BY <2>2 DEF IInv, StopNotifyReader, Flags, WorldFlags, engineVars, syncVars, appVars, stopVars
    <3> QED  BY <3>1, <3>2 DEF Flags
  <2>3. CASE SignalShutdown
    <3>1. EngineFlags'
      BY <2>3 DEF IInv, SignalShutdown, Flags, EngineFlags, engineVars, syncVars, appVars, readerVars
    <3>2. WorldFlags'
      BY <2>3 DEF IInv, SignalShutdown, Flags, WorldFlags, engineVars, syncVars, appVars, readerVars
    <3> QED  BY <3>1, <3>2 DEF Flags
  <2>4. CASE SignalStop
    <3>1. EngineFlags'
      BY <2>4 DEF IInv, SignalStop, Flags, EngineFlags, engineVars, syncVars, appVars, readerVars
    <3>2. WorldFlags'
      BY <2>4 DEF IInv, SignalStop, Flags, WorldFlags, engineVars, syncVars, appVars, readerVars
    <3> QED  BY <3>1, <3>2 DEF Flags
  <2> QED  BY <2>1, <2>2, <2>3, <2>4
<1>2. Data'
  BY DEF IInv, UninstallMessageHook, StopNotifyReader, SignalShutdown, SignalStop, Data,
     engineVars, syncVars, appVars, readerVars, stopVars
<1>3. Phases'
  BY DEF IInv, UninstallMessageHook, StopNotifyReader, SignalShutdown, SignalStop, Phases,
     SyncKeyOnlyInSync, engineVars, syncVars
<1>4. Tokens'
  BY DEF IInv, UninstallMessageHook, StopNotifyReader, SignalShutdown, SignalStop, Tokens,
     NoNotifyOfSync, engineVars, syncVars, appVars, readerVars
<1> QED  BY <1>1, <1>2, <1>3, <1>4 DEF IInv

\* IInv is an inductive invariant of &Sync and &Wait.
THEOREM Inductive == Spec => []IInv
<1>1. Init => IInv
  <2>1. Init => Flags  BY DEF Init, Flags, EngineFlags, WorldFlags
  <2>2. Init => Data  BY BoundsAssumption DEF Init, Data
  <2>3. Init => Phases  BY DEF Init, Phases, SyncKeyOnlyInSync
  <2>4. Init => Tokens  BY DEF Init, Tokens, NoNotifyOfSync, NoSyncIn, NoNotify, Sync
  <2> QED  BY <2>1, <2>2, <2>3, <2>4 DEF IInv
<1>2. IInv /\ UNCHANGED vars => IInv'
  <2> SUFFICES ASSUME IInv, UNCHANGED vars PROVE IInv'  OBVIOUS
  <2> USE DEF vars, engineVars, syncVars, appVars, readerVars, stopVars, history, IInv
  <2>1. EngineFlags'  BY DEF Flags, EngineFlags
  <2>2. WorldFlags'  BY DEF Flags, WorldFlags
  <2>3. Data'  BY DEF Data
  <2>4. Phases'  BY DEF Phases, SyncKeyOnlyInSync
  <2>5. Tokens'  BY DEF Tokens, NoNotifyOfSync
  <2> QED  BY <2>1, <2>2, <2>3, <2>4, <2>5 DEF Flags
<1>3. IInv /\ Next => IInv'
  BY SequenceStep, ParkStep, WakeStep, ApplicationStep, ReadStep, ShutdownStep
  DEF Next, EngineStep
<1> QED  BY <1>1, <1>2, <1>3, PTL DEF Spec

-----------------------------------------------------------------------------
\* Every variable keeps its type: no action of a sequence is run twice.
THEOREM TypeCorrect == Spec => []TypeOK
<1>1. IInv => TypeOK  BY DEF IInv, Flags, EngineFlags, WorldFlags, Data, TypeOK
<1> QED  BY <1>1, Inductive, PTL

\* While m_mutex can be taken in the middle of a key sequence m_isSynchronizing
\* is up, and at an event boundary it is down.
THEOREM Guarded == Spec => []WindowGuarded
<1>1. IInv => WindowGuarded  BY DEF IInv, Data, Phases, WindowGuarded
<1> QED  BY <1>1, Inductive, PTL

\* The hooks report the sync key only while a &Sync is outstanding.
THEOREM KeyReportedInSync == Spec => []SyncKeyOnlyInSync
<1>1. IInv => SyncKeyOnlyInSync  BY DEF IInv, Phases
<1> QED  BY <1>1, Inductive, PTL

\* Unless some &Sync was cut short, a completed &Sync has been seen by the
\* application.
THEOREM Seen == Spec => []SyncSeenUnlessCutShort
<1>1. IInv => SyncSeenUnlessCutShort
  BY DEF IInv, Tokens, NoNotifyOfSync, SyncSeenUnlessCutShort
<1> QED  BY <1>1, Inductive, PTL

\* No notification changes the lock state under a key sequence that is parked.
THEOREM OneState == Spec => SequenceSeesOneState
<1> DEFINE A == pc # "boundary" => currentLock' = currentLock
<1>1. IInv /\ [Next]_vars => [A]_vars
  <2> SUFFICES ASSUME IInv, Next, pc # "boundary" PROVE currentLock' = currentLock
    OBVIOUS
  <2>1. CASE Handle
    <3>1. ~engineLocked => isSynchronizing  BY DEF IInv, Data, Phases
    <3> QED  BY <2>1, <3>1 DEF Handle
  <2>2. CASE ~Handle
    BY <2>2 DEF Next, EngineStep, BeginEvent, LeaveSequence, ActionKey, ActionKeySeq,
       StartSync, StartWait, Signaled, Aborted, Timeout, Wake, EndWait, EndSequence,
       EndEvent, TakeMessage, ToggleLock, ReadMailslot, UninstallMessageHook,
       StopNotifyReader, SignalShutdown, SignalStop
  <2> QED  BY <2>1, <2>2
<1> QED  BY <1>1, Inductive, PTL DEF Spec, SequenceSeesOneState
-----------------------------------------------------------------------------
(* The lock keys: what the last notification on its way says is so. *)

IsLock(n) == n \notin {Sync, NoNotify}

NoLockIn(m) == \A i \in 1..Len(m) : ~IsLock(m[i])

\* the i-th notification is about the lock keys, and none after it is
LastLockIn(m, i) ==
  /\ i \in 1..Len(m)
  /\ IsLock(m[i])
  /\ \A j \in 1..Len(m) : j > i => ~IsLock(m[j])

\* The latest state of the lock keys is what the last notification in the mailslot
\* says; if there is none, what the reader has in hand says; and if that says
\* nothing either, what the engine has, unless it dropped a notification.
LockTold ==
  /\ \A i \in 1..Len(mailslot) :
       LastLockIn(mailslot, i) => mailslot[i] = LockState(systemLock)
  /\ NoLockIn(mailslot) =>
       /\ IsLock(reading) => reading = LockState(systemLock)
       /\ ~IsLock(reading) /\ ~dropped => currentLock = systemLock

\* A notification of the sync key leaves the last one of the lock keys what it
\* was, one of the lock keys becomes the last, and the reader takes the first.
LEMMA LastLock ==
  ASSUME NEW m \in Seq(Notify)
  PROVE  /\ NoLockIn(Append(m, Sync)) <=> NoLockIn(m)
         /\ \A i \in 1..Len(Append(m, Sync)) : LastLockIn(Append(m, Sync), i) =>
              LastLockIn(m, i) /\ Append(m, Sync)[i] = m[i]
         /\ \A l \in BOOLEAN :
              /\ ~NoLockIn(Append(m, LockState(l)))
              /\ \A i \in 1..Len(Append(m, LockState(l))) :
                   LastLockIn(Append(m, LockState(l)), i) =>
                     Append(m, LockState(l))[i] = LockState(l)
         /\ m # <<>> =>
              /\ \A i \in 1..Len(Tail(m)) : LastLockIn(Tail(m), i) =>
                   LastLockIn(m, i + 1) /\ Tail(m)[i] = m[i + 1]
              /\ NoLockIn(Tail(m)) /\ IsLock(Head(m)) =>
                   LastLockIn(m, 1) /\ m[1] = Head(m)
              /\ NoLockIn(Tail(m)) /\ ~IsLock(Head(m)) => NoLockIn(m)
<1>1. \A n \in Notify : /\ Len(Append(m, n)) = Len(m) + 1
                        /\ Append(m, n)[Len(m) + 1] = n
                        /\ \A i \in 1..Len(m) : Append(m, n)[i] = m[i]
  OBVIOUS
<1>2. m # <<>> => /\ Len(m) = Len(Tail(m)) + 1
                  /\ Head(m) = m[1]
                  /\ \A i \in 1..Len(Tail(m)) : Tail(m)[i] = m[i + 1]
                  /\ Len(Tail(m)) \in Nat
  OBVIOUS
<1>3. Len(m) \in Nat  OBVIOUS
<1>4. Sync \in Notify /\ ~IsLock(Sync)  BY DEF Notify, IsLock
<1>5. \A l \in BOOLEAN : LockState(l) \in Notify /\ IsLock(LockState(l))
  BY LockIsNotSync DEF IsLock, NoNotify, LockState
<1>6. NoLockIn(Append(m, Sync)) <=> NoLockIn(m)
  BY <1>1, <1>3, <1>4 DEF NoLockIn
<1>7. \A i \in 1..Len(Append(m, Sync)) : LastLockIn(Append(m, Sync), i) =>
        LastLockIn(m, i) /\ Append(m, Sync)[i] = m[i]
  BY <1>1, <1>3, <1>4 DEF LastLockIn
<1>8. ASSUME NEW l \in BOOLEAN
      PROVE  /\ ~NoLockIn(Append(m, LockState(l)))
             /\ \A i \in 1..Len(Append(m, LockState(l))) :
                  LastLockIn(Append(m, LockState(l)), i) =>
                    Append(m, LockState(l))[i] = LockState(l)
  <2> DEFINE a == Append(m, LockState(l))
  <2>1. Len(a) = Len(m) + 1 /\ a[Len(m) + 1] = LockState(l) /\ IsLock(LockState(l))
    BY <1>1, <1>5
  <2> HIDE DEF a
  <2>2. ~NoLockIn(a)  BY <1>3, <2>1 DEF NoLockIn
  <2>3. \A i \in 1..Len(a) : LastLockIn(a, i) => i = Len(m) + 1
    BY <1>3, <2>1 DEF LastLockIn
  <2>4. \A i \in 1..Len(a) : LastLockIn(a, i) => a[i] = LockState(l)
    BY <2>1, <2>3
  <2> QED  BY <2>2, <2>4 DEF a
<1>9. ASSUME m # <<>>
      PROVE  /\ \A i \in 1..Len(Tail(m)) : LastLockIn(Tail(m), i) =>
                  LastLockIn(m, i + 1) /\ Tail(m)[i] = m[i + 1]
             /\ NoLockIn(Tail(m)) /\ IsLock(Head(m)) => LastLockIn(m, 1) /\ m[1] = Head(m)
             /\ NoLockIn(Tail(m)) /\ ~IsLock(Head(m)) => NoLockIn(m)
  <2> DEFINE t == Tail(m)
  <2>1. /\ Len(t) \in Nat /\ Len(m) = Len(t) + 1 /\ Head(m) = m[1]
        /\ \A i \in 1..Len(t) : t[i] = m[i + 1]
    BY <1>2, <1>9
  <2> HIDE DEF t
  <2>2. \A j \in 1..Len(m) : j = 1 \/ (j - 1 \in 1..Len(t) /\ m[j] = t[j - 1])
    <3> SUFFICES ASSUME NEW j \in 1..Len(m), j # 1
                 PROVE  j - 1 \in 1..Len(t) /\ m[j] = t[j - 1]
      OBVIOUS
    <3>1. j - 1 \in 1..Len(t) /\ (j - 1) + 1 = j  BY <2>1
    <3> QED  BY <2>1, <3>1
  <2>3. ASSUME NEW i \in 1..Len(t), LastLockIn(t, i)
        PROVE  LastLockIn(m, i + 1) /\ t[i] = m[i + 1]
    <3>1. i + 1 \in 1..Len(m) /\ IsLock(m[i + 1]) /\ t[i] = m[i + 1]
      BY <2>1, <2>3 DEF LastLockIn
    <3>2. ASSUME NEW j \in 1..Len(m), j > i + 1 PROVE ~IsLock(m[j])
      <4>1. j - 1 \in 1..Len(t) /\ m[j] = t[j - 1] /\ j - 1 > i
        BY <2>1, <2>2, <3>2
      <4> QED  BY <2>3, <4>1 DEF LastLockIn
    <3> QED  BY <3>1, <3>2 DEF LastLockIn
  <2>4. ASSUME NoLockIn(t), IsLock(Head(m)) PROVE LastLockIn(m, 1) /\ m[1] = Head(m)
    <3>1. \A j \in 1..Len(m) : j > 1 => ~IsLock(m[j])
      BY <2>1, <2>2, <2>4 DEF NoLockIn
    <3> QED  BY <2>1, <2>4, <3>1 DEF LastLockIn
  <2>5. ASSUME NoLockIn(t), ~IsLock(Head(m)) PROVE NoLockIn(m)
    BY <2>1, <2>2, <2>5 DEF NoLockIn
  <2> QED  BY <2>3, <2>4, <2>5 DEF t
<1> QED  BY <1>6, <1>7, <1>8, <1>9

\* What neither the applications nor the reader do leaves it alone.
LEMMA LockUntouched ==
  ASSUME LockTold, UNCHANGED <<mailslot, reading, systemLock, currentLock, dropped>>
  PROVE  LockTold'
BY DEF LockTold

LEMMA NextLockTold == IInv /\ LockTold /\ [Next]_vars => LockTold'
<1> SUFFICES ASSUME IInv, LockTold, [Next]_vars PROVE LockTold'  OBVIOUS
<1>0. mailslot \in Seq(Notify) /\ reading \in Notify \cup {NoNotify}
  BY DEF IInv, Data
<1>1. CASE TakeMessage
  <2>1. UNCHANGED <<reading, systemLock, currentLock, dropped>>
    BY <1>1 DEF TakeMessage, readerVars
  <2>2. CASE mailslot' = mailslot  BY <2>1, <2>2, LockUntouched
  <2>3. CASE mailslot' = Append(mailslot, Sync)
    <3>1. NoLockIn(mailslot') => NoLockIn(mailslot)  BY <1>0, <2>3, LastLock
    <3>2. \A i \in 1..Len(mailslot') : LastLockIn(mailslot', i) =>
            LastLockIn(mailslot, i) /\ mailslot'[i] = mailslot[i]
      BY <1>0, <2>3, LastLock
    <3>3. \A i \in 1..Len(mailslot') :
            LastLockIn(mailslot', i) => mailslot'[i] = LockState(systemLock')
      BY <2>1, <3>2 DEF LockTold, LastLockIn
    <3>4. NoLockIn(mailslot') =>
            /\ IsLock(reading') => reading' = LockState(systemLock')
            /\ ~IsLock(reading') /\ ~dropped' => currentLock' = systemLock'
      BY <2>1, <3>1 DEF LockTold
    <3> QED  BY <3>3, <3>4 DEF LockTold
  <2> QED  BY <1>1, <2>2, <2>3 DEF TakeMessage
<1>2. CASE ToggleLock
  <2>1. systemLock' \in BOOLEAN /\ mailslot' = Append(mailslot, LockState(systemLock'))
    BY <1>2 DEF ToggleLock
  <2>2. /\ ~NoLockIn(mailslot')
        /\ \A i \in 1..Len(mailslot') :
             LastLockIn(mailslot', i) => mailslot'[i] = LockState(systemLock')
    BY <1>0, <2>1, LastLock
  <2> QED  BY <2>2 DEF LockTold
<1>3. CASE ReadMailslot
  <2>1. /\ mailslot # <<>> /\ mailslot' = Tail(mailslot)
        /\ reading = NoNotify /\ reading' = Head(mailslot)
        /\ UNCHANGED <<systemLock, currentLock, dropped>>
    BY <1>3 DEF ReadMailslot
  <2>2. \A i \in 1..Len(mailslot') : LastLockIn(mailslot', i) =>
          LastLockIn(mailslot, i + 1) /\ mailslot'[i] = mailslot[i + 1]
    BY <1>0, <2>1, LastLock
  <2>3. \A i \in 1..Len(mailslot') :
          LastLockIn(mailslot', i) => mailslot'[i] = LockState(systemLock')
    BY <2>1, <2>2 DEF LockTold, LastLockIn
  <2>4. NoLockIn(mailslot') /\ IsLock(reading') => reading' = LockState(systemLock')
    <3>1. NoLockIn(mailslot') /\ IsLock(reading') =>
            LastLockIn(mailslot, 1) /\ mailslot[1] = reading'
      BY <1>0, <2>1, LastLock
    <3> QED  BY <2>1, <3>1 DEF LockTold, LastLockIn
  <2>5. NoLockIn(mailslot') /\ ~IsLock(reading') /\ ~dropped' => currentLock' = systemLock'
    <3>1. NoLockIn(mailslot') /\ ~IsLock(reading') => NoLockIn(mailslot)
      BY <1>0, <2>1, LastLock
    <3> QED  BY <2>1, <3>1 DEF LockTold, IsLock
  <2> QED  BY <2>3, <2>4, <2>5 DEF LockTold
<1>4. CASE Handle
  <2>1. /\ UNCHANGED <<mailslot, systemLock>>
        /\ reading # NoNotify /\ reading' = NoNotify
        /\ dropped' = (dropped \/ (reading # Sync /\ isSynchronizing))
    BY <1>4 DEF Handle, appVars
  <2>2. ASSUME NoLockIn(mailslot), ~dropped' PROVE currentLock' = systemLock
    <3>1. ~dropped  BY <2>1, <2>2
    <3>2. CASE reading = Sync
      BY <1>4, <2>2, <3>1, <3>2 DEF Handle, LockTold, IsLock
    <3>3. CASE reading # Sync
      <4>1. reading = LockState(systemLock)  BY <2>1, <2>2, <3>3 DEF LockTold, IsLock
      <4>2. currentLock' = reading.lock  BY <1>4, <2>1, <2>2, <3>3 DEF Handle
      <4> QED  BY <4>1, <4>2 DEF LockState
    <3> QED  BY <3>2, <3>3
  <2> QED  BY <2>1, <2>2 DEF LockTold, IsLock
<1>5. CASE BeginEvent \/ LeaveSequence \/ ActionKey \/ ActionKeySeq \/ StartSync \/ StartWait
  BY <1>5, LockUntouched
  DEF BeginEvent, LeaveSequence, ActionKey, ActionKeySeq, StartSync, StartWait,
      appVars, readerVars
<1>6. CASE Signaled \/ Aborted \/ Timeout \/ EndWait \/ EndSequence \/ EndEvent
  BY <1>6, LockUntouched
  DEF Signaled, Aborted, Timeout, Wake, EndWait, EndSequence, EndEvent, appVars,
      readerVars
<1>7. CASE UninstallMessageHook \/ StopNotifyReader \/ SignalShutdown \/ SignalStop
  BY <1>7, LockUntouched
  DEF UninstallMessageHook, StopNotifyReader, SignalShutdown, SignalStop, appVars,
      readerVars
<1>8. CASE UNCHANGED vars
  BY <1>8, LockUntouched DEF vars, appVars, readerVars, history
<1> QED  BY <1>1, <1>2, <1>3, <1>4, <1>5, <1>6, <1>7, <1>8 DEF Next, EngineStep

\* The engine's idea of the lock keys is out of date only while a notification is
\* on its way, or after one came in the middle of a key sequence and was dropped.
THEOREM LockFollows == Spec => []LockStateFollows
<1>1. Init => LockTold
  <2> SUFFICES ASSUME Init PROVE LockTold  OBVIOUS
  <2>1. mailslot = <<>> /\ ~IsLock(reading) /\ currentLock = systemLock
    BY DEF Init, IsLock
  <2>2. 1..Len(mailslot) = {}  BY <2>1
  <2> QED  BY <2>1, <2>2 DEF LockTold
<1>2. LockTold => LockStateFollows
  <2>1. mailslot = <<>> => NoLockIn(mailslot)  BY DEF NoLockIn
  <2> QED  BY <2>1 DEF LockTold, LockStateFollows, IsLock
<1> QED  BY <1>1, <1>2, NextLockTold, Inductive, PTL DEF Spec

-----------------------------------------------------------------------------
(* Prefix keys: what the calls of an event are made of. *)

\* A call has what its kind says.
LEMMA CallOf ==
  ASSUME NEW h \in Calls
  PROVE  /\ h.do \in {"begin", "end", "lookup", "event", "return", "act", "prefixed"}
         /\ h.do \in {"begin", "lookup", "event", "act"} => h.c \in Lookups
         /\ h.do \in {"begin", "end"} => h.isModifier \in BOOLEAN
         /\ h.do = "end" => h.cur \in Keymaps /\ h.press \in BOOLEAN
         /\ h.do = "act" => h.act \in Actions
         /\ h.do = "prefixed" => h.ignore \in BOOLEAN
<1>1. CASE h \in [do : {"begin"}, c : Lookups, isModifier : BOOLEAN]  BY <1>1
<1>2. CASE h \in [do : {"end"}, press : BOOLEAN, isModifier : BOOLEAN, cur : Keymaps]  BY <1>2
<1>3. CASE h \in [do : {"lookup", "event"}, c : Lookups]  BY <1>3
<1>4. CASE h \in [do : {"return"}]  BY <1>4
<1>5. CASE h \in [do : {"act"}, act : Actions, c : Lookups]  BY <1>5
<1>6. CASE h \in [do : {"prefixed"}, ignore : BOOLEAN]  BY <1>6
<1> QED  BY <1>1, <1>2, <1>3, <1>4, <1>5, <1>6 DEF Calls

\* What is looked up stays of its type with another keymap, place, key or press.
LEMMA LookedUpType ==
  ASSUME NEW c \in Lookups
  PROVE  /\ \A km \in Keymaps : [c EXCEPT !.km = km] \in Lookups
         /\ \A km \in Keymaps, i \in Nat \ {0} : [c EXCEPT !.km = km, !.i = i] \in Lookups
         /\ \A km \in Keymaps, e \in KeyEvents : [c EXCEPT !.km = km, !.key = e] \in Lookups
         /\ \A press \in BOOLEAN : [c EXCEPT !.press = press] \in Lookups
BY DEF Lookups

\* A sequence of actions makes a sequence of calls.
LEMMA RunType ==
  ASSUME NEW c \in Lookups, NEW acts \in Seq(Actions), NEW part \in {"all", "down", "up"}
  PROVE  Run(c, acts, part) \in Seq(Calls)
<1> DEFINE n == Len(acts)
           taps == [i \in 1 .. 2 * n |-> Act(acts[(i + 1) \div 2], c, i % 2 = 1)]
<1>1. n \in Nat /\ 2 * n \in Nat  OBVIOUS
<1>2. CASE n = 0  BY <1>2 DEF Run
<1>3. CASE n # 0
  <2>1. ASSUME NEW i \in 1 .. 2 * n PROVE taps[i] \in Calls
    <3>1. (i + 1) \div 2 \in 1 .. n  BY <1>1
    <3>2. acts[(i + 1) \div 2] \in Actions  BY <3>1
    <3>3. taps[i] = Act(acts[(i + 1) \div 2], c, i % 2 = 1)  OBVIOUS
    <3>4. (i % 2 = 1) \in BOOLEAN  OBVIOUS
    <3>5. [c EXCEPT !.press = (i % 2 = 1)] \in Lookups  BY <3>4, LookedUpType
    <3> QED  BY <3>2, <3>3, <3>5 DEF Act, Calls
  <2>2. taps \in Seq(Calls) /\ Len(taps) = 2 * n  BY <1>1, <2>1
  <2>3. Run(c, acts, part) = CASE part = "all"  -> taps
                               [] part = "down" -> SubSeq(taps, 1, 2 * n - 1)
                               [] part = "up"   -> SubSeq(taps, 2 * n, 2 * n)
    BY <1>3 DEF Run
  <2> HIDE DEF taps
  <2>4. SubSeq(taps, 1, 2 * n - 1) \in Seq(Calls)
    <3>1. \A i \in 1 .. 2 * n - 1 : i \in 1 .. Len(taps)  BY <1>1, <2>2
    <3> QED  BY <1>1, <2>2, <3>1, SubSeqProperties
  <2>5. SubSeq(taps, 2 * n, 2 * n) \in Seq(Calls)
    <3>1. \A i \in 2 * n .. 2 * n : i \in 1 .. Len(taps)  BY <1>1, <1>3, <2>2
    <3> QED  BY <1>1, <2>2, <3>1, SubSeqProperties
  <2> QED  BY <2>2, <2>3, <2>4, <2>5
<1> QED  BY <1>2, <1>3

\* A set of places in a sequence that is not empty has a first one.
LEMMA FirstPlace ==
  ASSUME NEW T \in SUBSET Nat, T # {}
  PROVE  \E i \in T : \A j \in T : i <= j
<1> DEFINE R == OpToRel(<, Nat)
<1>1. IsWellFoundedOn(R, Nat)  BY NatLessThanWellFounded
<1>2. \A i, j \in Nat : i < j => <<i, j>> \in R  BY DEF OpToRel
<1> HIDE DEF R
<1>3. PICK i \in T : \A j \in T : <<j, i>> \notin R  BY <1>1, WFMin
<1>4. \A j \in T : j \in Nat /\ i \in Nat /\ ~(j < i)  BY <1>2, <1>3
<1> QED  BY <1>4

\* What is found for a key is a sequence of actions.
LEMMA FoundType ==
  ASSUME NEW c \in Lookups, Places(c) # {}
  PROVE  Found(c).acts \in Seq(Actions)
<1> DEFINE here == Assigned[c.km]
           Assignments == [key : Keys \union KeyEvents, shifted : Shifts, when : Whens,
                           acts : Seq(Actions)]
<1>1. here \in Seq(Assignments)
  BY KeymapsAssumption DEF Lookups
<1> HIDE DEF Assignments
<1>2. Places(c) \subseteq DOMAIN here  BY DEF Places
<1>3. Places(c) \subseteq Nat  BY <1>1, <1>2
<1>4. PICK i \in Places(c) : Found(c) = here[i]
  <2>1. \E i \in Places(c) : \A j \in Places(c) : i <= j  BY <1>3, FirstPlace
  <2>2. (CHOOSE i \in Places(c) : \A j \in Places(c) : i <= j) \in Places(c)  BY <2>1
  <2> QED  BY <2>2 DEF Found
<1>5. here[i] \in Assignments
  <2>1. i \in DOMAIN here  BY <1>2, <1>4
  <2> HIDE DEF here
  <2> QED  BY <1>1, <2>1
<1> QED  BY <1>4, <1>5 DEF Assignments

-----------------------------------------------------------------------------
(* What an event has still to do brings the current keymap home. *)

\* The current keymap is where it should be at the end of an event, ...
AtHome == eng.prefix \/ eng.late \/ eng.cur = Home

\* ... or a call that waits will see to it.
Restores(h) == h.do = "prefixed" \/ (h.do = "end" /\ ~h.isModifier)

HomeInv == AtHome \/ \E i \in DOMAIN todo : Restores(todo[i])

\* Once another key was typed no one-shot key is remembered.
UsedForgets == used = {} \/ oneShot.key = None

PrefixIInv == PrefixTypeOK /\ HomeInv /\ HistoryFollowsChain /\ UsedForgets

\* The calls that take the place of one leave those after it as they are.
LEMMA MakingKeeps ==
  ASSUME todo \in Seq(Calls), todo # <<>>, NEW calls \in Seq(Calls), Making(calls)
  PROVE  /\ todo' \in Seq(Calls)
         /\ Call \in Calls
         /\ \A i \in DOMAIN calls : i \in DOMAIN todo' /\ todo'[i] = calls[i]
         /\ \A i \in DOMAIN todo : i # 1 => \E j \in DOMAIN todo' : todo'[j] = todo[i]
         /\ UNCHANGED keyVars
<1>1. Tail(todo) \in Seq(Calls) /\ Head(todo) = todo[1] /\ Len(Tail(todo)) = Len(todo) - 1
      /\ \A i \in 1 .. Len(todo) - 1 : Tail(todo)[i] = todo[i + 1]
      /\ Len(todo) \in Nat /\ Len(todo) >= 1
  OBVIOUS
<1>2. todo' = calls \o Tail(todo)  BY DEF Making
<1>3. /\ todo' \in Seq(Calls) /\ Len(todo') = Len(calls) + (Len(todo) - 1)
      /\ \A i \in 1 .. Len(calls) : todo'[i] = calls[i]
      /\ \A i \in 1 .. Len(todo) - 1 : todo'[Len(calls) + i] = Tail(todo)[i]
  BY <1>1, <1>2
<1>4. Call \in Calls  BY <1>1 DEF Call
<1>5. ASSUME NEW i \in DOMAIN todo, i # 1
      PROVE  \E j \in DOMAIN todo' : todo'[j] = todo[i]
  <2>1. i - 1 \in 1 .. Len(todo) - 1  BY <1>1, <1>5
  <2>2. Tail(todo)[i - 1] = todo[(i - 1) + 1] /\ (i - 1) + 1 = i  BY <1>1, <2>1
  <2>4. todo'[Len(calls) + (i - 1)] = Tail(todo)[i - 1]  BY <1>3, <2>1
  <2>3. Len(calls) + (i - 1) \in DOMAIN todo'  BY <1>1, <1>3, <2>1
  <2> QED  BY <2>2, <2>3, <2>4
<1>6. ASSUME NEW i \in DOMAIN calls PROVE i \in DOMAIN todo' /\ todo'[i] = calls[i]
  <2>1. i \in 1 .. Len(calls) /\ Len(calls) \in Nat  OBVIOUS
  <2>2. todo'[i] = calls[i]  BY <1>3, <2>1
  <2>3. DOMAIN todo' = 1 .. Len(todo')  BY <1>3
  <2>4. i \in 1 .. Len(todo')  BY <1>1, <1>3, <2>1
  <2> QED  BY <2>2, <2>3, <2>4
<1>7. UNCHANGED keyVars  BY DEF Making
<1> QED  BY <1>3, <1>4, <1>5, <1>6, <1>7

\* A call that restores nothing and leaves the keymap at home keeps the promise, and so
\* does one that makes a call which restores it.
LEMMA HomeKept ==
  ASSUME PrefixTypeOK, HomeInv, todo # <<>>, NEW calls \in Seq(Calls), Making(calls),
         \/ AtHome' 
         \/ \E i \in DOMAIN calls : Restores(calls[i])
         \/ ~Restores(Call) /\ (AtHome => AtHome')
  PROVE  HomeInv'
<1>1. /\ \A i \in DOMAIN calls : i \in DOMAIN todo' /\ todo'[i] = calls[i]
      /\ \A i \in DOMAIN todo : i # 1 => \E j \in DOMAIN todo' : todo'[j] = todo[i]
  BY MakingKeeps DEF PrefixTypeOK
<1>2. CASE AtHome'  BY <1>2 DEF HomeInv
<1>3. CASE \E i \in DOMAIN calls : Restores(calls[i])  BY <1>1, <1>3 DEF HomeInv
<1>4. CASE ~AtHome' /\ ~Restores(Call) /\ (AtHome => AtHome')
  <2>1. PICK i \in DOMAIN todo : Restores(todo[i])  BY <1>4 DEF HomeInv
  <2>2. Call = todo[1]  BY DEF Call, PrefixTypeOK
  <2>3. i # 1  BY <1>4, <2>1, <2>2
  <2>4. PICK j \in DOMAIN todo' : todo'[j] = todo[i]  BY <1>1, <2>3
  <2>5. Restores(todo'[j])  BY <2>1, <2>4
  <2> QED  BY <2>5 DEF HomeInv
<1> QED  BY <1>2, <1>3, <1>4

-----------------------------------------------------------------------------
(* The history of the prefixes. *)

\* How the end of a sequence is read, and what Append, Tail and SubSeq leave of it.
FromEnd(s, n) == s[Len(s) - n + 1]

\* &Prefix adds the same keymap to the history and to the way.
LEMMA HistoryGrows ==
  ASSUME NEW hist \in Seq(Keymaps), Len(hist) <= MaxHistory,
         NEW chain \in Seq(Keymaps), NEW km \in Keymaps,
         \A n \in 1 .. Len(chain) : n <= Len(hist) /\ FromEnd(hist, n) = FromEnd(chain, n)
  PROVE  LET h == Remember(hist, km)
             w == Latest(Append(chain, km))
         IN  /\ h \in Seq(Keymaps) /\ Len(h) <= MaxHistory
             /\ w \in Seq(Keymaps)
             /\ \A n \in 1 .. Len(w) : n <= Len(h) /\ FromEnd(h, n) = FromEnd(w, n)
<1> DEFINE h1 == Append(hist, km)
           w1 == Append(chain, km)
           h == Remember(hist, km)
           w == Latest(w1)
<1>0. MaxHistory \in Nat /\ MaxHistory >= 1  BY LimitsAssumption
<1>1. /\ h1 \in Seq(Keymaps) /\ Len(h1) = Len(hist) + 1
      /\ \A i \in 1 .. Len(hist) : h1[i] = hist[i]
      /\ h1[Len(hist) + 1] = km /\ Len(hist) \in Nat
  OBVIOUS
<1>2. /\ w1 \in Seq(Keymaps) /\ Len(w1) = Len(chain) + 1
      /\ \A i \in 1 .. Len(chain) : w1[i] = chain[i]
      /\ w1[Len(chain) + 1] = km /\ Len(chain) \in Nat
  OBVIOUS
<1> HIDE DEF h1, w1
<1>3. Len(chain) <= Len(hist)
  <2>1. CASE Len(chain) = 0  BY <1>1, <2>1
  <2>2. CASE Len(chain) # 0  BY <1>2, <2>2
  <2> QED  BY <2>1, <2>2
<1>4. /\ h \in Seq(Keymaps) /\ Len(h) <= MaxHistory /\ Len(h) \in Nat
      /\ Len(h) = IF Len(h1) > MaxHistory THEN MaxHistory ELSE Len(h1)
      /\ \A n \in 1 .. Len(h) : FromEnd(h, n) = FromEnd(h1, n)
  <2>1. CASE Len(h1) > MaxHistory
    <3>1. h = Tail(h1)  BY <2>1 DEF Remember, h1
    <3>2. Len(h1) = MaxHistory + 1  BY <1>0, <1>1, <2>1
    <3>3. h1 # <<>>  BY <1>0, <3>2
    <3>4. h \in Seq(Keymaps) /\ Len(h) = MaxHistory /\ \A i \in 1 .. MaxHistory : h[i] = h1[i + 1]
      BY <1>0, <1>1, <3>1, <3>2, <3>3
    <3> QED  BY <1>0, <2>1, <3>2, <3>4 DEF FromEnd
  <2>2. CASE ~(Len(h1) > MaxHistory)
    <3>1. h = h1  BY <2>2 DEF Remember, h1
    <3> QED  BY <1>0, <1>1, <2>2, <3>1
  <2> QED  BY <2>1, <2>2
<1>5. /\ w \in Seq(Keymaps)
      /\ Len(w) = IF Len(w1) > MaxHistory THEN MaxHistory ELSE Len(w1)
      /\ \A n \in 1 .. Len(w) : FromEnd(w, n) = FromEnd(w1, n)
  <2> DEFINE m == IF Len(w1) > MaxHistory THEN Len(w1) - MaxHistory + 1 ELSE 1
  <2>1. m \in 1 .. Len(w1) /\ m \in Int /\ Len(w1) \in Int  BY <1>0, <1>2
  <2>2. w = SubSeq(w1, m, Len(w1))  BY DEF Latest
  <2>3. \A i \in m .. Len(w1) : w1[i] \in Keymaps  BY <1>2, <2>1
  <2>4. /\ w \in Seq(Keymaps) /\ Len(w) = Len(w1) - m + 1
        /\ \A i \in 1 .. Len(w1) - m + 1 : w[i] = w1[m + i - 1]
    <3> HIDE DEF m, w
    <3>1. m <= Len(w1) + 1  BY <2>1
    <3>2. /\ SubSeq(w1, m, Len(w1)) \in Seq(Keymaps)
          /\ Len(SubSeq(w1, m, Len(w1))) = IF m <= Len(w1) THEN Len(w1) - m + 1 ELSE 0
          /\ \A i \in 1 .. Len(w1) - m + 1 : SubSeq(w1, m, Len(w1))[i] = w1[m + i - 1]
      BY <1>2, <2>1, <2>3, <3>1, SubSeqProperties
    <3> QED  BY <2>1, <2>2, <3>2
  <2>5. Len(w) = IF Len(w1) > MaxHistory THEN MaxHistory ELSE Len(w1)  BY <1>0, <1>2, <2>4
  <2>6. ASSUME NEW n \in 1 .. Len(w) PROVE FromEnd(w, n) = FromEnd(w1, n)
    <3>1. Len(w) - n + 1 \in 1 .. Len(w1) - m + 1  BY <2>1, <2>4
    <3>2. m + (Len(w) - n + 1) - 1 = Len(w1) - n + 1  BY <2>1, <2>4
    <3>3. w[Len(w) - n + 1] = w1[m + (Len(w) - n + 1) - 1]  BY <2>4, <3>1
    <3> QED  BY <3>2, <3>3 DEF FromEnd
  <2> QED  BY <2>4, <2>5, <2>6
<1>6. ASSUME NEW n \in 1 .. Len(w) PROVE n <= Len(h) /\ FromEnd(h1, n) = FromEnd(w1, n)
  <2>1. n \in Nat /\ n >= 1 /\ n <= Len(w1) /\ n <= Len(h)  BY <1>0, <1>1, <1>2, <1>3, <1>4, <1>5
  <2>2. CASE n = 1
    <3>1. Len(h1) - 1 + 1 = Len(hist) + 1 /\ Len(w1) - 1 + 1 = Len(chain) + 1  BY <1>1, <1>2
    <3> QED  BY <1>1, <1>2, <2>1, <2>2, <3>1 DEF FromEnd
  <2>3. CASE n > 1
    <3>1. n - 1 \in 1 .. Len(chain)  BY <1>2, <2>1, <2>3
    <3>2. FromEnd(hist, n - 1) = FromEnd(chain, n - 1)  BY <3>1
    <3>3. Len(h1) - n + 1 = Len(hist) - (n - 1) + 1
          /\ Len(hist) - (n - 1) + 1 \in 1 .. Len(hist)
      BY <1>1, <1>2, <1>3, <3>1
    <3>4. Len(w1) - n + 1 = Len(chain) - (n - 1) + 1
          /\ Len(chain) - (n - 1) + 1 \in 1 .. Len(chain)
      BY <1>2, <3>1
    <3>5. h1[Len(h1) - n + 1] = hist[Len(hist) - (n - 1) + 1]  BY <1>1, <3>3
    <3>6. w1[Len(w1) - n + 1] = chain[Len(chain) - (n - 1) + 1]  BY <1>2, <3>4
    <3> QED  BY <2>1, <3>2, <3>5, <3>6 DEF FromEnd
  <2> QED  BY <2>1, <2>2, <2>3
<1> HIDE DEF h, w
<1>7. \A n \in 1 .. Len(w) : n <= Len(h) /\ FromEnd(h, n) = FromEnd(w, n)
  <2> SUFFICES ASSUME NEW n \in 1 .. Len(w)
               PROVE  n <= Len(h) /\ FromEnd(h, n) = FromEnd(w, n)
    OBVIOUS
  <2>1. n <= Len(h) /\ n \in 1 .. Len(h)  BY <1>4, <1>6
  <2> QED  BY <1>4, <1>5, <1>6, <2>1
<1> QED  BY <1>4, <1>5, <1>7 DEF h, w, w1

-----------------------------------------------------------------------------
(* The steps. *)

\* A step that leaves the history as it is, and the way as it is or forgotten.
LEMMA HistoryLeft ==
  ASSUME PrefixIInv, todo # <<>>, NEW calls \in Seq(Calls), Making(calls),
         eng' \in Engines, eng'.history = eng.history,
         eng'.chain = eng.chain \/ eng'.chain = <<>>,
         \/ AtHome'
         \/ \E i \in DOMAIN calls : Restores(calls[i])
         \/ ~Restores(Call) /\ (AtHome => AtHome')
  PROVE  PrefixIInv'
<1>1. todo' \in Seq(Calls) /\ UNCHANGED keyVars  BY MakingKeeps DEF PrefixIInv, PrefixTypeOK
<1>2. PrefixTypeOK'  BY <1>1 DEF PrefixIInv, PrefixTypeOK, keyVars
<1>3. HomeInv'  BY HomeKept DEF PrefixIInv
<1>4. HistoryFollowsChain'  BY DEF PrefixIInv, HistoryFollowsChain
<1>5. UsedForgets'  BY <1>1 DEF PrefixIInv, UsedForgets, keyVars
<1> QED  BY <1>2, <1>3, <1>4, <1>5 DEF PrefixIInv

\* A step that leaves the engine as it is.
LEMMA EngineLeft ==
  ASSUME PrefixIInv, todo # <<>>, NEW calls \in Seq(Calls), Making(calls), UNCHANGED eng,
         ~Restores(Call)
  PROVE  PrefixIInv'
<1>1. UNCHANGED window  BY DEF Making, keyVars
<1>2. AtHome => AtHome'  BY <1>1 DEF AtHome, Home
<1> QED  BY <1>2, HistoryLeft DEF PrefixIInv, PrefixTypeOK

\* One call, and none.
LEMMA FewCalls ==
  /\ <<>> \in Seq(Calls)
  /\ \A c \in Lookups : <<LookUp(c)>> \in Seq(Calls)
<1>1. \A c \in Lookups : LookUp(c) \in Calls  BY DEF LookUp, Calls
<1> QED  BY <1>1

\* What the engine is when it begins with an event.
Begun(e, depth, prefix, cur, chain, late) ==
  [e EXCEPT !.depth = depth, !.prefix = prefix, !.cur = cur, !.chain = chain, !.late = late]

LEMMA EngineBegun ==
  ASSUME NEW e \in Engines, NEW depth \in Int, NEW prefix \in BOOLEAN, NEW cur \in Keymaps,
         NEW chain \in Seq(Keymaps), NEW late \in BOOLEAN
  PROVE  LET f == Begun(e, depth, prefix, cur, chain, late)
         IN  f \in Engines /\ f.history = e.history /\ f.chain = chain
<1> DEFINE e1 == [e EXCEPT !.depth = depth]
           e2 == [e1 EXCEPT !.prefix = prefix]
           e3 == [e2 EXCEPT !.cur = cur]
           e4 == [e3 EXCEPT !.chain = chain]
           e5 == [e4 EXCEPT !.late = late]
<1>1. e1 \in Engines /\ e1.history = e.history  BY DEF Engines
<1> HIDE DEF e1
<1>2. e2 \in Engines /\ e2.history = e.history  BY <1>1 DEF Engines
<1> HIDE DEF e2
<1>3. e3 \in Engines /\ e3.history = e.history  BY <1>2 DEF Engines
<1> HIDE DEF e3
<1>4. e4 \in Engines /\ e4.history = e.history /\ e4.chain = chain  BY <1>3 DEF Engines
<1> HIDE DEF e4
<1>5. e5 \in Engines /\ e5.history = e.history /\ e5.chain = chain  BY <1>4 DEF Engines
<1>6. Begun(e, depth, prefix, cur, chain, late) = e5  BY DEF Begun, e1, e2, e3, e4, e5
<1> QED  BY <1>5, <1>6

LEMMA BeginKeeps == PrefixIInv /\ BeginGenerating => PrefixIInv'
<1> SUFFICES ASSUME PrefixIInv, BeginGenerating PROVE PrefixIInv'  OBVIOUS
<1> DEFINE c == Call.c
           m == Call.isModifier
           events == IF c.press THEN <<Event(c, c.km, "before-key-down"), LookUp(c)>>
                     ELSE <<LookUp(c), Event(c, c.km, "after-key-up")>>
           calls == Append(events, End(c.press, m))
<1>0. todo # <<>> /\ todo \in Seq(Calls) /\ Call.do = "begin"
      /\ eng \in Engines /\ window \in Windows
  BY DEF PrefixIInv, PrefixTypeOK, BeginGenerating, Calling
<1>1. Call \in Calls  BY <1>0 DEF Call
<1>2. c \in Lookups /\ m \in BOOLEAN /\ c.press \in BOOLEAN /\ c.km \in Keymaps
  BY <1>0, <1>1, CallOf DEF Lookups
<1>3. Making(calls)  BY DEF BeginGenerating
<1>4. eng' = [eng EXCEPT
                !.depth = 0,
                !.prefix = @ /\ (m \/ ~c.press),
                !.cur = IF eng.prefix /\ ~m /\ ~c.press THEN Home ELSE @,
                !.chain = IF eng.prefix THEN @ ELSE <<>>,
                !.late = @ /\ m]
  BY DEF BeginGenerating
<1>5. Home \in Keymaps
  <2>1. KeymapsOf[window] \in Seq(Keymaps) \ {<<>>}  BY <1>0, KeymapsAssumption
  <2> QED  BY <2>1 DEF Home
<1>6. calls \in Seq(Calls) /\ Len(calls) = 3 /\ calls[3] = End(c.press, m)
  <2>1. \A e \in KeyEvents : Event(c, c.km, e) \in Calls
    <3>1. \A e \in KeyEvents : [c EXCEPT !.km = c.km, !.key = e] \in Lookups
      BY <1>2, LookedUpType
    <3> HIDE DEF c
    <3> QED  BY <3>1 DEF Event, Calls
  <2>2. LookUp(c) \in Calls  BY <1>2 DEF LookUp, Calls
  <2>3. End(c.press, m) \in Calls
    <3>1. eng.cur \in Keymaps  BY <1>0 DEF Engines
    <3> QED  BY <1>2, <3>1 DEF End, Calls
  <2> HIDE DEF c, m
  <2>4. Event(c, c.km, "before-key-down") \in Calls /\ Event(c, c.km, "after-key-up") \in Calls
    BY <2>1 DEF KeyEvents
  <2>5. events \in Seq(Calls) /\ Len(events) = 2  BY <2>2, <2>4
  <2> QED  BY <2>3, <2>5
<1> HIDE DEF c, m, calls
<1>7. /\ eng' \in Engines /\ eng'.history = eng.history
      /\ eng'.chain = eng.chain \/ eng'.chain = <<>>
  <2> DEFINE prefix == eng.prefix /\ (m \/ ~c.press)
             cur == IF eng.prefix /\ ~m /\ ~c.press THEN Home ELSE eng.cur
             chain == IF eng.prefix THEN eng.chain ELSE <<>>
             late == eng.late /\ m
  <2>1. prefix \in BOOLEAN /\ late \in BOOLEAN  OBVIOUS
  <2>2. cur \in Keymaps  BY <1>0, <1>5 DEF Engines
  <2>3. chain \in Seq(Keymaps)  BY <1>0 DEF Engines
  <2>4. eng' = Begun(eng, 0, prefix, cur, chain, late)  BY <1>4 DEF Begun
  <2>5. chain = eng.chain \/ chain = <<>>  OBVIOUS
  <2>6. 0 \in Int  OBVIOUS
  <2> HIDE DEF prefix, cur, chain, late
  <2>7. eng' \in Engines /\ eng'.history = eng.history /\ eng'.chain = chain
    BY <1>0, <2>1, <2>2, <2>3, <2>4, <2>6, EngineBegun
  <2> QED  BY <2>5, <2>7
<1>8. CASE ~m
  <2>1. Restores(calls[3]) /\ 3 \in DOMAIN calls  BY <1>6, <1>8 DEF Restores, End
  <2> QED  BY <1>0, <1>3, <1>6, <1>7, <2>1, HistoryLeft
<1>9. CASE m
  <2>1. eng'.prefix = eng.prefix /\ eng'.late = eng.late /\ eng'.cur = eng.cur
    BY <1>0, <1>4, <1>9 DEF Engines
  <2>2. window' = window  BY <1>3 DEF Making, keyVars
  <2>3. AtHome => AtHome'  BY <2>1, <2>2 DEF AtHome, Home
  <2>4. ~Restores(Call)  BY <1>0 DEF Restores
  <2> QED  BY <1>0, <1>3, <1>6, <1>7, <2>3, <2>4, HistoryLeft
<1> QED  BY <1>2, <1>8, <1>9

LEMMA EndKeeps == PrefixIInv /\ EndGenerating => PrefixIInv'
<1> SUFFICES ASSUME PrefixIInv, EndGenerating PROVE PrefixIInv'  OBVIOUS
<1>0. /\ todo # <<>> /\ todo \in Seq(Calls) /\ Call.do = "end"
      /\ eng \in Engines /\ window \in Windows /\ Making(<<>>)
  BY DEF PrefixIInv, PrefixTypeOK, EndGenerating, Calling
<1>1. Call \in Calls  BY <1>0 DEF Call
<1>2. Call.isModifier \in BOOLEAN /\ Call.press \in BOOLEAN /\ Call.cur \in Keymaps
  BY <1>0, <1>1, CallOf
<1>3. Home \in Keymaps
  <2>1. KeymapsOf[window] \in Seq(Keymaps) \ {<<>>}  BY <1>0, KeymapsAssumption
  <2> QED  BY <2>1 DEF Home
<1>4. window' = window  BY <1>0 DEF Making, keyVars
<1>5. CASE Call.isModifier
  <2>1. UNCHANGED eng  BY <1>5 DEF EndGenerating
  <2>2. ~Restores(Call)  BY <1>0, <1>5 DEF Restores
  <2> QED  BY <1>0, <2>1, <2>2, EngineLeft, FewCalls
<1>6. CASE ~Call.isModifier
  <2>1. eng' = [eng EXCEPT !.late = FALSE,
                           !.cur = IF ~eng.prefix THEN Home
                                   ELSE IF ~Call.press THEN Call.cur ELSE @]
    BY <1>6 DEF EndGenerating
  <2>2. /\ eng' \in Engines /\ eng'.history = eng.history /\ eng'.chain = eng.chain
        /\ eng'.prefix = eng.prefix
        /\ ~eng.prefix => eng'.cur = Home
    BY <1>0, <1>2, <1>3, <2>1 DEF Engines
  <2>3. AtHome'
    <3>1. CASE eng.prefix  BY <2>2, <3>1 DEF AtHome
    <3>2. CASE ~eng.prefix  BY <1>4, <2>2, <3>2 DEF AtHome, Home
    <3> QED  BY <3>1, <3>2
  <2> QED  BY <1>0, <2>2, <2>3, HistoryLeft, FewCalls
<1> QED  BY <1>2, <1>5, <1>6

\* Counting the calls of generateKeyboardEvents() leaves the rest alone.
LEMMA DepthAlone ==
  ASSUME eng \in Engines, NEW d \in Int, eng' = [eng EXCEPT !.depth = d]
  PROVE  /\ eng' \in Engines /\ eng'.history = eng.history /\ eng'.chain = eng.chain
         /\ eng'.prefix = eng.prefix /\ eng'.late = eng.late /\ eng'.cur = eng.cur
<1>1. eng' \in Engines  BY DEF Engines
<1>2. DOMAIN eng = {"cur", "prefix", "ignore", "edit", "next", "history", "depth",
                    "chain", "late"}
  BY DEF Engines
<1>3. \A f \in DOMAIN eng : f # "depth" => eng'[f] = eng[f]  OBVIOUS
<1> QED  BY <1>1, <1>2, <1>3

LEMMA GenerateKeeps == PrefixIInv /\ (Generate \/ Generated) => PrefixIInv'
<1> SUFFICES ASSUME PrefixIInv PROVE Generate \/ Generated => PrefixIInv'  OBVIOUS
<1>0. todo \in Seq(Calls) /\ eng \in Engines  BY DEF PrefixIInv, PrefixTypeOK
<1>1. CASE Generate
  <2> DEFINE c == Call.c
             part == IF c.press THEN "down" ELSE "up"
             whole == IF Found(c).when = Free THEN part ELSE "all"
             run == IF c.adhoc THEN Run(c, c.acts, "all")
                    ELSE IF Places(c) # {} THEN Run(c, Found(c).acts, whole)
                    ELSE Run(c, DefaultSeq[c.km], part)
             calls == Append(run, Return)
  <2>1. todo # <<>> /\ Call.do = "lookup"  BY <1>1 DEF Generate, Calling
  <2>2. Call \in Calls  BY <1>0, <2>1 DEF Call
  <2>3. c \in Lookups /\ c.acts \in Seq(Actions) /\ c.km \in Keymaps
    BY <2>1, <2>2, CallOf DEF Lookups
  <2>4. Making(calls)  BY <1>1 DEF Generate
  <2>5. eng' = [eng EXCEPT !.depth = @ + 1]  BY <1>1 DEF Generate
  <2> HIDE DEF c
  <2>6. DefaultSeq[c.km] \in Seq(Actions)  BY <2>3, KeymapsAssumption
  <2>7. part \in {"all", "down", "up"} /\ whole \in {"all", "down", "up"}  OBVIOUS
  <2>8. run \in Seq(Calls)
    <3> HIDE DEF part, whole
    <3>1. CASE c.adhoc  BY <2>3, <3>1, RunType
    <3>2. CASE ~c.adhoc /\ Places(c) # {}  BY <2>3, <2>7, <3>2, RunType, FoundType
    <3>3. CASE ~c.adhoc /\ Places(c) = {}  BY <2>3, <2>6, <2>7, <3>3, RunType
    <3> QED  BY <3>1, <3>2, <3>3
  <2>9. Return \in Calls  BY DEF Return, Calls
  <2> HIDE DEF run
  <2>10. calls \in Seq(Calls)  BY <2>8, <2>9
  <2>11. /\ eng' \in Engines /\ eng'.history = eng.history /\ eng'.chain = eng.chain
         /\ eng'.prefix = eng.prefix /\ eng'.late = eng.late /\ eng'.cur = eng.cur
    <3>1. eng.depth + 1 \in Int  BY <1>0 DEF Engines
    <3> QED  BY <1>0, <2>5, <3>1, DepthAlone
  <2>12. window' = window  BY <2>4 DEF Making, keyVars
  <2>13. AtHome => AtHome'  BY <2>11, <2>12 DEF AtHome, Home
  <2>14. ~Restores(Call)  BY <2>1 DEF Restores
  <2> HIDE DEF calls
  <2> QED  BY <2>1, <2>4, <2>10, <2>11, <2>13, <2>14, HistoryLeft
<1>2. CASE Generated
  <2>1. todo # <<>> /\ Call.do = "return" /\ Making(<<>>)  BY <1>2 DEF Generated, Calling
  <2>2. eng' = [eng EXCEPT !.depth = @ - 1]  BY <1>2 DEF Generated
  <2>3. /\ eng' \in Engines /\ eng'.history = eng.history /\ eng'.chain = eng.chain
        /\ eng'.prefix = eng.prefix /\ eng'.late = eng.late /\ eng'.cur = eng.cur
    <3>1. eng.depth - 1 \in Int  BY <1>0 DEF Engines
    <3> QED  BY <1>0, <2>2, <3>1, DepthAlone
  <2>4. window' = window  BY <2>1 DEF Making, keyVars
  <2>5. AtHome => AtHome'  BY <2>3, <2>4 DEF AtHome, Home
  <2>6. ~Restores(Call)  BY <2>1 DEF Restores
  <2> QED  BY <2>1, <2>3, <2>5, <2>6, HistoryLeft, FewCalls
<1> QED  BY <1>1, <1>2

\* Sequences, events and keys leave the engine as it is.
LEMMA SequenceKeeps ==
  PrefixIInv /\ (TooDeep \/ GenerateEvent \/ ActKey \/ ActSeq) => PrefixIInv'
<1> SUFFICES ASSUME PrefixIInv PROVE TooDeep \/ GenerateEvent \/ ActKey \/ ActSeq => PrefixIInv'
  OBVIOUS
<1>0. todo \in Seq(Calls)  BY DEF PrefixIInv, PrefixTypeOK
<1>1. CASE TooDeep \/ ActKey
  <2>1. todo # <<>> /\ Call.do \in {"lookup", "act"} /\ Making(<<>>) /\ UNCHANGED eng
    BY <1>1 DEF TooDeep, ActKey, Calling
  <2> QED  BY <2>1, EngineLeft, FewCalls DEF Restores
<1>2. CASE GenerateEvent
  <2> DEFINE calls == IF Places(Call.c) = {} THEN <<>>
                      ELSE Run(Call.c, Found(Call.c).acts, "all")
  <2>1. todo # <<>> /\ Call.do = "event" /\ Making(calls) /\ UNCHANGED eng
    BY <1>2 DEF GenerateEvent, Calling
  <2>2. Call \in Calls  BY <1>0, <2>1 DEF Call
  <2>3. Call.c \in Lookups  BY <2>1, <2>2, CallOf
  <2>4. calls \in Seq(Calls)  BY <2>3, FewCalls, RunType, FoundType
  <2> HIDE DEF calls
  <2> QED  BY <2>1, <2>4, EngineLeft DEF Restores
<1>3. CASE ActSeq
  <2> DEFINE part == IF Call.c.press THEN "down" ELSE "up"
             calls == Run(Call.c, Call.act.acts, part)
  <2>1. todo # <<>> /\ Call.do = "act" /\ Call.act.t = "seq" /\ Making(calls) /\ UNCHANGED eng
    BY <1>3 DEF ActSeq, Calling
  <2>2. Call \in Calls  BY <1>0, <2>1 DEF Call
  <2>3. Call.c \in Lookups /\ Call.act \in Actions  BY <2>1, <2>2, CallOf
  <2>4. Call.act.acts \in Seq(Actions)  BY <2>1, <2>3, ActionsAssumption
  <2>5. part \in {"all", "down", "up"}  OBVIOUS
  <2> HIDE DEF part
  <2>6. calls \in Seq(Calls)  BY <2>3, <2>4, <2>5, RunType
  <2> HIDE DEF calls
  <2> QED  BY <2>1, <2>6, EngineLeft DEF Restores
<1> QED  BY <1>1, <1>2, <1>3

-----------------------------------------------------------------------------
(* The functions. *)

\* The keymaps of the window in front are keymaps, and there is a first one.
LEMMA HomeType ==
  ASSUME PrefixTypeOK
  PROVE  KeymapsOf[window] \in Seq(Keymaps) /\ Home \in Keymaps
<1>1. KeymapsOf[window] \in Seq(Keymaps) \ {<<>>}  BY KeymapsAssumption DEF PrefixTypeOK
<1> QED  BY <1>1 DEF Home

\* A function that looks the key up elsewhere, or sends something.
LEMMA LookUpKeeps ==
  ASSUME PrefixIInv, Calling("act"), NEW c \in Lookups, Making(<<LookUp(c)>>), UNCHANGED eng
  PROVE  PrefixIInv'
BY EngineLeft, FewCalls DEF Calling, Restores

LEMMA SendKeeps ==
  ASSUME PrefixIInv, Calling("act"), Making(<<>>), UNCHANGED eng
  PROVE  PrefixIInv'
BY EngineLeft, FewCalls DEF Calling, Restores

LEMMA ElsewhereKeeps ==
  PrefixIInv /\ (KeymapParent \/ KeymapWindow \/ OtherWindowClass \/ KeymapPrevPrefix \/ Keymap)
    => PrefixIInv'
<1> SUFFICES ASSUME PrefixIInv
             PROVE  KeymapParent \/ KeymapWindow \/ OtherWindowClass \/ KeymapPrevPrefix
                    \/ Keymap => PrefixIInv'
  OBVIOUS
<1> DEFINE c == Call.c
<1>0. todo \in Seq(Calls) /\ eng \in Engines /\ Home \in Keymaps
      /\ KeymapsOf[window] \in Seq(Keymaps)
  BY HomeType DEF PrefixIInv, PrefixTypeOK
<1>1. ASSUME Calling("act")
      PROVE  c \in Lookups /\ c.km \in Keymaps /\ c.i \in Nat \ {0} /\ Call.act \in Actions
  <2>1. Call \in Calls /\ Call.do = "act"  BY <1>0, <1>1 DEF Calling, Call
  <2> QED  BY <2>1, CallOf DEF Lookups
<1>2. ASSUME Calling("act"), NEW km \in Keymaps PROVE LookUpIn(km) => PrefixIInv'
  <2>1. c \in Lookups  BY <1>1, <1>2
  <2>2. [c EXCEPT !.km = km] \in Lookups  BY <2>1, LookedUpType
  <2> QED  BY <1>2, <2>2, LookUpKeeps DEF LookUpIn
<1>3. ASSUME Calling("act") PROVE Default => PrefixIInv'
  BY <1>3, SendKeeps DEF Default
<1>4. ASSUME KeymapParent PROVE PrefixIInv'
  <2>1. Calling("act")  BY <1>4 DEF KeymapParent, CallingFn
  <2>2. Parent[c.km] \in Keymaps \union {None}  BY <1>1, <2>1, KeymapsAssumption
  <2>3. IF Parent[c.km] = None THEN Default ELSE LookUpIn(Parent[c.km])
    BY <1>4 DEF KeymapParent
  <2> QED  BY <1>2, <1>3, <2>1, <2>2, <2>3
<1>5. ASSUME KeymapWindow PROVE PrefixIInv'
  <2>1. Calling("act") /\ UNCHANGED eng
        /\ Making(<<LookUp([c EXCEPT !.km = Home, !.i = 1])>>)
    BY <1>5 DEF KeymapWindow, CallingFn
  <2>2. c \in Lookups  BY <1>1, <2>1
  <2>3. 1 \in Nat \ {0}  OBVIOUS
  <2>4. [c EXCEPT !.km = Home, !.i = 1] \in Lookups  BY <1>0, <2>2, <2>3, LookedUpType
  <2> QED  BY <2>1, <2>4, LookUpKeeps
<1>6. ASSUME OtherWindowClass PROVE PrefixIInv'
  <2> DEFINE next == c.i + 1
  <2>1. Calling("act")  BY <1>6 DEF OtherWindowClass, CallingFn
  <2>2. CASE next > Len(KeymapsOf[window])
    BY <1>3, <1>6, <2>1, <2>2 DEF OtherWindowClass
  <2>3. CASE ~(next > Len(KeymapsOf[window]))
    <3>1. Making(<<LookUp([c EXCEPT !.km = KeymapsOf[window][next], !.i = next])>>)
          /\ UNCHANGED eng
      BY <1>6, <2>3 DEF OtherWindowClass
    <3>2. c \in Lookups /\ c.i \in Nat \ {0}  BY <1>1, <2>1
    <3>3. next \in Nat \ {0} /\ next \in 1 .. Len(KeymapsOf[window])  BY <1>0, <2>3, <3>2
    <3>4. KeymapsOf[window][next] \in Keymaps  BY <1>0, <3>3
    <3> HIDE DEF next
    <3>5. [c EXCEPT !.km = KeymapsOf[window][next], !.i = next] \in Lookups
      BY <3>2, <3>3, <3>4, LookedUpType
    <3> QED  BY <2>1, <3>1, <3>5, LookUpKeeps
  <2> QED  BY <2>2, <2>3
<1>7. ASSUME KeymapPrevPrefix PROVE PrefixIInv'
  <2> DEFINE n == Call.act.n
             hist == eng.history
  <2>1. Calling("act") /\ Call.act.t = "fn" /\ Call.act.fn = "KeymapPrevPrefix"
    BY <1>7 DEF KeymapPrevPrefix, CallingFn
  <2>2. n \in Int  BY <1>1, <2>1, ActionsAssumption
  <2>3. CASE n <= 0
    <3>1. Making(<<>>) /\ UNCHANGED eng  BY <1>7, <2>3 DEF KeymapPrevPrefix
    <3> QED  BY <2>1, <3>1, SendKeeps
  <2>4. CASE n > 0
    <3> DEFINE previous == IF n > Len(hist) THEN Keymaps ELSE {hist[Len(hist) - n + 1]}
    <3>0. ~(n <= 0)  BY <2>2, <2>4
    <3>1. PICK km \in previous : LookUpIn(km)  BY <1>7, <3>0 DEF KeymapPrevPrefix
    <3>2. hist \in Seq(Keymaps) /\ Len(hist) \in Nat  BY <1>0 DEF Engines
    <3>3. previous \subseteq Keymaps
      <4>1. CASE n > Len(hist)  BY <4>1
      <4>2. CASE ~(n > Len(hist))
        <5>1. Len(hist) - n + 1 \in 1 .. Len(hist)  BY <2>2, <2>4, <3>2, <4>2
        <5>2. hist[Len(hist) - n + 1] \in Keymaps  BY <3>2, <5>1
        <5> QED  BY <4>2, <5>2
      <4> QED  BY <4>1, <4>2
    <3>4. km \in Keymaps  BY <3>1, <3>3
    <3> QED  BY <1>2, <2>1, <3>1, <3>4
  <2> QED  BY <2>2, <2>3, <2>4
<1>8. ASSUME Keymap PROVE PrefixIInv'
  <2>1. Calling("act") /\ Call.act.t = "fn" /\ Call.act.fn = "Keymap" /\ LookUpIn(Call.act.km)
    BY <1>8 DEF Keymap, CallingFn
  <2>2. Call.act.km \in Keymaps  BY <1>1, <2>1, ActionsAssumption
  <2> QED  BY <1>2, <2>1, <2>2
<1> QED  BY <1>4, <1>5, <1>6, <1>7, <1>8

LEMMA PrefixKeeps == PrefixIInv /\ Prefix => PrefixIInv'
<1> SUFFICES ASSUME PrefixIInv, Prefix PROVE PrefixIInv'  OBVIOUS
<1> DEFINE c == Call.c
           a == Call.act
           calls == <<Event(c, a.km, "prefixed"), Prefixed(a.ignore)>>
           h == Remember(eng.history, eng.cur)
           w == Latest(Append(eng.chain, eng.cur))
<1>0. /\ todo # <<>> /\ todo \in Seq(Calls) /\ Call.do = "act" /\ Calling("act")
      /\ eng \in Engines /\ Len(eng.history) <= MaxHistory
      /\ a.t = "fn" /\ a.fn = "Prefix"
  BY DEF PrefixIInv, PrefixTypeOK, Prefix, CallingFn, Calling
<1>1. c \in Lookups /\ c.press \in BOOLEAN /\ a \in Actions
  <2>1. Call \in Calls  BY <1>0 DEF Call
  <2> QED  BY <1>0, <2>1, CallOf DEF Lookups
<1>2. CASE ~c.press
  <2>1. Making(<<>>) /\ UNCHANGED eng  BY <1>2 DEF Prefix
  <2> QED  BY <1>0, <2>1, SendKeeps
<1>3. CASE c.press
  <2>1. eng' = [eng EXCEPT !.history = h, !.chain = w, !.cur = a.km]  BY <1>3 DEF Prefix
  <2>2. Making(calls)  BY <1>3 DEF Prefix
  <2>3. a.km \in Keymaps /\ a.ignore \in BOOLEAN  BY <1>0, <1>1, ActionsAssumption
  <2>4. calls \in Seq(Calls) /\ Restores(calls[2]) /\ 2 \in DOMAIN calls
    <3>1. [c EXCEPT !.km = a.km, !.key = "prefixed"] \in Lookups
      BY <1>1, <2>3, LookedUpType DEF KeyEvents
    <3>2. Event(c, a.km, "prefixed") \in Calls
      <4> DEFINE d == [c EXCEPT !.km = a.km, !.key = "prefixed"]
      <4>1. Event(c, a.km, "prefixed") = [do |-> "event", c |-> d]  BY DEF Event
      <4> HIDE DEF d
      <4>2. d \in Lookups  BY <3>1 DEF d
      <4> QED  BY <4>1, <4>2 DEF Calls
    <3>3. Prefixed(a.ignore) \in Calls  BY <2>3 DEF Prefixed, Calls
    <3>4. Restores(Prefixed(a.ignore))  BY DEF Restores, Prefixed
    <3> HIDE DEF c, a
    <3> QED  BY <3>2, <3>3, <3>4
  <2>5. /\ eng.history \in Seq(Keymaps) /\ eng.chain \in Seq(Keymaps) /\ eng.cur \in Keymaps
        /\ \A n \in 1 .. Len(eng.chain) :
              n <= Len(eng.history) /\ FromEnd(eng.history, n) = FromEnd(eng.chain, n)
    BY <1>0 DEF PrefixIInv, HistoryFollowsChain, FromEnd, Engines
  <2>6. /\ h \in Seq(Keymaps) /\ Len(h) <= MaxHistory
        /\ w \in Seq(Keymaps)
        /\ \A n \in 1 .. Len(w) : n <= Len(h) /\ FromEnd(h, n) = FromEnd(w, n)
    BY <1>0, <2>5, HistoryGrows
  <2> HIDE DEF calls, h, w, c, a
  <2>7. /\ eng' \in Engines /\ eng'.history = h /\ eng'.chain = w
    <3> DEFINE e1 == [eng EXCEPT !.history = h]
               e2 == [e1 EXCEPT !.chain = w]
               e3 == [e2 EXCEPT !.cur = a.km]
    <3>1. e1 \in Engines /\ e1.history = h  BY <1>0, <2>6 DEF Engines
    <3> HIDE DEF e1
    <3>2. e2 \in Engines /\ e2.history = h /\ e2.chain = w  BY <2>6, <3>1 DEF Engines
    <3> HIDE DEF e2
    <3>3. e3 \in Engines /\ e3.history = h /\ e3.chain = w  BY <2>3, <3>2 DEF Engines
    <3>4. eng' = e3  BY <2>1 DEF e1, e2
    <3> QED  BY <3>3, <3>4
  <2>8. todo' \in Seq(Calls) /\ UNCHANGED keyVars
    BY <1>0, <2>2, <2>4, MakingKeeps
  <2>9. PrefixTypeOK'  BY <2>6, <2>7, <2>8 DEF PrefixIInv, PrefixTypeOK, keyVars
  <2>10. HomeInv'  BY <1>0, <2>2, <2>4, HomeKept DEF PrefixIInv
  <2>11. HistoryFollowsChain'  BY <2>6, <2>7 DEF HistoryFollowsChain, FromEnd
  <2>12. UsedForgets'  BY <2>8 DEF PrefixIInv, UsedForgets, keyVars
  <2> QED  BY <2>9, <2>10, <2>11, <2>12 DEF PrefixIInv
<1> QED  BY <1>1, <1>2, <1>3

LEMMA PrefixSetKeeps == PrefixIInv /\ PrefixSet => PrefixIInv'
<1> SUFFICES ASSUME PrefixIInv, PrefixSet PROVE PrefixIInv'  OBVIOUS
<1>0. /\ todo # <<>> /\ todo \in Seq(Calls) /\ Call.do = "prefixed" /\ Making(<<>>)
      /\ eng \in Engines
  BY DEF PrefixIInv, PrefixTypeOK, PrefixSet, Calling
<1>1. Call.ignore \in BOOLEAN
  <2>1. Call \in Calls  BY <1>0 DEF Call
  <2> QED  BY <1>0, <2>1, CallOf
<1> DEFINE ignore == Call.ignore
<1>2. eng' = [eng EXCEPT !.prefix = TRUE, !.edit = FALSE, !.late = FALSE, !.ignore = ignore]
  BY DEF PrefixSet
<1> HIDE DEF ignore
<1>3. /\ eng' \in Engines /\ eng'.history = eng.history /\ eng'.chain = eng.chain
      /\ eng'.prefix
  BY <1>0, <1>1, <1>2 DEF Engines, ignore
<1>4. AtHome'  BY <1>3 DEF AtHome
<1> QED  BY <1>0, <1>3, <1>4, HistoryLeft, FewCalls

LEMMA EditKeeps == PrefixIInv /\ EditNextModifier => PrefixIInv'
<1> SUFFICES ASSUME PrefixIInv, EditNextModifier PROVE PrefixIInv'  OBVIOUS
<1>0. /\ todo # <<>> /\ todo \in Seq(Calls) /\ Calling("act") /\ Making(<<>>)
      /\ eng \in Engines /\ Call.act.t = "fn" /\ Call.act.fn = "EditNextModifier"
  BY DEF PrefixIInv, PrefixTypeOK, EditNextModifier, CallingFn, Calling
<1>1. CASE ~Call.c.press
  <2>1. UNCHANGED eng  BY <1>1 DEF EditNextModifier
  <2> QED  BY <1>0, <2>1, SendKeeps
<1>2. CASE Call.c.press
  <2> DEFINE shifted == Call.act.shifted
  <2>1. Call \in Calls /\ Call.do = "act"  BY <1>0 DEF Call, Calling
  <2>2. shifted \in Shifts  BY <1>0, <2>1, CallOf, ActionsAssumption
  <2>3. eng' = [eng EXCEPT !.prefix = TRUE, !.edit = TRUE, !.ignore = TRUE,
                           !.next = shifted, !.late = FALSE]
    BY <1>2 DEF EditNextModifier
  <2> HIDE DEF shifted
  <2>4. /\ eng' \in Engines /\ eng'.history = eng.history /\ eng'.chain = eng.chain
        /\ eng'.prefix
    BY <1>0, <2>2, <2>3 DEF Engines
  <2>5. AtHome'  BY <2>4 DEF AtHome
  <2> QED  BY <1>0, <2>4, <2>5, HistoryLeft, FewCalls
<1> QED  BY <1>1, <1>2

LEMMA CancelKeeps == PrefixIInv /\ CancelPrefix => PrefixIInv'
<1> SUFFICES ASSUME PrefixIInv, CancelPrefix PROVE PrefixIInv'  OBVIOUS
<1> DEFINE late == eng.late \/ eng.prefix
<1>0. /\ todo # <<>> /\ Call.do = "act" /\ Making(<<>>) /\ eng \in Engines
      /\ eng' = [eng EXCEPT !.prefix = FALSE, !.late = late]
  BY DEF PrefixIInv, PrefixTypeOK, CancelPrefix, CallingFn, Calling
<1>1. late \in BOOLEAN  OBVIOUS
<1> HIDE DEF late
<1>2. /\ eng' \in Engines /\ eng'.history = eng.history /\ eng'.chain = eng.chain
      /\ eng'.late = late /\ eng'.cur = eng.cur
  BY <1>0, <1>1 DEF Engines
<1>3. window' = window  BY <1>0 DEF Making, keyVars
<1>4. AtHome => AtHome'  BY <1>2, <1>3 DEF AtHome, Home, late
<1>5. ~Restores(Call)  BY <1>0 DEF Restores
<1> QED  BY <1>0, <1>2, <1>4, <1>5, HistoryLeft, FewCalls

-----------------------------------------------------------------------------
(* The events. *)

LEMMA PrefixBegins == PrefixInit => PrefixIInv
<1> SUFFICES ASSUME PrefixInit PROVE PrefixIInv  OBVIOUS
<1>1. Home \in Keymaps
  <2>1. KeymapsOf[window] \in Seq(Keymaps) \ {<<>>}  BY KeymapsAssumption DEF PrefixInit
  <2> QED  BY <2>1 DEF Home
<1>2. eng \in Engines /\ Len(eng.history) <= MaxHistory
  BY <1>1, LimitsAssumption DEF PrefixInit, Engine, Engines, Shifts
<1>3. PrefixTypeOK
  BY <1>2, LimitsAssumption DEF PrefixInit, PrefixTypeOK, NoOneShot, Shifts
<1>4. HomeInv  BY DEF PrefixInit, HomeInv, AtHome, Engine
<1>5. HistoryFollowsChain  BY DEF PrefixInit, HistoryFollowsChain, Engine
<1>6. UsedForgets  BY DEF PrefixInit, UsedForgets
<1> QED  BY <1>3, <1>4, <1>5, <1>6 DEF PrefixIInv

\* An event that leaves engine and window as they are begins at home.
LEMMA EventKeeps ==
  ASSUME PrefixIInv, todo = <<>>, UNCHANGED <<eng, window>>, PrefixTypeOK', UsedForgets'
  PROVE  PrefixIInv'
<1>1. AtHome  BY DEF PrefixIInv, HomeInv
<1>2. HomeInv'  BY <1>1 DEF HomeInv, AtHome, Home
<1> QED  BY <1>2 DEF PrefixIInv, HistoryFollowsChain

\* What is begun with is a call.
LEMMA BeginType ==
  /\ \A c \in Lookups, m \in BOOLEAN : Begin(c, m) \in Calls
  /\ \A km \in Keymaps, k \in Keys, shifted \in Shifts, press \in BOOLEAN :
        Current(km, k, shifted, press) \in Lookups
<1>1. \A c \in Lookups, m \in BOOLEAN : Begin(c, m) \in Calls  BY DEF Begin, Calls
<1>2. \A km \in Keymaps, k \in Keys, shifted \in Shifts, press \in BOOLEAN :
         Current(km, k, shifted, press) \in Lookups
  BY DEF Current, Lookups
<1> QED  BY <1>1, <1>2

\* Whether a key is held or not, the remembered one-shot key is a key or none.
LEMMA ResetKeeps ==
  ASSUME NEW shot \in [key : Keys \union {None}, shifted : Shifts], NEW keys
  PROVE  /\ ResetIfIdle(shot, keys) \in [key : Keys \union {None}, shifted : Shifts]
         /\ ResetIfIdle(shot, keys).key \in {shot.key, None}
BY DEF ResetIfIdle

LEMMA KeyKeeps ==
  ASSUME PrefixIInv, NEW k \in Keys, NEW press \in BOOLEAN, Key(k, press)
  PROVE  PrefixIInv'
<1>0. /\ todo = <<>> /\ UNCHANGED <<eng, window>>
      /\ window \in Windows /\ eng \in Engines /\ Len(eng.history) <= MaxHistory
      /\ pressed \subseteq Keys /\ used \subseteq pressed
      /\ oneShot \in [key : Keys \union {None}, shifted : Shifts]
      /\ repeats \in 0 .. Delay /\ Delay \in Nat
  BY LimitsAssumption DEF Key, PrefixIInv, PrefixTypeOK
<1>1. eng.cur \in Keymaps /\ eng.next \in Shifts  BY <1>0 DEF Engines
<1>2. pressed' = KeysAfter(k, press) /\ pressed' \subseteq Keys  BY <1>0 DEF Key, KeysAfter
<1>3. used' \subseteq pressed'  BY <1>0, <1>2 DEF Key, KeysAfter
<1>4. ASSUME NEW p \in BOOLEAN, NEW keys
      PROVE  Looked(k, p, keys) \in Lookups /\ Looked(k, p, keys).shifted \in Shifts
  <2> DEFINE own == IF ModeOf[eng.cur][k] = "none"
                    THEN IF Shifted(keys) THEN "on" ELSE "off" ELSE Free
             shifted == IF eng.prefix /\ eng.edit /\ eng.next # Free THEN eng.next ELSE own
  <2>1. shifted \in Shifts  BY <1>1 DEF Shifts
  <2>2. Looked(k, p, keys) = Current(eng.cur, k, shifted, p)  BY DEF Looked
  <2> HIDE DEF shifted
  <2>3. Current(eng.cur, k, shifted, p).shifted = shifted  BY DEF Current
  <2> QED  BY <1>1, <2>1, <2>2, <2>3, BeginType
<1>5. /\ todo' \in Seq(Calls) /\ repeats' \in 0 .. Delay
      /\ oneShot' \in [key : Keys \union {None}, shifted : Shifts]
  <2>1. CASE TrueModifier(k, press)  BY <1>0, <2>1, ResetKeeps DEF TrueModifier
  <2>2. CASE OneShotDown(k)
    <3> DEFINE c == Looked(k, TRUE, KeysAfter(k, TRUE))
               b == Begin(c, FALSE)
               again == Mode(k) = "oneShotRepeatable" /\ oneShot.key = k
    <3>1. c \in Lookups /\ c.shifted \in Shifts  BY <1>4
    <3>2. b \in Calls
      <4> HIDE DEF c
      <4> QED  BY <3>1, BeginType
    <3>3. CASE again
      <4>1. /\ todo' = IF repeats < Delay THEN <<>> ELSE <<b>>
            /\ repeats' = IF repeats < Delay THEN repeats + 1 ELSE repeats
            /\ UNCHANGED oneShot
        BY <2>2, <3>3 DEF OneShotDown
      <4> HIDE DEF b, again
      <4> QED  BY <1>0, <3>2, <4>1
    <3>4. CASE ~again
      <4>1. /\ oneShot' = [key |-> k, shifted |-> c.shifted] /\ repeats' = 0
            /\ UNCHANGED todo
        BY <2>2, <3>4 DEF OneShotDown
      <4> HIDE DEF c
      <4> QED  BY <1>0, <3>1, <4>1
    <3> QED  BY <3>3, <3>4
  <2>3. CASE OneShotUp(k)
    <3> DEFINE c(p) == Current(eng.cur, k, oneShot.shifted, p)
               down == Begin(c(TRUE), FALSE)
               up == Begin(c(FALSE), FALSE)
    <3>1. c(TRUE) \in Lookups /\ c(FALSE) \in Lookups  BY <1>0, <1>1, BeginType
    <3>2. down \in Calls /\ up \in Calls  BY <3>1, BeginType
    <3>3. todo' = (IF oneShot.key = None THEN <<>> ELSE <<down, up>>)
          /\ oneShot' = NoOneShot /\ repeats' = 0
      BY <2>3 DEF OneShotUp
    <3> HIDE DEF down, up
    <3> QED  BY <1>0, <3>2, <3>3 DEF NoOneShot, Shifts
  <2>4. CASE NormalKey(k, press)
    <3> DEFINE c == Looked(k, press, KeysAfter(k, press))
               m == Mode(k) = "normal"
    <3>1. Begin(c, m) \in Calls
      <4>1. c \in Lookups /\ m \in BOOLEAN  BY <1>4
      <4> HIDE DEF c, m
      <4> QED  BY <4>1, BeginType
    <3>2. todo' = <<Begin(c, m)>> /\ UNCHANGED repeats
          /\ oneShot' = IF press THEN [oneShot EXCEPT !.key = None]
                        ELSE ResetIfIdle(oneShot, KeysAfter(k, press))
      BY <2>4 DEF NormalKey
    <3> HIDE DEF c, m
    <3> QED  BY <1>0, <3>1, <3>2, ResetKeeps
  <2> QED  BY <2>1, <2>2, <2>3, <2>4 DEF Key
<1>6. PrefixTypeOK'  BY <1>0, <1>2, <1>3, <1>5 DEF PrefixTypeOK
<1>7. UsedForgets'
  <2>1. UsedForgets  BY DEF PrefixIInv
  <2>2. CASE TrueModifier(k, press)
    <3>1. Mode(k) = "true" /\ used' \subseteq used
      BY <2>2 DEF TrueModifier, Key, IsOneShot
    <3>2. oneShot'.key \in {oneShot.key, None}
      BY <1>0, <2>2, ResetKeeps DEF TrueModifier
    <3> QED  BY <2>1, <3>1, <3>2 DEF UsedForgets
  <2>3. CASE press /\ OneShotDown(k)
    <3>1. used' = {}  BY <2>3 DEF OneShotDown, Key
    <3> QED  BY <3>1 DEF UsedForgets
  <2>4. CASE ~press /\ OneShotUp(k)
    <3>1. oneShot'.key = None  BY <2>4 DEF OneShotUp, NoOneShot
    <3> QED  BY <3>1 DEF UsedForgets
  <2>5. CASE NormalKey(k, press) /\ press
    <3>1. oneShot'.key = None  BY <1>0, <2>5 DEF NormalKey
    <3> QED  BY <3>1 DEF UsedForgets
  <2>6. CASE NormalKey(k, press) /\ ~press
    <3>1. used' \subseteq used  BY <2>6 DEF NormalKey, Key
    <3>2. oneShot'.key \in {oneShot.key, None}
      BY <1>0, <2>6, ResetKeeps DEF NormalKey
    <3> QED  BY <2>1, <3>1, <3>2 DEF UsedForgets
  <2> QED  BY <2>2, <2>3, <2>4, <2>5, <2>6 DEF Key
<1> QED  BY <1>0, <1>6, <1>7, EventKeeps

LEMMA AdHocKeeps ==
  ASSUME PrefixIInv, NEW a \in AdHoc, NEW km \in Keymaps, RunAdHoc(a, km)
  PROVE  PrefixIInv'
<1> DEFINE c == Current(km, a.key, Free, TRUE)
           d == [c EXCEPT !.adhoc = TRUE, !.acts = a.acts]
<1>1. a.key \in Keys /\ a.acts \in Seq(Actions)  BY AdHocAssumption
<1>2. c \in Lookups  BY <1>1, BeginType DEF Shifts
<1>3. d \in Lookups
  <2> HIDE DEF c
  <2> QED  BY <1>1, <1>2 DEF Lookups
<1>4. /\ todo = <<>> /\ todo' = <<Begin(d, FALSE)>>
      /\ oneShot' = ResetIfIdle(oneShot, pressed)
      /\ UNCHANGED <<window, pressed, eng, repeats, used>>
  BY DEF RunAdHoc
<1> HIDE DEF d
<1>5. todo' \in Seq(Calls)
  <2> DEFINE b == Begin(d, FALSE)
  <2>1. b \in Calls  BY <1>3, BeginType
  <2>2. todo' = <<b>>  BY <1>4
  <2> HIDE DEF b
  <2> QED  BY <2>1, <2>2
<1>6. PrefixTypeOK'  BY <1>4, <1>5, ResetKeeps DEF PrefixIInv, PrefixTypeOK
<1>7. UsedForgets'  BY <1>4, ResetKeeps DEF PrefixIInv, PrefixTypeOK, UsedForgets
<1> QED  BY <1>4, <1>6, <1>7, EventKeeps

LEMMA WindowKeeps ==
  ASSUME PrefixIInv, NEW w \in Windows, ChangeWindow(w)
  PROVE  PrefixIInv'
<1> DEFINE home == KeymapsOf[w][1]
<1>1. home \in Keymaps
  <2>1. KeymapsOf[w] \in Seq(Keymaps) \ {<<>>}  BY KeymapsAssumption
  <2> QED  BY <2>1
<1>2. /\ eng' = [eng EXCEPT !.cur = home, !.history = <<>>, !.chain = <<>>, !.late = FALSE]
      /\ window' = w /\ UNCHANGED <<todo, pressed, oneShot, repeats, used>>
  BY DEF ChangeWindow
<1>3. Home' = home  BY <1>2 DEF Home
<1> HIDE DEF home
<1>4. /\ eng' \in Engines /\ eng'.history = <<>> /\ eng'.chain = <<>> /\ eng'.cur = home
  <2> DEFINE e1 == [eng EXCEPT !.cur = home]
             e2 == [e1 EXCEPT !.history = <<>>]
             e3 == [e2 EXCEPT !.chain = <<>>]
             e4 == [e3 EXCEPT !.late = FALSE]
  <2>0. <<>> \in Seq(Keymaps)  OBVIOUS
  <2>1. e1 \in Engines /\ e1.cur = home  BY <1>1 DEF PrefixIInv, PrefixTypeOK, Engines
  <2> HIDE DEF e1
  <2>2. e2 \in Engines /\ e2.cur = home /\ e2.history = <<>>  BY <2>0, <2>1 DEF Engines
  <2> HIDE DEF e2
  <2>3. e3 \in Engines /\ e3.cur = home /\ e3.history = <<>> /\ e3.chain = <<>>
    BY <2>0, <2>2 DEF Engines
  <2> HIDE DEF e3
  <2>4. e4 \in Engines /\ e4.cur = home /\ e4.history = <<>> /\ e4.chain = <<>>
    BY <2>3 DEF Engines
  <2>5. eng' = e4  BY <1>2 DEF e1, e2, e3
  <2> QED  BY <2>4, <2>5
<1>5. PrefixTypeOK'
  BY <1>2, <1>4, LimitsAssumption DEF PrefixIInv, PrefixTypeOK
<1>6. HomeInv'  BY <1>3, <1>4 DEF HomeInv, AtHome
<1>7. HistoryFollowsChain'  BY <1>4 DEF HistoryFollowsChain
<1>8. UsedForgets'  BY <1>2 DEF PrefixIInv, UsedForgets
<1> QED  BY <1>5, <1>6, <1>7, <1>8 DEF PrefixIInv

LEMMA PrefixSteps == PrefixIInv /\ [PrefixNext]_prefixVars => PrefixIInv'
<1> SUFFICES ASSUME PrefixIInv, [PrefixNext]_prefixVars PROVE PrefixIInv'  OBVIOUS
<1>1. CASE Step
  <2>1. CASE NotDue \/ Undefined \/ SendDefault
    <3>1. Calling("act") /\ Making(<<>>) /\ UNCHANGED eng
      BY <2>1 DEF NotDue, Undefined, SendDefault, Default, CallingFn
    <3> QED  BY <3>1, SendKeeps
  <2> QED
    BY <1>1, <2>1, BeginKeeps, EndKeeps, GenerateKeeps, SequenceKeeps, ElsewhereKeeps,
       PrefixKeeps, PrefixSetKeeps, EditKeeps, CancelKeeps
    DEF Step, CallFunction
<1>2. CASE \E k \in Keys, press \in BOOLEAN : Key(k, press)  BY <1>2, KeyKeeps
<1>3. CASE \E a \in AdHoc : RunAdHoc(a, eng.cur)
  <2>1. eng.cur \in Keymaps  BY DEF PrefixIInv, PrefixTypeOK, Engines
  <2> QED  BY <1>3, <2>1, AdHocKeeps
<1>4. CASE \E a \in AdHoc, w \in Windows : RunAdHoc(a, KeymapsOf[w][1])
  <2>1. PICK a \in AdHoc, w \in Windows : RunAdHoc(a, KeymapsOf[w][1])  BY <1>4
  <2>2. KeymapsOf[w] \in Seq(Keymaps) \ {<<>>}  BY KeymapsAssumption
  <2>3. KeymapsOf[w][1] \in Keymaps  BY <2>2
  <2> QED  BY <2>1, <2>3, AdHocKeeps
<1>5. CASE \E w \in Windows : ChangeWindow(w)  BY <1>5, WindowKeeps
<1>6. CASE UNCHANGED prefixVars
  <2>1. PrefixTypeOK'  BY <1>6 DEF prefixVars, PrefixIInv, PrefixTypeOK
  <2>2. HomeInv'  BY <1>6 DEF prefixVars, PrefixIInv, HomeInv, AtHome, Home
  <2>3. HistoryFollowsChain'  BY <1>6 DEF prefixVars, PrefixIInv, HistoryFollowsChain
  <2>4. UsedForgets'  BY <1>6 DEF prefixVars, PrefixIInv, UsedForgets
  <2> QED  BY <2>1, <2>2, <2>3, <2>4 DEF PrefixIInv
<1> QED  BY <1>1, <1>2, <1>3, <1>4, <1>5, <1>6 DEF PrefixNext

(***************************************************************************)
(* The inductive invariant of the calls of an event holds throughout.      *)
(***************************************************************************)
THEOREM PrefixInvariance == PrefixSpec => []PrefixIInv
BY PrefixBegins, PrefixSteps, PTL DEF PrefixSpec

(***************************************************************************)
(* Engine, calls and one-shot key are of their types, for any keymaps,     *)
(* sequences, windows and limits.                                          *)
(***************************************************************************)
THEOREM PrefixTypeCorrect == PrefixSpec => []PrefixTypeOK
<1>1. PrefixIInv => PrefixTypeOK  BY DEF PrefixIInv
<1> QED  BY <1>1, PrefixInvariance, PTL

(***************************************************************************)
(* When no prefix waits for a key the engine is back in the keymap of the  *)
(* window, however its functions call each other.                          *)
(***************************************************************************)
THEOREM AlwaysEndsAtHome == PrefixSpec => []PrefixEndsAtHome
<1>1. PrefixIInv => PrefixEndsAtHome
  BY DEF PrefixIInv, HomeInv, AtHome, PrefixEndsAtHome
<1> QED  BY <1>1, PrefixInvariance, PTL

(***************************************************************************)
(* &KeymapPrevPrefix finds the keymaps a prefix was reached through, for   *)
(* any number of prefixes and any length of the history.                   *)
(***************************************************************************)
THEOREM HistoryAlwaysFollows == PrefixSpec => []HistoryFollowsChain
<1>1. PrefixIInv => HistoryFollowsChain  BY DEF PrefixIInv
<1> QED  BY <1>1, PrefixInvariance, PTL

\* No step but the release of a key takes a key from those that are pressed.
LEMMA OnlyReleased ==
  ASSUME PrefixIInv, PrefixNext, NEW k \in used \ pressed'
  PROVE  Key(k, FALSE)
<1>1. k \in pressed /\ k \notin pressed'  BY DEF PrefixIInv, PrefixTypeOK
<1>2. ~Step
  <2> SUFFICES ASSUME Step PROVE FALSE  OBVIOUS
  <2>1. UNCHANGED keyVars
    BY DEF Step, CallFunction, BeginGenerating, EndGenerating, Generate, TooDeep, Generated,
           GenerateEvent, ActKey, ActSeq, PrefixSet, KeymapParent, KeymapWindow,
           OtherWindowClass, KeymapPrevPrefix, Keymap, Prefix, EditNextModifier, CancelPrefix,
           SendDefault, Undefined, NotDue, Default, LookUpIn, Making
  <2> QED  BY <1>1, <2>1 DEF keyVars
<1>3. ~\E a \in AdHoc : RunAdHoc(a, eng.cur)  BY <1>1 DEF RunAdHoc
<1>4. ~\E a \in AdHoc, w \in Windows : RunAdHoc(a, KeymapsOf[w][1])
  BY <1>1 DEF RunAdHoc
<1>5. ~\E w \in Windows : ChangeWindow(w)  BY <1>1 DEF ChangeWindow
<1>6. PICK x \in Keys, press \in BOOLEAN : Key(x, press)
  BY <1>2, <1>3, <1>4, <1>5 DEF PrefixNext
<1>7. pressed' = KeysAfter(x, press)  BY <1>6 DEF Key
<1>8. ~press /\ x = k  BY <1>1, <1>7 DEF KeysAfter
<1> QED  BY <1>6, <1>8

(***************************************************************************)
(* A one-shot key that was held while another key was typed sends nothing  *)
(* when it is released, for any keys, keymaps and prefixes.                *)
(***************************************************************************)
THEOREM OneShotActsAlone == PrefixSpec => OneShotAlone
<1>1. ASSUME PrefixIInv, PrefixNext, NEW k \in used \ pressed', IsOneShot(Mode(k))
      PROVE  todo' = <<>> /\ sent' = Nothing
  <2>1. Key(k, FALSE)  BY <1>1, OnlyReleased
  <2>2. Mode(k) \in {"oneShot", "oneShotRepeatable"}  BY <1>1 DEF IsOneShot
  <2>3. OneShotUp(k) /\ sent' = Nothing  BY <2>1, <2>2 DEF Key, TrueModifier, NormalKey
  <2>4. oneShot.key = None  BY <1>1 DEF PrefixIInv, UsedForgets
  <2> QED  BY <2>3, <2>4 DEF OneShotUp
<1>2. PrefixIInv /\ [PrefixNext]_prefixVars
        => [\A k \in used \ pressed' : IsOneShot(Mode(k)) =>
               todo' = <<>> /\ sent' = Nothing]_prefixVars
  BY <1>1
<1> QED  BY <1>2, PrefixInvariance, PTL DEF PrefixSpec, OneShotAlone
=============================================================================
