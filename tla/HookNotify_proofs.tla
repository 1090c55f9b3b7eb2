------------------------- MODULE HookNotify_proofs --------------------------
(***************************************************************************)
(* Proofs about HookNotify.  A notification of the thread that has unread  *)
(* ones must not take the direct way; so the handle has to be good while   *)
(* anything is unread, and whoever is about to change it must have looked  *)
(* at it when nothing was (Ordered).                                       *)
(***************************************************************************)
EXTENDS HookNotify, SequenceTheorems, TLAPS

Unread == mail # <<>> \/ hand # <<>>

\* who is in charge, and that it is for whoever witnessed it
Charge ==
    /\ ui = "absent" => mail = <<>> /\ hand = <<>>
    /\ ui \in {"absent", "constructed", "published"} => reader = "none"
    /\ ui \in {"constructed", "published", "running"} => ~stop
    /\ ui \in {"published", "running"} => hooked /\ tray = gen
    /\ Alive => gen # 0 /\ (slot = gen \/ slotless)
    /\ hand # <<>> <=> reader = "handling"
    /\ handle.to <= gen /\ slot <= gen
    /\ handle.open => handle.to # 0
    /\ \A t \in Threads : fresh[t] <= gen
    /\ \A t \in Threads : witness[t] # 0 => Published /\ witness[t] = gen

InCall(t) == pc[t] \notin {"idle", "gone"}
InNotify(t) == InCall(t) /\ pc[t] # "unload"

Calls ==
    /\ \A t \in Threads : InNotify(t) => msg[t] # Nothing
    /\ \A t \in Threads : InNotify(t) /\ msg[t] \notin {Attach, Detach} => msg[t] = SetFocus(reported[t])
    /\ \A t \in Threads : InNotify(t) /\ msg[t] = Attach => reported[t] = NoWindow
    /\ \A t \in Threads : InNotify(t) /\ msg[t] = Detach => witness[t] = 0
    /\ ~initialized => \A t \in Threads : reported[t] = NoWindow
    /\ \A t \in Threads : pc[t] = "unload" => unloading
    /\ unloading =>
         /\ \A t \in Threads : witness[t] = 0
         /\ \A t, u \in Threads : InCall(t) /\ InCall(u) => t = u

Good == Connected \/ (handle.to = 0 /\ ~retryAt)

Ordered ==
    ~raced =>
      /\ Unread => slot = gen /\ Good
      /\ \A t \in Threads :
           /\ pc[t] \in {"create", "assign"} => handle.to = 0
           /\ pc[t] = "assign" /\ Unread => fresh[t] = gen
           /\ pc[t] = "write" => handle.to # 0
           /\ pc[t] \in {"close", "drop"} => ~Connected
           /\ pc[t] = "send" /\ witness[t] # 0 => InMail(t) = {} /\ ~InHand(t)

IInv == TypeOK /\ Charge /\ Calls /\ Ordered /\ PublishedIsReached /\ LastReportWins

-----------------------------------------------------------------------------
(* Lemmas about the data. *)

LEMMA InvalidType == Invalid \in [to : 0 .. MaxNyamy, open : BOOLEAN]
<1>1. 0 \in 0 .. MaxNyamy
  BY BoundsAssumption
<1>2. QED
  BY <1>1, Zenon DEF Invalid

LEMMA MessageTypes ==
  ASSUME NEW m \in Notification
  PROVE  /\ m.type \in {"setFocus", "threadAttach", "threadDetach"}
         /\ m.hwnd \in Windows \union {NoWindow}
         /\ m.type = "setFocus" => m.hwnd \in Windows /\ m = SetFocus(m.hwnd)
         /\ m.type = "threadAttach" <=> m = Attach
         /\ m.type = "threadDetach" <=> m = Detach
BY DEF Notification, SetFocus, Attach, Detach

LEMMA MessagesDiffer ==
  /\ Attach # Detach /\ Attach # Nothing /\ Detach # Nothing
  /\ \A w : SetFocus(w) \notin {Attach, Detach, Nothing}
<1>1. \A w : SetFocus(w).type = "setFocus"
  BY DEF SetFocus
<1>2. Attach.type = "threadAttach" /\ Detach.type = "threadDetach" /\ Nothing.type = "nothing"
  BY DEF Attach, Detach, Nothing
<1>3. QED
  BY <1>1, <1>2

LEMMA MailTypes ==
  ASSUME NEW m \in Mail
  PROVE  m.thread \in Threads /\ m.msg \in Notification
BY DEF Mail

(* A notification in a call is one. *)
LEMMA CallType ==
  ASSUME IInv, NEW t \in Threads, InNotify(t)
  PROVE  msg[t] \in Notification
BY DEF IInv, TypeOK, TypeCalls, Calls

(* Append and Tail by their elements. *)
LEMMA MailAppend ==
  ASSUME NEW q \in Seq(Mail), NEW m \in Mail
  PROVE  /\ Append(q, m) \in Seq(Mail)
         /\ Len(Append(q, m)) = Len(q) + 1
         /\ Append(q, m) # <<>>
         /\ Append(q, m)[Len(q) + 1] = m
         /\ \A i \in 1 .. Len(q) : Append(q, m)[i] = q[i]
         /\ DOMAIN Append(q, m) = 1 .. Len(q) + 1
BY AppendProperties, LenProperties

LEMMA MailTail ==
  ASSUME NEW q \in Seq(Mail), q # <<>>
  PROVE  /\ Tail(q) \in Seq(Mail)
         /\ Head(q) \in Mail /\ Head(q) = q[1]
         /\ Len(q) \in Nat /\ Len(q) > 0
         /\ Len(Tail(q)) = Len(q) - 1
         /\ \A i \in 1 .. Len(q) - 1 : Tail(q)[i] = q[i + 1]
         /\ DOMAIN Tail(q) = 1 .. Len(q) - 1
BY HeadTailProperties, EmptySeq, LenProperties

LEMMA HandleType ==
  ASSUME known \in [Threads -> Windows \union {NoWindow}],
         NEW t \in Threads, NEW m \in Notification, Handle(t, m)
  PROVE  /\ known' \in [Threads -> Windows \union {NoWindow}]
         /\ \A u \in Threads \ {t} : known'[u] = known[u]
         /\ m.type = "setFocus" => known'[t] = m.hwnd
<1>1. CASE m.type = "setFocus"
  BY <1>1, MessageTypes DEF Handle
<1>2. CASE m.type = "threadDetach"
  BY <1>2 DEF Handle
<1>3. CASE m.type = "threadAttach"
  BY <1>3 DEF Handle
<1>4. QED
  BY <1>1, <1>2, <1>3, MessageTypes

LEMMA ReturnType ==
  ASSUME IInv, NEW t \in Threads, NEW way \in Ways, Return(t, way)
  PROVE  /\ pc' \in [Threads -> Stages] /\ attempt' \in [Threads -> 1 .. 2]
         /\ msg' \in [Threads -> Notification \union {Nothing}]
         /\ via' \in [Threads -> Ways]
         /\ \A u \in Threads \ {t} : pc'[u] = pc[u] /\ msg'[u] = msg[u] /\ via'[u] = via[u]
         /\ msg'[t] = Nothing
         /\ pc'[t] \in {"idle", "unload", "gone"}
         /\ pc'[t] = "unload" => unloading
         /\ witness[t] # 0 => via'[t] = way
<1>1. via' \in [Threads -> Ways]
  BY DEF Return, IInv, TypeOK, TypeCalls, Ways
<1>2. \/ pc' = [pc EXCEPT ![t] = "idle"]
      \/ pc' = [pc EXCEPT ![t] = "unload"] /\ unloading
      \/ pc' = [pc EXCEPT ![t] = "gone"]
  <2>1. CASE msg[t] # Detach
    BY <2>1 DEF Return, Goto
  <2>2. CASE msg[t] = Detach /\ unloading
    BY <2>2 DEF Return, Goto
  <2>3. CASE msg[t] = Detach /\ ~unloading
    BY <2>3 DEF Return, Goto
  <2>4. QED
    BY <2>1, <2>2, <2>3
<1>3. QED
  BY <1>1, <1>2 DEF Return, IInv, TypeOK, TypeCalls, Stages

(* What is in the mailslot of a thread after one more, and after one less. *)
LEMMA InMailAppend ==
  ASSUME TypeOK, NEW t \in Threads, NEW m \in Notification,
         mail' = Append(mail, [thread |-> t, msg |-> m])
  PROVE  /\ \A u \in Threads \ {t} : InMail(u)' = InMail(u)
         /\ InMail(t)' = InMail(t) \union {Len(mail) + 1}
         /\ \A u \in Threads : \A i \in InMail(u) : mail'[i] = mail[i] /\ i <= Len(mail)
         /\ mail'[Len(mail) + 1].msg = m /\ mail' # <<>> /\ Len(mail) \in Nat
<1> DEFINE new == [thread |-> t, msg |-> m]
<1>1. mail \in Seq(Mail) /\ Len(mail) \in Nat /\ DOMAIN mail = 1 .. Len(mail)
  BY LenProperties DEF TypeOK, TypeMail
<1>2. new \in Mail /\ new.thread = t /\ new.msg = m
  BY DEF Mail
<1>3. /\ DOMAIN mail' = 1 .. Len(mail) + 1 /\ mail' # <<>>
      /\ mail'[Len(mail) + 1] = new
      /\ \A i \in 1 .. Len(mail) : mail'[i] = mail[i]
  BY <1>1, <1>2, MailAppend
<1>4. DOMAIN mail' = DOMAIN mail \union {Len(mail) + 1} /\ Len(mail) + 1 \notin DOMAIN mail
  BY <1>1, <1>3
<1> HIDE DEF new
<1>5. QED
  BY <1>1, <1>2, <1>3, <1>4 DEF InMail

LEMMA InMailTail ==
  ASSUME TypeOK, mail # <<>>, mail' = Tail(mail)
  PROVE  /\ \A u \in Threads : \A i \in InMail(u)' :
               i + 1 \in InMail(u) /\ mail'[i] = mail[i + 1] /\ i \in Nat
         /\ \A u \in Threads : \A i \in InMail(u) :
               i \in Nat /\ (i = 1 \/ i - 1 \in InMail(u)')
         /\ Head(mail) = mail[1] /\ mail[1] \in Mail
         /\ \A u \in Threads : 1 \in InMail(u) <=> mail[1].thread = u
<1>1. mail \in Seq(Mail) /\ DOMAIN mail = 1 .. Len(mail)
  BY LenProperties DEF TypeOK, TypeMail
<1>2. /\ Head(mail) = mail[1] /\ mail[1] \in Mail /\ Len(mail) \in Nat /\ Len(mail) > 0
      /\ \A i \in 1 .. Len(mail) - 1 : mail'[i] = mail[i + 1]
      /\ DOMAIN mail' = 1 .. Len(mail) - 1
  BY <1>1, MailTail
<1>3. \A u \in Threads : \A i \in InMail(u)' :
         i + 1 \in InMail(u) /\ mail'[i] = mail[i + 1] /\ i \in Nat
  BY <1>1, <1>2 DEF InMail
<1>4. \A u \in Threads : \A i \in InMail(u) : i \in Nat /\ (i = 1 \/ i - 1 \in InMail(u)')
  <2> SUFFICES ASSUME NEW u \in Threads, NEW i \in InMail(u), i # 1
               PROVE  i - 1 \in InMail(u)'
    BY <1>1, <1>2 DEF InMail
  <2>1. i \in 1 .. Len(mail) /\ mail[i].thread = u
    BY <1>1 DEF InMail
  <2>2. i - 1 \in 1 .. Len(mail) - 1 /\ (i - 1) + 1 = i
    BY <2>1, <1>2
  <2>3. mail'[i - 1] = mail[i]
    BY <2>2, <1>2
  <2>4. QED
    BY <2>1, <2>2, <2>3, <1>2 DEF InMail
<1>5. \A u \in Threads : 1 \in InMail(u) <=> mail[1].thread = u
  BY <1>1, <1>2 DEF InMail
<1>6. QED
  BY <1>2, <1>3, <1>4, <1>5

LEMMA InMailWrite ==
  ASSUME IInv, NEW t \in Threads, WriteMailslot(t)
  PROVE  /\ \A u \in Threads \ {t} : InMail(u)' = InMail(u)
         /\ \A u \in Threads : \A i \in InMail(u) : mail'[i] = mail[i]
<1>1. CASE UNCHANGED mail
  BY <1>1 DEF InMail
<1>2. CASE ~UNCHANGED mail
  <2>1. mail' = Append(mail, [thread |-> t, msg |-> msg[t]])
    BY <1>2 DEF WriteMailslot
  <2>2. msg[t] \in Notification
    BY CallType DEF WriteMailslot, InNotify, InCall
  <2>3. TypeOK
    BY DEF IInv
  <2>4. QED
    BY <2>1, <2>2, <2>3, InMailAppend
<1>3. QED
  BY <1>1, <1>2

(* The end of a call, whatever became of it. *)
LEMMA ReturnDll ==
  ASSUME IInv, NEW t \in Threads, NEW way \in Ways, Return(t, way)
  PROVE  /\ UNCHANGED <<loaded, unloading>>
         /\ initialized' \in BOOLEAN
         /\ reported' \in [Threads -> Windows \union {NoWindow}]
<1> USE DEF IInv, TypeOK, TypeDll
<1>1. UNCHANGED <<loaded, unloading>>
  BY DEF Return
<1>2. initialized' \in BOOLEAN
  BY DEF Return
<1>3. CASE msg[t] = Detach
  BY <1>1, <1>2, <1>3 DEF Return
<1>4. CASE msg[t] # Detach
  BY <1>1, <1>2, <1>4 DEF Return
<1>5. QED
  BY <1>3, <1>4

(* The ways a notification takes, and when. *)
LEMMA WriteWays ==
  ASSUME NEW t \in Threads, WriteMailslot(t)
  PROVE  \E way \in Ways :
           Return(t, way) /\ (way = "mail" \/ (way = "stray" /\ (slot # gen \/ ~Alive)))
<1>1. \/ Return(t, "mail")
      \/ Return(t, "stray") /\ (slot # gen \/ ~Alive)
  BY Zenon DEF WriteMailslot
<1>2. "mail" \in Ways /\ "stray" \in Ways
  BY DEF Ways
<1>3. CASE Return(t, "mail")
  BY <1>2, <1>3
<1>4. CASE Return(t, "stray") /\ (slot # gen \/ ~Alive)
  BY <1>2, <1>4
<1>5. QED
  BY <1>1, <1>3, <1>4

LEMMA SendWays ==
  ASSUME NEW t \in Threads, SendCopyData(t)
  PROVE  \E way \in Ways :
           Return(t, way) /\ (way \in {"window", "timeout"} \/ msg[t] = Detach \/ ~Published)
BY DEF SendCopyData, Ways

LEMMA ReturnCalls ==
  ASSUME IInv, NEW t \in Threads, InNotify(t), NEW way \in Ways, Return(t, way),
         UNCHANGED witness
  PROVE  Calls'
<1> USE ReturnType DEF IInv, Calls, InNotify, InCall
<1>1. \A u \in Threads : InNotify(u)' => u # t /\ InNotify(u) /\ UNCHANGED <<pc[u], msg[u]>>
  OBVIOUS
<1>2. \A u \in Threads : InCall(u)' => InCall(u)
  OBVIOUS
<1>3. \A u \in Threads : u # t => reported'[u] = reported[u]
  BY DEF Return, TypeOK, TypeDll
<1>4. UNCHANGED unloading
  BY DEF Return
<1>5. ~initialized' => \A u \in Threads : reported'[u] = NoWindow
  BY DEF Return, TypeOK, TypeDll
<1>6. \A u \in Threads : pc'[u] = "unload" => unloading
  OBVIOUS
<1>7. QED
  BY <1>1, <1>2, <1>3, <1>4, <1>5, <1>6

(* A step inside notify() moves one thread only. *)
LEMMA MoveCalls ==
  ASSUME IInv, NEW t \in Threads, InNotify(t),
         NEW label \in Using \union {"open", "send"}, Goto(t, label),
         UNCHANGED <<msg, dllVars, witness>>
  PROVE  Calls'
<1>1. \A u \in Threads : u # t => pc'[u] = pc[u]
  BY DEF Goto, IInv, TypeOK, TypeCalls
<1>2. pc'[t] \notin {"idle", "gone", "unload"}
  BY DEF Goto, IInv, TypeOK, TypeCalls, Using
<1>3. \A u \in Threads : (InCall(u)' <=> InCall(u)) /\ (InNotify(u)' <=> InNotify(u))
  BY <1>1, <1>2 DEF InNotify, InCall
<1>4. \A u \in Threads : pc'[u] = "unload" => pc[u] = "unload"
  BY <1>1, <1>2
<1>5. UNCHANGED <<msg, reported, witness, initialized, unloading>>
  BY DEF dllVars
<1>6. QED
  BY <1>3, <1>4, <1>5 DEF IInv, Calls

-----------------------------------------------------------------------------
(* The strengthening, one part after the other. *)

(* Every action keeps the types. *)
LEMMA TypeStep ==
  ASSUME IInv, Next
  PROVE  TypeOK'
<1> USE
   DEF IInv, TypeOK, TypeNyamy, TypeMail, TypeDll, TypeCalls, Mail, Notification, Stages, Ways,
             Attach, Detach, SetFocus, Nothing, Using, Invalid,
             nyamyVars, sharedVars, handleVars, dllVars, callVars, historyVars, callOnly,
             nyamyOnly, witnessVars, readerOnly, Goto, NoteRace, Begin
<1>1. ASSUME Load PROVE TypeOK'
  BY <1>1, BoundsAssumption DEF Load
<1>2. ASSUME NEW t \in Threads, Initialize(t) PROVE TypeOK'
  BY <1>2, BoundsAssumption DEF Initialize, MayCall, Attach, Published, Detach
<1>3. ASSUME NEW t \in Threads, NotifySetFocus(t) PROVE TypeOK'
  <2>1. TypeNyamy'
    BY <1>3, BoundsAssumption DEF NotifySetFocus, MayCall, SetFocus, Published, Detach
  <2>2. TypeMail'
    BY <1>3, BoundsAssumption DEF NotifySetFocus, MayCall, SetFocus, Published, Detach
  <2>3. TypeDll'
    BY <1>3, BoundsAssumption DEF NotifySetFocus, MayCall, SetFocus, Published, Detach
  <2>4. TypeCalls'
    BY <1>3, BoundsAssumption DEF NotifySetFocus, MayCall, SetFocus, Published, Detach
  <2>5. QED
    BY <2>1, <2>2, <2>3, <2>4 DEF TypeOK
<1>4. ASSUME NEW t \in Threads, NotifyNoFocus(t) PROVE TypeOK'
  BY <1>4, BoundsAssumption DEF NotifyNoFocus, MayCall
<1>5. ASSUME NEW t \in Threads, NotifyThreadDetach(t) PROVE TypeOK'
  BY <1>5, BoundsAssumption DEF NotifyThreadDetach, MayCall, Detach, Published
<1>6. ASSUME NEW t \in Threads, Unload(t) PROVE TypeOK'
  BY <1>6, BoundsAssumption DEF Unload, MayCall, Detach, Published
<1>7. ASSUME NEW t \in Threads, ProcessDetach(t) PROVE TypeOK'
  <2>1. TypeNyamy'
    BY <1>7, BoundsAssumption DEF ProcessDetach, Invalid
  <2>2. TypeMail'
    BY <1>7, BoundsAssumption DEF ProcessDetach, Invalid
  <2>3. TypeDll'
    <3>1. handle' \in [to : 0 .. MaxNyamy, open : BOOLEAN]
      BY <1>7, InvalidType, Zenon DEF ProcessDetach
    <3>2. QED
      BY <1>7, <3>1 DEF ProcessDetach
  <2>4. TypeCalls'
    BY <1>7, BoundsAssumption DEF ProcessDetach, Invalid
  <2>5. QED
    BY <2>1, <2>2, <2>3, <2>4 DEF TypeOK
<1>8. ASSUME NEW t \in Threads, OpenMailslot(t) PROVE TypeOK'
  <2>1. TypeNyamy'
    BY <1>8, BoundsAssumption DEF OpenMailslot
  <2>2. TypeMail'
    BY <1>8, BoundsAssumption DEF OpenMailslot
  <2>3. TypeDll'
    BY <1>8, BoundsAssumption DEF OpenMailslot
  <2>4. TypeCalls'
    BY <1>8, BoundsAssumption DEF OpenMailslot
  <2>5. QED
    BY <2>1, <2>2, <2>3, <2>4 DEF TypeOK
<1>9. ASSUME NEW t \in Threads, CreateFile(t) PROVE TypeOK'
  BY <1>9, BoundsAssumption DEF CreateFile
<1>10. ASSUME NEW t \in Threads, AssignHandle(t) PROVE TypeOK'
  BY <1>10, BoundsAssumption DEF AssignHandle, Using
<1>11. ASSUME NEW t \in Threads, WriteMailslot(t) PROVE TypeOK'
  <2>1. TypeNyamy'
    BY <1>11, BoundsAssumption
       DEF WriteMailslot, Return, Connected, Alive, Nothing, Detach, Attach
  <2>2. TypeMail'
    <3>1. CASE UNCHANGED mail
      BY <1>11, <3>1 DEF WriteMailslot
    <3>2. CASE ~UNCHANGED mail
      <4> DEFINE m == [thread |-> t, msg |-> msg[t]]
      <4>1. mail' = Append(mail, m) /\ Len(mail) < MaxMail
        BY <1>11, <3>2 DEF WriteMailslot
      <4>2. m \in Mail
        BY <1>11, CallType DEF WriteMailslot, InNotify, InCall
      <4>3. mail' \in Seq(Mail) /\ Len(mail') = Len(mail) + 1
        BY <4>1, <4>2, MailAppend
      <4>4. Len(mail') <= MaxMail
        BY <4>1, <4>3, LenProperties, BoundsAssumption
      <4>5. QED
        BY <1>11, <4>3, <4>4 DEF WriteMailslot
    <3>3. QED
      BY <3>1, <3>2
  <2>3. TypeDll'
    <3>1. UNCHANGED <<handle, retryAt>> /\ \E way \in Ways : Return(t, way)
      BY <1>11 DEF WriteMailslot, Ways
    <3>2. QED
      BY <3>1, ReturnDll
  <2>4. TypeCalls'
    BY <1>11, ReturnType DEF WriteMailslot
  <2>5. QED
    BY <2>1, <2>2, <2>3, <2>4 DEF TypeOK
<1>12. ASSUME NEW t \in Threads, WriteFails(t) PROVE TypeOK'
  BY <1>12, BoundsAssumption DEF WriteFails, Connected
<1>13. ASSUME NEW t \in Threads, CloseMailslot(t) PROVE TypeOK'
  <2>1. TypeNyamy'
    BY <1>13, BoundsAssumption DEF CloseMailslot, Using
  <2>2. TypeMail'
    BY <1>13, BoundsAssumption DEF CloseMailslot, Using
  <2>3. TypeDll'
    BY <1>13, BoundsAssumption DEF CloseMailslot, Using
  <2>4. TypeCalls'
    BY <1>13, BoundsAssumption DEF CloseMailslot, Using
  <2>5. QED
    BY <2>1, <2>2, <2>3, <2>4 DEF TypeOK
<1>14. ASSUME NEW t \in Threads, DropHandle(t) PROVE TypeOK'
  <2>1. TypeNyamy'
    BY <1>14, BoundsAssumption DEF DropHandle, Invalid, Using
  <2>2. TypeMail'
    BY <1>14, BoundsAssumption DEF DropHandle, Invalid, Using
  <2>3. TypeDll'
    <3>1. handle' \in [to : 0 .. MaxNyamy, open : BOOLEAN]
      BY <1>14, InvalidType, Zenon DEF DropHandle
    <3>2. QED
      BY <1>14, <3>1 DEF DropHandle
  <2>4. TypeCalls'
    BY <1>14, BoundsAssumption DEF DropHandle, Invalid, Using
  <2>5. QED
    BY <2>1, <2>2, <2>3, <2>4 DEF TypeOK
<1>15. ASSUME NEW t \in Threads, SendCopyData(t) PROVE TypeOK'
  <2>1. TypeNyamy'
    BY <1>15, BoundsAssumption
       DEF SendCopyData, Return, Handle, Published, Detach, Nothing, Attach
  <2>2. TypeMail'
    <3>1. msg[t] \in Notification
      BY <1>15, CallType DEF SendCopyData, InNotify, InCall
    <3>2. known' \in [Threads -> Windows \union {NoWindow}]
      BY <1>15, <3>1, HandleType DEF SendCopyData
    <3>3. QED
      BY <1>15, <3>2 DEF SendCopyData
  <2>3. TypeDll'
    <3>1. UNCHANGED <<handle, retryAt>> /\ \E way \in Ways : Return(t, way)
      BY <1>15 DEF SendCopyData, Ways
    <3>2. QED
      BY <3>1, ReturnDll
  <2>4. TypeCalls'
    BY <1>15, ReturnType DEF SendCopyData
  <2>5. QED
    BY <2>1, <2>2, <2>3, <2>4 DEF TypeOK
<1>16. ASSUME Construct PROVE TypeOK'
  <2>1. TypeNyamy'
    <3>1. gen' \in 0 .. MaxNyamy
      BY <1>16, BoundsAssumption DEF Construct
    <3>2. slotless' \in BOOLEAN
      BY <1>16 DEF Construct
    <3>3. QED
      BY <1>16, <3>1, <3>2 DEF Construct
  <2>2. TypeMail'
    BY <1>16, BoundsAssumption DEF Construct, Alive
  <2>3. TypeDll'
    BY <1>16, BoundsAssumption DEF Construct, Alive
  <2>4. TypeCalls'
    BY <1>16, BoundsAssumption DEF Construct, Alive
  <2>5. QED
    BY <2>1, <2>2, <2>3, <2>4 DEF TypeOK
<1>17. ASSUME InstallMessageHook PROVE TypeOK'
  BY <1>17, BoundsAssumption DEF InstallMessageHook
<1>18. ASSUME StartNotifyReader PROVE TypeOK'
  BY <1>18, BoundsAssumption DEF StartNotifyReader
<1>19. ASSUME UninstallMessageHook PROVE TypeOK'
  <2>1. TypeNyamy'
    BY <1>19, BoundsAssumption DEF UninstallMessageHook, NoWitness
  <2>2. TypeMail'
    BY <1>19, BoundsAssumption DEF UninstallMessageHook, NoWitness
  <2>3. TypeDll'
    BY <1>19, BoundsAssumption DEF UninstallMessageHook, NoWitness
  <2>4. TypeCalls'
    BY <1>19, BoundsAssumption DEF UninstallMessageHook, NoWitness
  <2>5. QED
    BY <2>1, <2>2, <2>3, <2>4 DEF TypeOK
<1>20. ASSUME StopNotifyReader PROVE TypeOK'
  BY <1>20, BoundsAssumption DEF StopNotifyReader
<1>21. ASSUME LetGo PROVE TypeOK'
  <2>1. TypeNyamy'
    BY <1>21, BoundsAssumption DEF LetGo, Gone, NoKnowledge
  <2>2. TypeMail'
    BY <1>21, BoundsAssumption DEF LetGo, Gone, NoKnowledge
  <2>3. TypeDll'
    BY <1>21, BoundsAssumption DEF LetGo, Gone, NoKnowledge
  <2>4. TypeCalls'
    BY <1>21, BoundsAssumption DEF LetGo, Gone, NoKnowledge
  <2>5. QED
    BY <2>1, <2>2, <2>3, <2>4 DEF TypeOK
<1>22. ASSUME ProcessEnds PROVE TypeOK'
  BY <1>22, BoundsAssumption DEF ProcessEnds, Alive
<1>23. ASSUME Crash PROVE TypeOK'
  <2>1. TypeNyamy'
    BY <1>23, BoundsAssumption DEF Crash, Alive, Gone, NoWitness, NoKnowledge
  <2>2. TypeMail'
    BY <1>23, BoundsAssumption DEF Crash, Alive, Gone, NoWitness, NoKnowledge
  <2>3. TypeDll'
    BY <1>23, BoundsAssumption DEF Crash, Alive, Gone, NoWitness, NoKnowledge
  <2>4. TypeCalls'
    BY <1>23, BoundsAssumption DEF Crash, Alive, Gone, NoWitness, NoKnowledge
  <2>5. QED
    BY <2>1, <2>2, <2>3, <2>4 DEF TypeOK
<1>24. ASSUME ReaderChecksStop PROVE TypeOK'
  BY <1>24, BoundsAssumption DEF ReaderChecksStop
<1>25. ASSUME ReaderReads PROVE TypeOK'
  BY <1>25, BoundsAssumption DEF ReaderReads
<1>26. ASSUME ReaderTakes PROVE TypeOK'
  <2>1. TypeNyamy'
    BY <1>26, BoundsAssumption DEF ReaderTakes
  <2>2. TypeMail'
    <3>1. mail' \in Seq(Mail) /\ Len(mail') = Len(mail) - 1 /\ Head(mail) \in Mail
      BY <1>26, MailTail DEF ReaderTakes
    <3>2. Len(mail') <= MaxMail
      BY <3>1, LenProperties, BoundsAssumption
    <3>3. QED
      BY <1>26, <3>1, <3>2 DEF ReaderTakes
  <2>3. TypeDll'
    BY <1>26, BoundsAssumption DEF ReaderTakes
  <2>4. TypeCalls'
    BY <1>26, BoundsAssumption DEF ReaderTakes
  <2>5. QED
    BY <2>1, <2>2, <2>3, <2>4 DEF TypeOK
<1>27. ASSUME ReaderHandles PROVE TypeOK'
  <2>1. TypeNyamy'
    BY <1>27, BoundsAssumption DEF ReaderHandles, Handle
  <2>2. TypeMail'
    <3>1. hand # <<>>
      BY <1>27 DEF ReaderHandles, Charge
    <3>2. hand[1] \in Mail
      BY <3>1
    <3>3. known' \in [Threads -> Windows \union {NoWindow}]
      BY <1>27, <3>2, MailTypes, HandleType DEF ReaderHandles
    <3>4. QED
      BY <1>27, <3>3 DEF ReaderHandles
  <2>3. TypeDll'
    BY <1>27, BoundsAssumption DEF ReaderHandles, Handle
  <2>4. TypeCalls'
    BY <1>27, BoundsAssumption DEF ReaderHandles, Handle
  <2>5. QED
    BY <2>1, <2>2, <2>3, <2>4 DEF TypeOK
<1>28. QED
  BY <1>1, <1>2, <1>3, <1>4, <1>5, <1>6, <1>7, <1>8, <1>9, <1>10, <1>11, <1>12, <1>13,
     <1>14, <1>15, <1>16, <1>17, <1>18, <1>19, <1>20, <1>21, <1>22, <1>23, <1>24, <1>25,
     <1>26, <1>27
     DEF Next, Hook, Notify, Nyamy, Reader

(* ... and who is in charge. *)
LEMMA ChargeStep ==
  ASSUME IInv, Next
  PROVE  Charge'
<1> USE DEF IInv, TypeOK, TypeNyamy, TypeMail, TypeDll, TypeCalls, Charge, Alive,
             Published, Invalid,
             nyamyVars, sharedVars, handleVars, dllVars, callVars, historyVars, callOnly,
             nyamyOnly, witnessVars, readerOnly, Goto, NoteRace, Begin
<1>1. ASSUME Load PROVE Charge'
  BY <1>1, BoundsAssumption DEF Load
<1>2. ASSUME NEW t \in Threads, Initialize(t) PROVE Charge'
  BY <1>2, BoundsAssumption DEF Initialize, MayCall, Attach, Published, Detach
<1>3. ASSUME NEW t \in Threads, NotifySetFocus(t) PROVE Charge'
  BY <1>3, BoundsAssumption DEF NotifySetFocus, MayCall, SetFocus, Published, Detach
<1>4. ASSUME NEW t \in Threads, NotifyNoFocus(t) PROVE Charge'
  BY <1>4, BoundsAssumption DEF NotifyNoFocus, MayCall
<1>5. ASSUME NEW t \in Threads, NotifyThreadDetach(t) PROVE Charge'
  BY <1>5, BoundsAssumption DEF NotifyThreadDetach, MayCall, Detach, Published
<1>6. ASSUME NEW t \in Threads, Unload(t) PROVE Charge'
  BY <1>6, BoundsAssumption DEF Unload, MayCall, Detach, Published
<1>7. ASSUME NEW t \in Threads, ProcessDetach(t) PROVE Charge'
  BY <1>7, BoundsAssumption DEF ProcessDetach, Invalid
<1>8. ASSUME NEW t \in Threads, OpenMailslot(t) PROVE Charge'
  BY <1>8, BoundsAssumption DEF OpenMailslot
<1>9. ASSUME NEW t \in Threads, CreateFile(t) PROVE Charge'
  BY <1>9, BoundsAssumption DEF CreateFile
<1>10. ASSUME NEW t \in Threads, AssignHandle(t) PROVE Charge'
  <2>1. handle'.to = fresh[t] /\ handle'.to <= gen
    BY <1>10 DEF AssignHandle
  <2>2. handle'.open => handle'.to # 0
    BY <1>10 DEF AssignHandle
  <2>3. \A u \in Threads : fresh'[u] <= gen
    BY <1>10 DEF AssignHandle
  <2>4. QED
    BY <1>10, <2>1, <2>2, <2>3 DEF AssignHandle
<1>11. ASSUME NEW t \in Threads, WriteMailslot(t) PROVE Charge'
  BY <1>11, BoundsAssumption
     DEF WriteMailslot, Return, Connected, Alive, Nothing, Detach, Attach
<1>12. ASSUME NEW t \in Threads, WriteFails(t) PROVE Charge'
  BY <1>12, BoundsAssumption DEF WriteFails, Connected
<1>13. ASSUME NEW t \in Threads, CloseMailslot(t) PROVE Charge'
  BY <1>13, BoundsAssumption DEF CloseMailslot, Using
<1>14. ASSUME NEW t \in Threads, DropHandle(t) PROVE Charge'
  BY <1>14, BoundsAssumption DEF DropHandle, Invalid, Using
<1>15. ASSUME NEW t \in Threads, SendCopyData(t) PROVE Charge'
  BY <1>15, BoundsAssumption
     DEF SendCopyData, Return, Handle, Published, Detach, Nothing, Attach
<1>16. ASSUME Construct PROVE Charge'
  <2>1. \A t \in Threads : witness'[t] = 0
    BY <1>16 DEF Construct
  <2>2. gen \in Nat /\ gen' = gen + 1 /\ slot \in Nat
    BY <1>16, BoundsAssumption DEF Construct
  <2>3. handle.to \in Nat /\ \A t \in Threads : fresh[t] \in Nat
    BY BoundsAssumption
  <2>4. /\ handle'.to <= gen' /\ slot' <= gen'
        /\ \A t \in Threads : fresh'[t] <= gen'
    BY <1>16, <2>2, <2>3 DEF Construct
  <2>5. gen' # 0 /\ (slot' = gen' \/ slotless')
    <3>1. CASE slot = 0
      BY <1>16, <2>2, <3>1 DEF Construct
    <3>2. CASE slot # 0
      <4>1. slotless'
        BY <1>16, <3>2, Zenon DEF Construct
      <4>2. QED
        BY <2>2, <4>1
    <3>3. QED
      BY <3>1, <3>2
  <2>6. QED
    BY <1>16, <2>1, <2>4, <2>5 DEF Construct
<1>17. ASSUME InstallMessageHook PROVE Charge'
  BY <1>17, BoundsAssumption DEF InstallMessageHook
<1>18. ASSUME StartNotifyReader PROVE Charge'
  BY <1>18, BoundsAssumption DEF StartNotifyReader
<1>19. ASSUME UninstallMessageHook PROVE Charge'
  BY <1>19, BoundsAssumption DEF UninstallMessageHook, NoWitness
<1>20. ASSUME StopNotifyReader PROVE Charge'
  BY <1>20, BoundsAssumption DEF StopNotifyReader
<1>21. ASSUME LetGo PROVE Charge'
  BY <1>21, BoundsAssumption DEF LetGo, Gone, NoKnowledge
<1>22. ASSUME ProcessEnds PROVE Charge'
  BY <1>22, BoundsAssumption DEF ProcessEnds, Alive
<1>23. ASSUME Crash PROVE Charge'
  BY <1>23, BoundsAssumption DEF Crash, Alive, Gone, NoWitness, NoKnowledge
<1>24. ASSUME ReaderChecksStop PROVE Charge'
  BY <1>24, BoundsAssumption DEF ReaderChecksStop
<1>25. ASSUME ReaderReads PROVE Charge'
  BY <1>25, BoundsAssumption DEF ReaderReads
<1>26. ASSUME ReaderTakes PROVE Charge'
  BY <1>26, BoundsAssumption DEF ReaderTakes
<1>27. ASSUME ReaderHandles PROVE Charge'
  BY <1>27, BoundsAssumption DEF ReaderHandles, Handle
<1>28. QED
  BY <1>1, <1>2, <1>3, <1>4, <1>5, <1>6, <1>7, <1>8, <1>9, <1>10, <1>11, <1>12, <1>13,
     <1>14, <1>15, <1>16, <1>17, <1>18, <1>19, <1>20, <1>21, <1>22, <1>23, <1>24, <1>25,
     <1>26, <1>27
     DEF Next, Hook, Notify, Nyamy, Reader

(* ... and what the calls are about. *)
LEMMA CallsStep ==
  ASSUME IInv, Next
  PROVE  Calls'
<1> USE DEF IInv, TypeOK, TypeNyamy, TypeMail, TypeDll, TypeCalls, Charge, Calls, InCall,
             InNotify, Alive, Published, Using,
             nyamyVars, sharedVars, handleVars, dllVars, callVars, historyVars, callOnly,
             nyamyOnly, witnessVars, readerOnly, Goto, NoteRace, Begin
<1>1. ASSUME Load PROVE Calls'
  BY <1>1 DEF Load
<1>2. ASSUME NEW t \in Threads, Initialize(t) PROVE Calls'
  BY <1>2, MessagesDiffer DEF Initialize, MayCall, Published
<1>3. ASSUME NEW t \in Threads, NotifySetFocus(t) PROVE Calls'
  BY <1>3, MessagesDiffer DEF NotifySetFocus, MayCall, Published
<1>4. ASSUME NEW t \in Threads, NotifyNoFocus(t) PROVE Calls'
  BY <1>4 DEF NotifyNoFocus, MayCall
<1>5. ASSUME NEW t \in Threads, NotifyThreadDetach(t) PROVE Calls'
  BY <1>5, MessagesDiffer DEF NotifyThreadDetach, MayCall, Published
<1>6. ASSUME NEW t \in Threads, Unload(t) PROVE Calls'
  BY <1>6, MessagesDiffer DEF Unload, MayCall, Published
<1>7. ASSUME NEW t \in Threads, ProcessDetach(t) PROVE Calls'
  BY <1>7 DEF ProcessDetach, Invalid
<1>8. ASSUME NEW t \in Threads, OpenMailslot(t) PROVE Calls'
  BY <1>8, MoveCalls DEF OpenMailslot
<1>9. ASSUME NEW t \in Threads, CreateFile(t) PROVE Calls'
  BY <1>9, MoveCalls DEF CreateFile
<1>10. ASSUME NEW t \in Threads, AssignHandle(t) PROVE Calls'
  BY <1>10, MoveCalls DEF AssignHandle
<1>11. ASSUME NEW t \in Threads, WriteMailslot(t) PROVE Calls'
  BY <1>11, ReturnCalls DEF WriteMailslot, InNotify, InCall, Ways
<1>12. ASSUME NEW t \in Threads, WriteFails(t) PROVE Calls'
  BY <1>12, MoveCalls DEF WriteFails
<1>13. ASSUME NEW t \in Threads, CloseMailslot(t) PROVE Calls'
  BY <1>13, MoveCalls DEF CloseMailslot
<1>14. ASSUME NEW t \in Threads, DropHandle(t) PROVE Calls'
  BY <1>14, MoveCalls DEF DropHandle
<1>15. ASSUME NEW t \in Threads, SendCopyData(t) PROVE Calls'
  BY <1>15, ReturnCalls DEF SendCopyData, InNotify, InCall, Ways
<1>16. ASSUME Construct PROVE Calls'
  BY <1>16 DEF Construct, Alive
<1>17. ASSUME InstallMessageHook PROVE Calls'
  BY <1>17 DEF InstallMessageHook
<1>18. ASSUME StartNotifyReader PROVE Calls'
  BY <1>18 DEF StartNotifyReader
<1>19. ASSUME UninstallMessageHook PROVE Calls'
  BY <1>19 DEF UninstallMessageHook, NoWitness
<1>20. ASSUME StopNotifyReader PROVE Calls'
  BY <1>20 DEF StopNotifyReader
<1>21. ASSUME LetGo PROVE Calls'
  BY <1>21 DEF LetGo, Gone, NoKnowledge
<1>22. ASSUME ProcessEnds PROVE Calls'
  BY <1>22 DEF ProcessEnds, Alive
<1>23. ASSUME Crash PROVE Calls'
  BY <1>23 DEF Crash, Alive, Gone, NoWitness, NoKnowledge
<1>24. ASSUME ReaderChecksStop PROVE Calls'
  BY <1>24 DEF ReaderChecksStop
<1>25. ASSUME ReaderReads PROVE Calls'
  BY <1>25 DEF ReaderReads
<1>26. ASSUME ReaderTakes PROVE Calls'
  BY <1>26 DEF ReaderTakes
<1>27. ASSUME ReaderHandles PROVE Calls'
  BY <1>27 DEF ReaderHandles, Handle
<1>28. QED
  BY <1>1, <1>2, <1>3, <1>4, <1>5, <1>6, <1>7, <1>8, <1>9, <1>10, <1>11, <1>12, <1>13,
     <1>14, <1>15, <1>16, <1>17, <1>18, <1>19, <1>20, <1>21, <1>22, <1>23, <1>24, <1>25,
     <1>26, <1>27
     DEF Next, Hook, Notify, Nyamy, Reader

(* ... and the order of the handle and the mail. *)
LEMMA OrderedStep ==
  ASSUME IInv, Next
  PROVE  Ordered'
<1> USE DEF IInv, TypeOK, TypeNyamy, TypeMail, TypeDll, TypeCalls, Charge, Ordered, Unread,
             Good, Connected, InHand, Alive, Published, Using,
             nyamyVars, sharedVars, handleVars, dllVars, callVars, historyVars, callOnly,
             nyamyOnly, witnessVars, readerOnly, Goto, NoteRace, Begin
<1>1. ASSUME Load PROVE Ordered'
  BY <1>1 DEF Load, InMail
<1>2. ASSUME NEW t \in Threads, Initialize(t) PROVE Ordered'
  BY <1>2 DEF Initialize, MayCall, Attach, Published, Detach, InMail
<1>3. ASSUME NEW t \in Threads, NotifySetFocus(t) PROVE Ordered'
  BY <1>3 DEF NotifySetFocus, MayCall, SetFocus, Published, Detach, InMail
<1>4. ASSUME NEW t \in Threads, NotifyNoFocus(t) PROVE Ordered'
  BY <1>4 DEF NotifyNoFocus, MayCall, InMail
<1>5. ASSUME NEW t \in Threads, NotifyThreadDetach(t) PROVE Ordered'
  BY <1>5 DEF NotifyThreadDetach, MayCall, Detach, Published, InMail
<1>6. ASSUME NEW t \in Threads, Unload(t) PROVE Ordered'
  BY <1>6 DEF Unload, MayCall, Detach, Published, InMail
<1>7. ASSUME NEW t \in Threads, ProcessDetach(t) PROVE Ordered'
  <2>1. \A u \in Threads : u # t => pc[u] \in {"idle", "gone"}
    BY <1>7 DEF ProcessDetach, Calls, InCall
  <2>2. \A u \in Threads : pc'[u] \in {"idle", "gone"}
    BY <1>7, <2>1 DEF ProcessDetach
  <2>3. handle'.to = 0 /\ ~retryAt'
    BY <1>7 DEF ProcessDetach, Invalid
  <2>4. QED
    BY <1>7, <2>2, <2>3 DEF ProcessDetach, InMail
<1>8. ASSUME NEW t \in Threads, OpenMailslot(t) PROVE Ordered'
  BY <1>8 DEF OpenMailslot, InMail
<1>9. ASSUME NEW t \in Threads, CreateFile(t) PROVE Ordered'
  BY <1>9 DEF CreateFile, InMail
<1>10. ASSUME NEW t \in Threads, AssignHandle(t) PROVE Ordered'
  <2> SUFFICES ASSUME ~raced' PROVE Ordered'
    OBVIOUS
  <2>1. ~raced /\ \A u \in Threads : u # t => pc[u] \notin {"create", "assign", "write", "close", "drop"}
    BY <1>10 DEF AssignHandle
  <2>2. handle'.to = fresh[t] /\ (handle'.open <=> fresh[t] # 0)
    BY <1>10 DEF AssignHandle
  <2>3. Unread => fresh[t] = gen /\ slot = gen /\ gen # 0
    BY <1>10, <2>1 DEF AssignHandle
  <2>4. Unread' => slot' = gen' /\ Good'
    BY <1>10, <2>2, <2>3 DEF AssignHandle
  <2>5. \/ pc'[t] = "write" /\ handle'.to # 0
        \/ pc'[t] = "send" /\ ~Unread
    BY <1>10, <2>2, <2>3 DEF AssignHandle
  <2>6. \A u \in Threads : u # t => pc'[u] = pc[u]
    BY <1>10 DEF AssignHandle
  <2>7. ~Unread => InMail(t)' = {} /\ ~InHand(t)'
    BY <1>10 DEF AssignHandle, InMail
  <2>8. \A u \in Threads : InMail(u)' = InMail(u) /\ InHand(u)' = InHand(u) /\ witness'[u] = witness[u]
    BY <1>10 DEF AssignHandle, InMail
  <2>9. QED
    BY <2>1, <2>4, <2>5, <2>6, <2>7, <2>8
<1>11. ASSUME NEW t \in Threads, WriteMailslot(t) PROVE Ordered'
  <2> SUFFICES ASSUME ~raced' PROVE Ordered'
    OBVIOUS
  <2>1. ~raced /\ Connected /\ Connected' /\ handle.to # 0
    BY <1>11 DEF WriteMailslot
  <2>2. \A u \in Threads : pc[u] \notin {"create", "assign", "close", "drop"}
    BY <2>1
  <2>3. pc'[t] \in {"idle", "unload", "gone"} /\ \A u \in Threads \ {t} : pc'[u] = pc[u]
    BY <1>11, ReturnType DEF WriteMailslot, Ways
  <2>4. Unread' => slot' = gen'
    BY <1>11, <2>1 DEF WriteMailslot
  <2>5. \A u \in Threads \ {t} : InMail(u)' = InMail(u)
    BY <1>11, InMailWrite
  <2>6. UNCHANGED <<hand, witness>>
    BY <1>11 DEF WriteMailslot
  <2>7. UNCHANGED handle
    BY <1>11 DEF WriteMailslot
  <2>8. \A u \in Threads : pc'[u] = "send" /\ witness'[u] # 0 => InMail(u)' = {} /\ ~InHand(u)'
    <3>1. \A u \in Threads : pc[u] = "send" /\ witness[u] # 0 => InMail(u) = {} /\ ~InHand(u)
      BY <2>1
    <3>2. \A u \in Threads : pc'[u] = "send" /\ witness'[u] # 0
                               => u # t /\ pc[u] = "send" /\ witness[u] # 0
      BY <2>3, <2>6
    <3>3. QED
      BY <2>5, <2>6, <3>1, <3>2 DEF InHand
  <2>9. \A u \in Threads : pc'[u] \notin {"create", "assign", "close", "drop"}
    BY <2>2, <2>3
  <2>10. handle'.to # 0
    BY <2>1, <2>7
  <2>11. QED
    BY <2>1, <2>4, <2>8, <2>9, <2>10
<1>12. ASSUME NEW t \in Threads, WriteFails(t) PROVE Ordered'
  BY <1>12 DEF WriteFails, Connected, InMail
<1>13. ASSUME NEW t \in Threads, CloseMailslot(t) PROVE Ordered'
  BY <1>13 DEF CloseMailslot, Using, InMail
<1>14. ASSUME NEW t \in Threads, DropHandle(t) PROVE Ordered'
  BY <1>14 DEF DropHandle, Invalid, Using, InMail
<1>15. ASSUME NEW t \in Threads, SendCopyData(t) PROVE Ordered'
  BY <1>15 DEF SendCopyData, Return, Handle, Published, Detach, Nothing, Attach, InMail
<1>16. ASSUME Construct PROVE Ordered'
  BY <1>16 DEF Construct, Alive, InMail
<1>17. ASSUME InstallMessageHook PROVE Ordered'
  BY <1>17 DEF InstallMessageHook, InMail
<1>18. ASSUME StartNotifyReader PROVE Ordered'
  BY <1>18 DEF StartNotifyReader, InMail
<1>19. ASSUME UninstallMessageHook PROVE Ordered'
  BY <1>19 DEF UninstallMessageHook, NoWitness, InMail
<1>20. ASSUME StopNotifyReader PROVE Ordered'
  BY <1>20 DEF StopNotifyReader, InMail
<1>21. ASSUME LetGo PROVE Ordered'
  BY <1>21 DEF LetGo, Gone, NoKnowledge, InMail
<1>22. ASSUME ProcessEnds PROVE Ordered'
  BY <1>22 DEF ProcessEnds, Alive, InMail
<1>23. ASSUME Crash PROVE Ordered'
  BY <1>23 DEF Crash, Alive, Gone, NoWitness, NoKnowledge, InMail
<1>24. ASSUME ReaderChecksStop PROVE Ordered'
  BY <1>24 DEF ReaderChecksStop, InMail
<1>25. ASSUME ReaderReads PROVE Ordered'
  BY <1>25 DEF ReaderReads, InMail
<1>26. ASSUME ReaderTakes PROVE Ordered'
  BY <1>26 DEF ReaderTakes, InMail
<1>27. ASSUME ReaderHandles PROVE Ordered'
  BY <1>27 DEF ReaderHandles, Handle, InMail
<1>28. QED
  BY <1>1, <1>2, <1>3, <1>4, <1>5, <1>6, <1>7, <1>8, <1>9, <1>10, <1>11, <1>12, <1>13,
     <1>14, <1>15, <1>16, <1>17, <1>18, <1>19, <1>20, <1>21, <1>22, <1>23, <1>24, <1>25,
     <1>26, <1>27
     DEF Next, Hook, Notify, Nyamy, Reader

(* A call that ends has reached nyamy. *)
LEMMA PublishedStep ==
  ASSUME IInv, Next
  PROVE  PublishedIsReached'
<1> USE DEF IInv, TypeOK, TypeNyamy, TypeMail, TypeDll, TypeCalls, Charge, Calls,
             PublishedIsReached, InCall, InNotify, Alive, Published, Using,
             nyamyVars, sharedVars, handleVars, dllVars, callVars, historyVars, callOnly,
             nyamyOnly, witnessVars, readerOnly, Goto, NoteRace, Begin
<1>1. ASSUME Load PROVE PublishedIsReached'
  BY <1>1 DEF Load
<1>2. ASSUME NEW t \in Threads, Initialize(t) PROVE PublishedIsReached'
  BY <1>2 DEF Initialize, MayCall, Attach, Published, Detach
<1>3. ASSUME NEW t \in Threads, NotifySetFocus(t) PROVE PublishedIsReached'
  BY <1>3 DEF NotifySetFocus, MayCall, SetFocus, Published, Detach
<1>4. ASSUME NEW t \in Threads, NotifyNoFocus(t) PROVE PublishedIsReached'
  BY <1>4 DEF NotifyNoFocus, MayCall
<1>5. ASSUME NEW t \in Threads, NotifyThreadDetach(t) PROVE PublishedIsReached'
  BY <1>5 DEF NotifyThreadDetach, MayCall, Detach, Published
<1>6. ASSUME NEW t \in Threads, Unload(t) PROVE PublishedIsReached'
  BY <1>6 DEF Unload, MayCall, Detach, Published
<1>7. ASSUME NEW t \in Threads, ProcessDetach(t) PROVE PublishedIsReached'
  BY <1>7 DEF ProcessDetach, Invalid
<1>8. ASSUME NEW t \in Threads, OpenMailslot(t) PROVE PublishedIsReached'
  BY <1>8 DEF OpenMailslot
<1>9. ASSUME NEW t \in Threads, CreateFile(t) PROVE PublishedIsReached'
  BY <1>9 DEF CreateFile
<1>10. ASSUME NEW t \in Threads, AssignHandle(t) PROVE PublishedIsReached'
  BY <1>10 DEF AssignHandle, Using
<1>11. ASSUME NEW t \in Threads, WriteMailslot(t) PROVE PublishedIsReached'
  <2>1. PICK way \in Ways : Return(t, way) /\ (way = "mail" \/ (way = "stray" /\ (slot # gen \/ ~Alive)))
    BY <1>11, WriteWays
  <2>2. \A u \in Threads \ {t} : pc'[u] = pc[u] /\ via'[u] = via[u]
    BY <2>1, ReturnType
  <2>3. UNCHANGED <<witness, slotless>>
    BY <1>11 DEF WriteMailslot
  <2>4. witness[t] # 0 => via'[t] = way
    BY <2>1, ReturnType
  <2>5. witness[t] # 0 => (slot = gen /\ Alive) \/ slotless
    OBVIOUS
  <2>6. QED
    BY <2>1, <2>2, <2>3, <2>4, <2>5
<1>12. ASSUME NEW t \in Threads, WriteFails(t) PROVE PublishedIsReached'
  BY <1>12 DEF WriteFails, Connected
<1>13. ASSUME NEW t \in Threads, CloseMailslot(t) PROVE PublishedIsReached'
  BY <1>13 DEF CloseMailslot, Using
<1>14. ASSUME NEW t \in Threads, DropHandle(t) PROVE PublishedIsReached'
  BY <1>14 DEF DropHandle, Invalid, Using
<1>15. ASSUME NEW t \in Threads, SendCopyData(t) PROVE PublishedIsReached'
  <2>1. PICK way \in Ways :
          Return(t, way) /\ (way \in {"window", "timeout"} \/ msg[t] = Detach \/ ~Published)
    BY <1>15, SendWays
  <2>2. \A u \in Threads \ {t} : pc'[u] = pc[u] /\ via'[u] = via[u]
    BY <2>1, ReturnType
  <2>3. UNCHANGED <<witness, slotless>>
    BY <1>15 DEF SendCopyData
  <2>4. witness[t] # 0 => via'[t] = way
    BY <2>1, ReturnType
  <2>5. witness[t] # 0 => msg[t] # Detach /\ Published
    BY <1>15 DEF SendCopyData, Calls, InNotify, InCall
  <2>6. QED
    BY <2>1, <2>2, <2>3, <2>4, <2>5
<1>16. ASSUME Construct PROVE PublishedIsReached'
  BY <1>16 DEF Construct, Alive
<1>17. ASSUME InstallMessageHook PROVE PublishedIsReached'
  BY <1>17 DEF InstallMessageHook
<1>18. ASSUME StartNotifyReader PROVE PublishedIsReached'
  BY <1>18 DEF StartNotifyReader
<1>19. ASSUME UninstallMessageHook PROVE PublishedIsReached'
  BY <1>19 DEF UninstallMessageHook, NoWitness
<1>20. ASSUME StopNotifyReader PROVE PublishedIsReached'
  BY <1>20 DEF StopNotifyReader
<1>21. ASSUME LetGo PROVE PublishedIsReached'
  BY <1>21 DEF LetGo, Gone, NoKnowledge
<1>22. ASSUME ProcessEnds PROVE PublishedIsReached'
  BY <1>22 DEF ProcessEnds, Alive
<1>23. ASSUME Crash PROVE PublishedIsReached'
  BY <1>23 DEF Crash, Alive, Gone, NoWitness, NoKnowledge
<1>24. ASSUME ReaderChecksStop PROVE PublishedIsReached'
  BY <1>24 DEF ReaderChecksStop
<1>25. ASSUME ReaderReads PROVE PublishedIsReached'
  BY <1>25 DEF ReaderReads
<1>26. ASSUME ReaderTakes PROVE PublishedIsReached'
  BY <1>26 DEF ReaderTakes
<1>27. ASSUME ReaderHandles PROVE PublishedIsReached'
  BY <1>27 DEF ReaderHandles, Handle
<1>28. QED
  BY <1>1, <1>2, <1>3, <1>4, <1>5, <1>6, <1>7, <1>8, <1>9, <1>10, <1>11, <1>12, <1>13,
     <1>14, <1>15, <1>16, <1>17, <1>18, <1>19, <1>20, <1>21, <1>22, <1>23, <1>24, <1>25,
     <1>26, <1>27
     DEF Next, Hook, Notify, Nyamy, Reader

(* What nyamy is about to know stays what was reported. *)
LEMMA LastStep ==
  ASSUME IInv, Next
  PROVE  LastReportWins'
<1> USE DEF IInv, TypeOK, TypeNyamy, TypeMail, TypeDll, TypeCalls, Charge, Calls, Ordered,
             LastReportWins, ReportedTo, AboutToKnow, InHand, Unread,
             nyamyVars, sharedVars, handleVars, dllVars, callVars, historyVars, callOnly,
             nyamyOnly, witnessVars, readerOnly, Goto, NoteRace, Begin
<1>1. ASSUME Load PROVE LastReportWins'
  BY <1>1 DEF Load, InMail
<1>2. ASSUME NEW t \in Threads, Initialize(t) PROVE LastReportWins'
  BY <1>2 DEF Initialize, MayCall, Attach, Published, Detach, InMail
<1>3. ASSUME NEW t \in Threads, NotifySetFocus(t) PROVE LastReportWins'
  BY <1>3 DEF NotifySetFocus, MayCall, SetFocus, Published, Detach, InMail
<1>4. ASSUME NEW t \in Threads, NotifyNoFocus(t) PROVE LastReportWins'
  BY <1>4 DEF NotifyNoFocus, MayCall, InMail
<1>5. ASSUME NEW t \in Threads, NotifyThreadDetach(t) PROVE LastReportWins'
  BY <1>5 DEF NotifyThreadDetach, MayCall, Detach, Published, InMail
<1>6. ASSUME NEW t \in Threads, Unload(t) PROVE LastReportWins'
  BY <1>6 DEF Unload, MayCall, Detach, Published, InMail
<1>7. ASSUME NEW t \in Threads, ProcessDetach(t) PROVE LastReportWins'
  BY <1>7 DEF ProcessDetach, Invalid, InMail
<1>8. ASSUME NEW t \in Threads, OpenMailslot(t) PROVE LastReportWins'
  <2>1. /\ pc'[t] # "idle" /\ \A u \in Threads \ {t} : pc'[u] = pc[u]
        /\ UNCHANGED <<mail, hand, known, witness, via, reported, raced>>
    BY <1>8 DEF OpenMailslot
  <2>2. \A u \in Threads : ReportedTo(u)' => ReportedTo(u)
    BY <2>1
  <2>3. QED
    BY <2>1, <2>2 DEF InMail
<1>9. ASSUME NEW t \in Threads, CreateFile(t) PROVE LastReportWins'
  BY <1>9 DEF CreateFile, InMail
<1>10. ASSUME NEW t \in Threads, AssignHandle(t) PROVE LastReportWins'
  BY <1>10 DEF AssignHandle, Using, InMail
<1>11. ASSUME NEW t \in Threads, WriteMailslot(t) PROVE LastReportWins'
  <2> SUFFICES ASSUME NEW u \in Threads, ReportedTo(u)', ~raced'
               PROVE  AboutToKnow(u, reported[u])'
    OBVIOUS
  <2>1. msg[t] \in Notification /\ msg[t] # Nothing
    BY <1>11, CallType DEF WriteMailslot, InNotify, InCall
  <2>2. /\ UNCHANGED <<hand, known, witness, raced>>
        /\ \A v \in Threads \ {t} : pc'[v] = pc[v] /\ via'[v] = via[v] /\ reported'[v] = reported[v]
    BY <1>11, ReturnType DEF WriteMailslot, Ways, Return
  <2>3. CASE u # t
    <3>1. AboutToKnow(u, reported[u])
      BY <2>2, <2>3
    <3>2. InMail(u)' = InMail(u) /\ \A i \in InMail(u) : mail'[i] = mail[i]
      BY <1>11, <2>3, InMailWrite
    <3>3. \A i \in InMail(u)' : (\A j \in InMail(u)' : j <= i)
                                  => mail'[i].msg = SetFocus(reported[u])
      BY <3>1, <3>2, ZenonT(60)
    <3>4. reported'[u] = reported[u] /\ UNCHANGED <<hand, known>>
      BY <2>2, <2>3
    <3>5. QED
      BY <3>1, <3>2, <3>3, <3>4
  <2>4. CASE u = t
    <3>1. via'[t] \in {"mail", "window"}
      BY <2>4
    <3>2. mail' = Append(mail, [thread |-> t, msg |-> msg[t]])
      <4>1. CASE Return(t, "stray")
        BY <3>1, <4>1, <2>2, <2>4, ReturnType DEF Ways
      <4>2. QED
        BY <1>11, <4>1 DEF WriteMailslot
    <3>3. msg[t] = SetFocus(reported[t]) /\ reported'[t] = reported[t]
      <4>1. pc'[t] = "idle" /\ reported'[t] # NoWindow
        BY <2>4
      <4>2. msg[t] # Detach
        BY <1>11, <4>1, <2>1 DEF WriteMailslot, Return
      <4>3. reported'[t] = reported[t]
        BY <1>11, <4>2 DEF WriteMailslot, Return
      <4>4. msg[t] # Attach
        BY <1>11, <4>1, <4>3 DEF WriteMailslot, InNotify, InCall
      <4>5. QED
        BY <1>11, <2>1, <4>2, <4>3, <4>4 DEF WriteMailslot, InNotify, InCall
    <3>4. /\ Len(mail) + 1 \in InMail(t)' /\ mail'[Len(mail) + 1].msg = msg[t]
          /\ \A i \in InMail(t)' : i # Len(mail) + 1 => ~(Len(mail) + 1 <= i)
      BY <2>1, <3>2, InMailAppend DEF InMail
    <3>5. QED
      BY <2>4, <3>3, <3>4
  <2>5. QED
    BY <2>3, <2>4
<1>12. ASSUME NEW t \in Threads, WriteFails(t) PROVE LastReportWins'
  BY <1>12 DEF WriteFails, Connected, InMail
<1>13. ASSUME NEW t \in Threads, CloseMailslot(t) PROVE LastReportWins'
  BY <1>13 DEF CloseMailslot, Using, InMail
<1>14. ASSUME NEW t \in Threads, DropHandle(t) PROVE LastReportWins'
  BY <1>14 DEF DropHandle, Invalid, Using, InMail
<1>15. ASSUME NEW t \in Threads, SendCopyData(t) PROVE LastReportWins'
  <2> SUFFICES ASSUME NEW u \in Threads, ReportedTo(u)', ~raced'
               PROVE  AboutToKnow(u, reported[u])'
    OBVIOUS
  <2>1. msg[t] \in Notification /\ msg[t] # Nothing
    BY <1>15, CallType DEF SendCopyData, InNotify, InCall
  <2>2. /\ UNCHANGED <<hand, mail, witness, raced>>
        /\ \A v \in Threads \ {t} : pc'[v] = pc[v] /\ via'[v] = via[v] /\ reported'[v] = reported[v]
    BY <1>15, ReturnType DEF SendCopyData, Ways, Return
  <2>3. CASE u # t
    <3>1. AboutToKnow(u, reported[u])
      BY <2>2, <2>3
    <3>2. known'[u] = known[u]
      BY <1>15, <2>1, <2>3, HandleType DEF SendCopyData
    <3>3. QED
      BY <2>2, <2>3, <3>1, <3>2 DEF InMail
  <2>4. CASE u = t
    <3>1. InMail(t) = {} /\ ~InHand(t)
      BY <1>15, <2>2, <2>4 DEF SendCopyData
    <3>2. msg[t] # Detach /\ Handle(t, msg[t])
      <4>1. CASE Return(t, "timeout") \/ Return(t, "lost")
        BY <2>2, <2>4, <4>1, ReturnType DEF Ways
      <4>2. QED
        BY <1>15, <4>1 DEF SendCopyData
    <3>3. reported'[t] = reported[t]
      BY <1>15, <3>2 DEF SendCopyData, Return
    <3>4. msg[t] = SetFocus(reported[t])
      BY <1>15, <2>1, <2>4, <3>2, <3>3 DEF SendCopyData, InNotify, InCall
    <3>5. known'[t] = reported[t]
      <4>1. msg[t].type = "setFocus" /\ msg[t].hwnd = reported[t]
        BY <3>4 DEF SetFocus
      <4>2. QED
        BY <2>1, <3>2, <4>1, HandleType
    <3>6. QED
      BY <2>2, <2>4, <3>1, <3>3, <3>5 DEF InMail
  <2>5. QED
    BY <2>3, <2>4
<1>16. ASSUME Construct PROVE LastReportWins'
  BY <1>16 DEF Construct, Alive, InMail
<1>17. ASSUME InstallMessageHook PROVE LastReportWins'
  BY <1>17 DEF InstallMessageHook, InMail
<1>18. ASSUME StartNotifyReader PROVE LastReportWins'
  BY <1>18 DEF StartNotifyReader, InMail
<1>19. ASSUME UninstallMessageHook PROVE LastReportWins'
  BY <1>19 DEF UninstallMessageHook, NoWitness, InMail
<1>20. ASSUME StopNotifyReader PROVE LastReportWins'
  BY <1>20 DEF StopNotifyReader, InMail
<1>21. ASSUME LetGo PROVE LastReportWins'
  <2>1. \A u \in Threads : witness'[u] = 0
    BY <1>21 DEF LetGo, Published
  <2>2. QED
    BY <2>1
<1>22. ASSUME ProcessEnds PROVE LastReportWins'
  BY <1>22 DEF ProcessEnds, Alive, InMail
<1>23. ASSUME Crash PROVE LastReportWins'
  BY <1>23 DEF Crash, Alive, Gone, NoWitness, NoKnowledge, InMail
<1>24. ASSUME ReaderChecksStop PROVE LastReportWins'
  BY <1>24 DEF ReaderChecksStop, InMail
<1>25. ASSUME ReaderReads PROVE LastReportWins'
  BY <1>25 DEF ReaderReads, InMail
<1>26. ASSUME ReaderTakes PROVE LastReportWins'
  <2> SUFFICES ASSUME NEW u \in Threads, ReportedTo(u)', ~raced'
               PROVE  AboutToKnow(u, reported[u])'
    OBVIOUS
  <2>1. ReportedTo(u) /\ AboutToKnow(u, reported[u]) /\ UNCHANGED <<known, reported>>
    BY <1>26 DEF ReaderTakes
  <2>2. ~stop
    BY <2>1 DEF Published
  <2>3. mail # <<>> /\ mail' = Tail(mail) /\ hand' = <<Head(mail)>> /\ hand = <<>>
    BY <1>26, <2>2 DEF ReaderTakes
  <2>4. ASSUME NEW i \in InMail(u)', \A j \in InMail(u)' : j <= i
        PROVE  mail'[i].msg = SetFocus(reported[u])
    <3>1. i + 1 \in InMail(u) /\ mail'[i] = mail[i + 1] /\ i \in Nat
      BY <2>3, InMailTail
    <3>2. ASSUME NEW j \in InMail(u) PROVE j <= i + 1
      <4>1. j \in Nat /\ (j = 1 \/ j - 1 \in InMail(u)')
        BY <2>3, InMailTail
      <4>2. QED
        BY <2>4, <3>1, <4>1
    <3>3. QED
      BY <2>1, <3>1, <3>2
  <2>5. ASSUME InMail(u)' = {}, InHand(u)'
        PROVE  hand'[1].msg = SetFocus(reported[u])
    <3>1. mail[1].thread = u /\ hand'[1] = mail[1]
      BY <2>3, <2>5, InMailTail
    <3>2. 1 \in InMail(u) /\ \A j \in InMail(u) : j = 1
      BY <2>3, <2>5, <3>1, InMailTail
    <3>3. QED
      BY <2>1, <3>1, <3>2
  <2>6. ASSUME InMail(u)' = {}, ~InHand(u)'
        PROVE  known'[u] = reported[u]
    <3>1. mail[1].thread # u
      BY <2>3, <2>6, InMailTail
    <3>2. ASSUME NEW j \in InMail(u) PROVE FALSE
      <4>1. j = 1 \/ j - 1 \in InMail(u)'
        BY <2>3, InMailTail
      <4>2. 1 \notin InMail(u)
        BY <2>3, <3>1, InMailTail
      <4>3. QED
        BY <2>6, <4>1, <4>2
    <3>3. QED
      BY <2>1, <2>3, <3>2
  <2>7. QED
    BY <2>1, <2>4, <2>5, <2>6
<1>27. ASSUME ReaderHandles PROVE LastReportWins'
  <2> SUFFICES ASSUME NEW u \in Threads, ReportedTo(u)', ~raced'
               PROVE  AboutToKnow(u, reported[u])'
    OBVIOUS
  <2>1. /\ ReportedTo(u) /\ AboutToKnow(u, reported[u])
        /\ UNCHANGED <<mail, reported>> /\ hand' = <<>>
    BY <1>27 DEF ReaderHandles
  <2>2. hand # <<>> /\ hand[1] \in Mail
    BY <1>27 DEF ReaderHandles
  <2> DEFINE t == hand[1].thread
             m == hand[1].msg
  <2>3. t \in Threads /\ m \in Notification /\ Handle(t, m)
    BY <1>27, <2>2, MailTypes DEF ReaderHandles
  <2>4. CASE InMail(u) = {} /\ t = u
    <3>1. m = SetFocus(reported[u])
      BY <2>1, <2>2, <2>4
    <3>2. known'[u] = reported[u]
      <4>1. m.type = "setFocus" /\ m.hwnd = reported[u]
        BY <3>1 DEF SetFocus
      <4>2. QED
        BY <2>3, <2>4, <4>1, HandleType
    <3>3. QED
      BY <2>1, <2>4, <3>2 DEF InMail
  <2>5. CASE InMail(u) = {} /\ t # u
    <3>1. known[u] = reported[u]
      BY <2>1, <2>2, <2>5
    <3>2. known'[u] = known[u]
      BY <2>3, <2>5, HandleType
    <3>3. QED
      BY <2>1, <2>5, <3>1, <3>2 DEF InMail
  <2>6. CASE InMail(u) # {}
    BY <2>1, <2>6 DEF InMail
  <2>7. QED
    BY <2>4, <2>5, <2>6
<1>28. QED
  BY <1>1, <1>2, <1>3, <1>4, <1>5, <1>6, <1>7, <1>8, <1>9, <1>10, <1>11, <1>12, <1>13,
     <1>14, <1>15, <1>16, <1>17, <1>18, <1>19, <1>20, <1>21, <1>22, <1>23, <1>24, <1>25,
     <1>26, <1>27
     DEF Next, Hook, Notify, Nyamy, Reader

LEMMA InitInv == Init => IInv
<1> SUFFICES ASSUME Init PROVE IInv
  OBVIOUS
<1>1. TypeOK
  <2>1. TypeNyamy
    <3>1. gen \in 0 .. MaxNyamy
      BY BoundsAssumption DEF Init
    <3>2. QED
      BY <3>1 DEF Init, TypeNyamy
  <2>2. TypeMail
    BY BoundsAssumption DEF Init, TypeMail
  <2>3. handle \in [to : 0 .. MaxNyamy, open : BOOLEAN]
    BY InvalidType DEF Init
  <2>4. TypeDll
    BY <2>3 DEF Init, TypeDll
  <2>5. TypeCalls
    <3>1. 0 \in 0 .. MaxNyamy /\ 1 \in 1 .. 2 /\ "idle" \in Stages /\ "none" \in Ways
      BY BoundsAssumption DEF Stages, Ways
    <3>2. QED
      BY <3>1 DEF Init, TypeCalls
  <2>6. QED
    BY <2>1, <2>2, <2>4, <2>5 DEF TypeOK
<1>2. Charge
  BY BoundsAssumption DEF Init, Charge, Alive, Published, Invalid
<1>3. Calls
  BY DEF Init, Calls, InCall, InNotify
<1>4. Ordered
  BY DEF Init, Ordered, Unread
<1>5. PublishedIsReached /\ LastReportWins
  BY DEF Init, PublishedIsReached, LastReportWins, ReportedTo
<1>6. QED
  BY <1>1, <1>2, <1>3, <1>4, <1>5 DEF IInv

LEMMA StutterInv == IInv /\ UNCHANGED vars => IInv'
<1> SUFFICES ASSUME IInv, UNCHANGED vars PROVE IInv'
  OBVIOUS
<1> USE DEF IInv, vars, nyamyVars, sharedVars, handleVars, dllVars, callVars, historyVars
<1>1. TypeOK'
  BY DEF TypeOK, TypeNyamy, TypeMail, TypeDll, TypeCalls
<1>2. Charge'
  BY DEF Charge, Alive, Published
<1>3. Calls'
  BY DEF Calls, InCall, InNotify
<1>4. Ordered'
  BY DEF Ordered, Unread, Good, Connected, InMail, InHand
<1>5. PublishedIsReached'
  BY DEF PublishedIsReached
<1>6. LastReportWins'
  BY DEF LastReportWins, ReportedTo, AboutToKnow, InMail, InHand
<1>7. QED
  BY <1>1, <1>2, <1>3, <1>4, <1>5, <1>6

-----------------------------------------------------------------------------
(* The strengthening holds in every state: who is in charge, what calls are *)
(* under way, and that the handle is good while a notification is unread.   *)
THEOREM Invariance == Spec => []IInv
<1>1. Init => IInv
  BY InitInv
<1>2. IInv /\ [Next]_vars => IInv'
  BY TypeStep, ChargeStep, CallsStep, OrderedStep, PublishedStep, LastStep, StutterInv DEF IInv
<1>3. QED
  BY <1>1, <1>2, PTL DEF Spec

(* Every variable of the DLL, of nyamy and of the mailslot between them     *)
(* keeps its type; the mailslot never holds more than it is bounded by.     *)
THEOREM TypeCorrect == Spec => []TypeOK
<1>1. IInv => TypeOK
  BY DEF IInv
<1>2. QED
  BY <1>1, Invariance, PTL

(* notify() reaches the nyamy that is in charge all through the call, for   *)
(* any number of threads, nyamys and windows (hook.cpp:353).                *)
THEOREM PublishedIsAlwaysReached == Spec => []PublishedIsReached
<1>1. IInv => PublishedIsReached
  BY DEF IInv
<1>2. QED
  BY <1>1, Invariance, PTL

(* What nyamy knows or is about to be told of a thread is what the thread   *)
(* reported last, while no two threads were at the handle at once: the      *)
(* direct way of notify() does not overtake the mailslot.                   *)
THEOREM LastReportAlwaysWins == Spec => []LastReportWins
<1>1. IInv => LastReportWins
  BY DEF IInv
<1>2. QED
  BY <1>1, Invariance, PTL
=============================================================================
