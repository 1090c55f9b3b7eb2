----------------------------- MODULE HookNotify -----------------------------
(***************************************************************************)
(* How a notification of the hook DLL gets from a hooked process to nyamy  *)
(* (hook.cpp: openMailslot, notify; mayu.cpp: the ends of class Mayu).     *)
(*                                                                         *)
(* The DLL is in one process, with one mailslot handle for all threads of  *)
(* it and nothing that guards the handle.  A notification is written to    *)
(* the mailslot; if that fails the handle is taken for one of a nyamy that *)
(* has gone, a new one is opened, and what is left is a WM_COPYDATA to the *)
(* window the nyamy in charge has published.  nyamys come and go: they are *)
(* named by their number, and quit or crash while the DLL stays.           *)
(*                                                                         *)
(* What the engine makes of a notification is Focus's and EngineSync's;    *)
(* here it knows what was handed to it last.  The tick a failed open may   *)
(* be retried at is abstracted to whether there is one; it may come at any *)
(* time, and not at all for half the range of the tick count.              *)
(***************************************************************************)
EXTENDS Naturals, Sequences

CONSTANTS
    Threads,        \* GUI threads of the hooked process
    Windows,        \* its windows
    NoWindow,       \* NULL
    MaxNyamy,       \* bound: nyamys that are started
    MaxMail         \* bound: messages in the mailslot

ASSUME BoundsAssumption ==
    /\ NoWindow \notin Windows
    /\ MaxNyamy \in Nat /\ MaxMail \in Nat

VARIABLES
    \* nyamy, the one in charge
    gen,            \* its number
    ui,             \* what its UI thread has come to
    reader,         \* where its notify reader thread is
    hand,           \* the notification the reader has in hand, if any
    stop,           \* m_notifyReaderStop
    known,          \* the focus window it knows of each thread
    \* what it shares
    slot,           \* the nyamy the mailslot of that name belongs to, 0: none
    mail,           \* what is in it
    tray,           \* g_hookData->hwndTaskTray: a nyamy, or 0
    hooked,         \* its message hooks are installed
    \* the DLL in the hooked process
    loaded, unloading, initialized,
    handle,         \* g.m_hMailslot: [to, open], to = 0 for an invalid one
    retryAt,        \* g.m_mailslotRetryAt is not 0
    pc,             \* where each thread is in notify()
    attempt,        \* 2 once the thread has dropped the handle
    fresh,          \* what CreateFile() has returned
    msg,            \* the notification in hand
    reported,       \* t.m_hwndFocus
    \* history, for the properties
    witness,        \* the nyamy in charge all along since the thread's last call
    via,            \* the way the last notification took
    raced,          \* a thread changed the handle while another was using it
    slotless        \* the nyamy in charge found the name of its mailslot taken

nyamyVars == <<gen, ui, reader, hand, stop, hooked, slotless>>
sharedVars == <<slot, mail, tray>>
handleVars == <<handle, retryAt>>
dllVars == <<loaded, unloading, initialized, reported>>
callVars == <<pc, attempt, fresh, msg>>
historyVars == <<witness, via, raced>>
vars == <<nyamyVars, known, sharedVars, dllVars, handleVars, callVars,
          historyVars>>

Invalid == [to |-> 0, open |-> FALSE]
SetFocus(w) == [type |-> "setFocus", hwnd |-> w]
Nothing == [type |-> "nothing", hwnd |-> NoWindow]
Attach == [type |-> "threadAttach", hwnd |-> NoWindow]
Detach == [type |-> "threadDetach", hwnd |-> NoWindow]
Notification == {SetFocus(w) : w \in Windows} \union {Attach, Detach}
Mail == [thread : Threads, msg : Notification]

Alive == ui # "absent"
Published == tray = gen /\ ui \in {"published", "running"}

Init ==
    /\ gen = 0 /\ ui = "absent" /\ reader = "none" /\ stop = FALSE
    /\ hand = <<>>
    /\ known = [t \in Threads |-> NoWindow]
    /\ slot = 0 /\ mail = <<>> /\ tray = 0 /\ hooked = FALSE
    /\ loaded = FALSE /\ unloading = FALSE /\ initialized = FALSE
    /\ handle = Invalid /\ retryAt = FALSE
    /\ pc = [t \in Threads |-> "idle"] /\ attempt = [t \in Threads |-> 1]
    /\ fresh = [t \in Threads |-> 0] /\ msg = [t \in Threads |-> Nothing]
    /\ reported = [t \in Threads |-> NoWindow]
    /\ witness = [t \in Threads |-> 0] /\ via = [t \in Threads |-> "none"]
    /\ raced = FALSE /\ slotless = FALSE

-----------------------------------------------------------------------------
(***************************************************************************)
(* The hooks.  The first hook to be called initializes the DLL and says so *)
(* for its thread; a thread reports its focus window when it is another    *)
(* one than it reported last, whether nyamy heard of that one or not, and  *)
(* on entering or leaving a menu.  That it has none it notes and keeps to  *)
(* itself.                                                                 *)
(***************************************************************************)
MayCall(t) == loaded /\ ~unloading /\ pc[t] = "idle"

Begin(t, m) ==
    /\ pc' = [pc EXCEPT ![t] = "open"]
    /\ msg' = [msg EXCEPT ![t] = m]
    /\ witness' = [witness EXCEPT ![t] = IF Published /\ m # Detach THEN gen ELSE 0]
    /\ via' = [via EXCEPT ![t] = "none"]
    /\ UNCHANGED <<nyamyVars, known, sharedVars, handleVars, attempt, fresh,
                   raced>>

Load ==
    /\ hooked /\ ~loaded /\ loaded' = TRUE
    /\ UNCHANGED <<nyamyVars, known, sharedVars, unloading, initialized, reported,
                   handleVars, callVars, historyVars>>

Initialize(t) ==
    /\ hooked /\ MayCall(t) /\ ~initialized
    /\ Begin(t, Attach)
    /\ UNCHANGED dllVars

\* Mutant of NotifySetFocus: the report of the process, as it once was (hook.cpp:92).
NotifySetFocusOfProcess(t) ==
    /\ hooked /\ MayCall(t) /\ initialized
    /\ \E w \in Windows, doesForce \in BOOLEAN :
          /\ doesForce \/ w # reported[t]
          /\ reported' = [u \in Threads |-> w]
          /\ Begin(t, SetFocus(w))
    /\ UNCHANGED <<loaded, unloading, initialized>>

NotifySetFocus(t) ==
    /\ hooked /\ MayCall(t) /\ initialized
    /\ \E w \in Windows, doesForce \in BOOLEAN :
          /\ doesForce \/ w # reported[t]
          /\ reported' = [reported EXCEPT ![t] = w]
          /\ Begin(t, SetFocus(w))
    /\ UNCHANGED <<loaded, unloading, initialized>>

NotifyNoFocus(t) ==
    /\ hooked /\ MayCall(t) /\ initialized
    /\ reported' = [reported EXCEPT ![t] = NoWindow]
    /\ UNCHANGED <<nyamyVars, known, sharedVars, loaded, unloading, initialized,
                   handleVars, callVars, historyVars>>

\* The thread ends.
NotifyThreadDetach(t) ==
    /\ MayCall(t)
    /\ Begin(t, Detach)
    /\ UNCHANGED dllVars

-----------------------------------------------------------------------------
(***************************************************************************)
(* notify().                                                               *)
(***************************************************************************)
callOnly == <<nyamyVars, dllVars, witness>>

Goto(t, label) == pc' = [pc EXCEPT ![t] = label]

Using == {"create", "assign", "write", "close", "drop"}
NoteRace(t) == raced' = (raced \/ \E u \in Threads \ {t} : pc[u] \in Using)

OpenMailslot(t) ==
    /\ pc[t] = "open"
    /\ \/ handle.to # 0 /\ Goto(t, "write")
       \/ handle.to = 0 /\ Goto(t, "create")
       \/ handle.to = 0 /\ retryAt /\ Goto(t, "send")
    /\ UNCHANGED <<callOnly, known, sharedVars, handleVars, attempt, fresh, msg,
                   via, raced>>

CreateFile(t) ==
    /\ pc[t] = "create"
    /\ fresh' = [fresh EXCEPT ![t] = slot]
    /\ Goto(t, "assign")
    /\ UNCHANGED <<callOnly, known, sharedVars, handleVars, attempt, msg, via,
                   raced>>

\* the handle that CreateFile() returned, INVALID_HANDLE_VALUE if it failed
AssignHandle(t) ==
    /\ pc[t] = "assign"
    /\ handle' = [to |-> fresh[t], open |-> fresh[t] # 0]
    /\ retryAt' = (fresh[t] = 0)
    /\ Goto(t, IF fresh[t] = 0 THEN "send" ELSE "write")
    /\ fresh' = [fresh EXCEPT ![t] = 0]
    /\ NoteRace(t)
    /\ UNCHANGED <<callOnly, known, sharedVars, attempt, msg, via>>

Return(t, way) ==
    /\ via' = [via EXCEPT ![t] = IF witness[t] = 0 THEN "none" ELSE way]
    /\ attempt' = [attempt EXCEPT ![t] = 1]
    /\ msg' = [msg EXCEPT ![t] = Nothing]
    /\ Goto(t, IF msg[t] # Detach THEN "idle" ELSE IF unloading THEN "unload" ELSE "gone")
    /\ initialized' = (initialized \/ msg[t] = Attach)
    /\ reported' = IF msg[t] = Detach THEN [reported EXCEPT ![t] = NoWindow] ELSE reported
    /\ UNCHANGED <<loaded, unloading>>

Connected == handle.open /\ handle.to = slot

\* WriteFile() succeeds: the notification is in the mailslot
WriteMailslot(t) ==
    /\ pc[t] = "write" /\ Connected
    /\ \/ /\ slot = gen /\ Alive /\ Len(mail) < MaxMail
          /\ mail' = Append(mail, [thread |-> t, msg |-> msg[t]])
          /\ Return(t, "mail")
       \/ /\ slot # gen \/ ~Alive
          /\ UNCHANGED mail
          /\ Return(t, "stray")
    /\ UNCHANGED <<nyamyVars, known, slot, tray, handleVars, fresh, witness, raced>>

WriteFails(t) ==
    /\ pc[t] = "write" /\ ~Connected
    /\ Goto(t, IF attempt[t] = 1 THEN "close" ELSE "send")
    /\ UNCHANGED <<callOnly, known, sharedVars, handleVars, attempt, fresh, msg,
                   via, raced>>

CloseMailslot(t) ==
    /\ pc[t] = "close"
    /\ handle' = [handle EXCEPT !.open = FALSE]
    /\ Goto(t, "drop")
    /\ NoteRace(t)
    /\ UNCHANGED <<callOnly, known, sharedVars, retryAt, attempt, fresh, msg, via>>

\* Mutant of DropHandle: the notification is given up with the handle.
DropHandleAndReturn(t) ==
    /\ pc[t] = "drop"
    /\ handle' = Invalid /\ retryAt' = FALSE
    /\ Return(t, "lost")
    /\ NoteRace(t)
    /\ UNCHANGED <<nyamyVars, known, sharedVars, fresh, witness>>

DropHandle(t) ==
    /\ pc[t] = "drop"
    /\ handle' = Invalid /\ retryAt' = FALSE
    /\ attempt' = [attempt EXCEPT ![t] = 2]
    /\ Goto(t, "open")
    /\ NoteRace(t)
    /\ UNCHANGED <<callOnly, known, sharedVars, fresh, msg, via>>

\* What notifyHandler() makes of a notification.
Handle(t, m) ==
    known' = CASE m.type = "setFocus" -> [known EXCEPT ![t] = m.hwnd]
               [] m.type = "threadDetach" -> [known EXCEPT ![t] = NoWindow]
               [] OTHER -> known

\* WM_COPYDATA: the window of the nyamy in charge answers, or not in time
SendCopyData(t) ==
    /\ pc[t] = "send"
    /\ \/ /\ msg[t] # Detach /\ Published
          /\ \/ Handle(t, msg[t]) /\ Return(t, "window")
             \/ Return(t, "timeout") /\ UNCHANGED known
       \/ /\ msg[t] = Detach \/ ~Published
          /\ Return(t, "lost") /\ UNCHANGED known
    /\ UNCHANGED <<nyamyVars, sharedVars, handleVars, fresh, witness, raced>>

\* Windows unloads the DLL when a thread of the process retrieves a message and
\* the hooks are gone.  That thread tells of its end, although it goes on.
Unload(t) ==
    /\ ~hooked /\ MayCall(t)
    /\ \A u \in Threads : pc[u] \in {"idle", "gone"}
    /\ unloading' = TRUE
    /\ Begin(t, Detach)
    /\ UNCHANGED <<loaded, initialized, reported>>

ProcessDetach(t) ==
    /\ pc[t] = "unload"
    /\ Goto(t, "idle")
    /\ loaded' = FALSE /\ unloading' = FALSE /\ initialized' = FALSE
    /\ handle' = Invalid /\ retryAt' = FALSE
    /\ reported' = [u \in Threads |-> NoWindow]
    /\ UNCHANGED <<nyamyVars, known, sharedVars, attempt, fresh, msg,
                   historyVars>>

-----------------------------------------------------------------------------
(***************************************************************************)
(* nyamy: the constructor of Mayu, its message loop and its destructor.    *)
(* A process that has closed the mutex, and with it the way for the next   *)
(* nyamy, may still have the mailslot; that one starts without then.       *)
(***************************************************************************)
nyamyOnly == <<dllVars, handleVars, callVars, raced>>
witnessVars == <<witness, via>>

NoKnowledge == known' = [t \in Threads |-> NoWindow]

Construct ==
    /\ ~Alive /\ gen < MaxNyamy
    /\ gen' = gen + 1 /\ ui' = "constructed"
    /\ slot' = IF slot = 0 THEN gen + 1 ELSE slot
    /\ slotless' = (slot # 0)
    /\ stop' = FALSE
    /\ UNCHANGED <<reader, hand, hooked, known, mail, tray, witnessVars, nyamyOnly>>

InstallMessageHook ==
    /\ ui = "constructed" /\ ui' = "published"
    /\ tray' = gen /\ hooked' = TRUE
    /\ UNCHANGED <<gen, reader, hand, stop, slotless, known, slot, mail, witnessVars,
                   nyamyOnly>>

StartNotifyReader ==
    /\ ui = "published" /\ ui' = "running"
    /\ reader' = "loop"
    /\ UNCHANGED <<gen, hand, stop, hooked, slotless, known, sharedVars, witnessVars,
                   nyamyOnly>>

NoWitness ==
    /\ witness' = [t \in Threads |-> 0]
    /\ via' = [t \in Threads |-> "none"]

UninstallMessageHook ==
    /\ ui = "running" /\ ui' = "stopping"
    /\ tray' = 0 /\ hooked' = FALSE
    /\ NoWitness
    /\ UNCHANGED <<gen, reader, hand, stop, slotless, known, slot, mail, nyamyOnly>>

\* The reader is told to stop, and CancelIoEx() ends the read it is blocked in,
\* if it is.
StopNotifyReader ==
    /\ ui = "stopping" /\ ui' = "waiting"
    /\ stop' = TRUE
    /\ reader' = IF reader = "reading" THEN "ended" ELSE reader
    /\ UNCHANGED <<gen, hand, hooked, slotless, known, sharedVars, witnessVars,
                   nyamyOnly>>

Gone ==
    /\ ui' = "absent" /\ mail' = <<>> /\ hand' = <<>> /\ reader' = "none"
    /\ stop' = FALSE /\ slotless' = FALSE /\ NoKnowledge

\* The reader has ended, or two seconds have passed: then the mailslot, which it
\* may still be using, is left open.  The mutex is closed in any case.
LetGo ==
    /\ ui = "waiting"
    /\ slot' = IF slot = gen /\ reader = "ended" THEN 0 ELSE slot
    /\ Gone
    /\ UNCHANGED <<gen, hooked, tray, witnessVars, nyamyOnly>>

\* the process of an earlier nyamy ends at last
ProcessEnds ==
    /\ slot # 0 /\ (~Alive \/ slot # gen)
    /\ slot' = 0
    /\ UNCHANGED <<nyamyVars, known, mail, tray, witnessVars, nyamyOnly>>

\* crashExceptionFilter() takes the hooks away, nobody the window
Crash ==
    /\ Alive
    /\ slot' = IF slot = gen THEN 0 ELSE slot
    /\ hooked' = FALSE
    /\ Gone /\ NoWitness
    /\ UNCHANGED <<gen, tray, nyamyOnly>>

readerOnly == <<gen, ui, stop, hooked, slotless, slot, tray, witnessVars, nyamyOnly>>

ReaderChecksStop ==
    /\ reader = "loop"
    /\ reader' = IF stop THEN "ended" ELSE "entering"
    /\ UNCHANGED <<readerOnly, hand, mail, known>>

\* ReadFile() blocks, or fails at once without a mailslot
ReaderReads ==
    /\ reader = "entering"
    /\ reader' = IF slot = gen THEN "reading" ELSE "ended"
    /\ UNCHANGED <<readerOnly, hand, mail, known>>

ReaderTakes ==
    /\ reader = "reading" /\ mail # <<>>
    /\ mail' = Tail(mail)
    /\ hand' = IF stop THEN <<>> ELSE <<Head(mail)>>
    /\ reader' = IF stop THEN "ended" ELSE "handling"
    /\ UNCHANGED <<readerOnly, known>>

ReaderHandles ==
    /\ reader = "handling"
    /\ Handle(hand[1].thread, hand[1].msg)
    /\ hand' = <<>> /\ reader' = "loop"
    /\ UNCHANGED <<readerOnly, mail>>

-----------------------------------------------------------------------------
Notify(t) ==
    \/ OpenMailslot(t) \/ CreateFile(t) \/ AssignHandle(t)
    \/ WriteMailslot(t) \/ WriteFails(t) \/ CloseMailslot(t) \/ DropHandle(t)
    \/ SendCopyData(t)

Hook(t) ==
    \/ Initialize(t) \/ NotifySetFocus(t) \/ NotifyNoFocus(t) \/ NotifyThreadDetach(t)
    \/ Unload(t) \/ ProcessDetach(t)

Nyamy ==
    \/ Construct \/ InstallMessageHook \/ StartNotifyReader
    \/ UninstallMessageHook \/ StopNotifyReader \/ LetGo \/ ProcessEnds \/ Crash

Reader == ReaderChecksStop \/ ReaderReads \/ ReaderTakes \/ ReaderHandles

Next ==
    \/ Load
    \/ \E t \in Threads : Hook(t) \/ Notify(t)
    \/ Nyamy \/ Reader

Spec == Init /\ [][Next]_vars

-----------------------------------------------------------------------------
Stages == {"idle", "open", "send", "unload", "gone"} \union Using
Ways == {"none", "mail", "stray", "window", "timeout", "lost"}

TypeNyamy ==
    /\ gen \in 0 .. MaxNyamy
    /\ ui \in {"absent", "constructed", "published", "running", "stopping",
               "waiting"}
    /\ reader \in {"none", "loop", "entering", "reading", "handling", "ended"}
    /\ stop \in BOOLEAN /\ hooked \in BOOLEAN /\ slotless \in BOOLEAN

TypeMail ==
    /\ slot \in 0 .. MaxNyamy /\ tray \in 0 .. MaxNyamy
    /\ mail \in Seq(Mail) /\ Len(mail) <= MaxMail
    /\ hand \in {<<>>} \union {<<m>> : m \in Mail}
    /\ known \in [Threads -> Windows \union {NoWindow}]

TypeDll ==
    /\ loaded \in BOOLEAN /\ unloading \in BOOLEAN /\ initialized \in BOOLEAN
    /\ handle \in [to : 0 .. MaxNyamy, open : BOOLEAN] /\ retryAt \in BOOLEAN
    /\ reported \in [Threads -> Windows \union {NoWindow}]

TypeCalls ==
    /\ pc \in [Threads -> Stages] /\ attempt \in [Threads -> 1 .. 2]
    /\ fresh \in [Threads -> 0 .. MaxNyamy]
    /\ msg \in [Threads -> Notification \union {Nothing}]
    /\ witness \in [Threads -> 0 .. MaxNyamy] /\ via \in [Threads -> Ways]
    /\ raced \in BOOLEAN

TypeOK == TypeNyamy /\ TypeMail /\ TypeDll /\ TypeCalls

(***************************************************************************)
(* "Without the resend the first notification after a restart is lost"     *)
(* (hook.cpp:350): with it, a notification is not lost to the nyamy that   *)
(* was in charge all through the call, whatever its predecessors left in   *)
(* the process and whatever other threads do to the handle meanwhile.      *)
(* The end of a thread is the exception, it has no second way; so is a     *)
(* nyamy whose predecessor still has the mailslot.                         *)
(***************************************************************************)
PublishedIsReached ==
    \A t \in Threads :
        pc[t] \in {"idle", "gone"} /\ witness[t] # 0 =>
            \/ via[t] \in {"mail", "window", "timeout"}
            \/ via[t] = "stray" /\ slotless

(***************************************************************************)
(* Two ways to nyamy, a queue and a direct one, do not overtake each other:*)
(* what it knows, or is about to be told, of a thread is what the thread   *)
(* reported last.  Otherwise the keymap would be that of the window before *)
(* until the next change of focus.  It takes two threads at the handle to  *)
(* break it.                                                               *)
(***************************************************************************)
InMail(t) == {i \in DOMAIN mail : mail[i].thread = t}
InHand(t) == hand # <<>> /\ hand[1].thread = t

AboutToKnow(t, w) ==
    /\ \A i \in InMail(t) : (\A j \in InMail(t) : j <= i) => mail[i].msg = SetFocus(w)
    /\ InMail(t) = {} /\ InHand(t) => hand[1].msg = SetFocus(w)
    /\ InMail(t) = {} /\ ~InHand(t) => known[t] = w

ReportedTo(t) ==
    /\ pc[t] = "idle" /\ witness[t] # 0
    /\ reported[t] # NoWindow /\ via[t] \in {"mail", "window"}

LastReportWins == \A t \in Threads : ReportedTo(t) /\ ~raced => AboutToKnow(t, reported[t])

-----------------------------------------------------------------------------
(* What the sources say, and the code does not do. *)

\* The same with threads that race for the handle.
LastReportWinsAlways == \A t \in Threads : ReportedTo(t) => AboutToKnow(t, reported[t])

\* A handle is closed once.
ClosedOnce == [][\A t \in Threads : CloseMailslot(t) /\ handle.to # 0 => handle.open]_vars

\* "CancelIoEx ends the read" (mayu.cpp:179): refuted by a reader that has looked
\* at the flag and not begun to read.
CancelEndsTheRead == ui = "waiting" => reader # "reading"

\* "The hooks are gone, so nothing new will be written to the mailslot"
\* (mayu.cpp:1240): calls that are under way, and the end of the DLL itself, write.
NothingNewInMail ==
    [][ui \notin {"absent", "constructed", "published", "running"}
          => Len(mail') <= Len(mail)]_vars

\* What a nyamy that was started anew knows of a thread is what the thread
\* reported: a report that was not lost but went to its predecessor is not
\* repeated.
KnowsTheFocus ==
    \A t \in Threads :
        (/\ Published /\ loaded /\ pc[t] = "idle" /\ ~raced
         /\ reported[t] # NoWindow /\ via[t] # "timeout")
            => AboutToKnow(t, reported[t])
=============================================================================
