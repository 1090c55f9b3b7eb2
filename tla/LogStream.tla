----------------------------- MODULE LogStream -----------------------------
(***************************************************************************)
(* The log (msgstream.h): threads write messages into a stream buffer, and *)
(* the UI thread moves them to the edit control of the log dialog when a   *)
(* posted notification tells it to.                                        *)
(*                                                                         *)
(* A message is a section between acquire(level) and release(), under the  *)
(* mutex of the buffer.  What is written stays in the stream (m_buf) until *)
(* std::endl syncs it into m_str, and only if the level of the section     *)
(* that syncs passes the threshold, which the UI thread changes at any     *)
(* time without the mutex.                                                 *)
(*                                                                         *)
(* Two kinds of text do not keep to their message.  The line of a function *)
(* call ("FN ..."), or of a prefix key, is released without its end: the   *)
(* function may run for seconds, and writes lines of its own, before the   *)
(* line is ended.  And the UI thread writes of session changes and of the  *)
(* key state (mayu.cpp:419, 566) with neither acquire() nor release(): in  *)
(* nobody's message, at whatever level is set, into a buffer that another  *)
(* thread may be writing to, and without a notification.                   *)
(*                                                                         *)
(* A piece of text is the level of its message, or Open when it is text of *)
(* those two kinds or was in the buffer while the UI thread wrote without  *)
(* the mutex; once kept, it has the level it is tagged with.  Pieces form  *)
(* sets: their order and number play no part.  Time stamps, blank lines    *)
(* and the overflow of m_buf are left out, and so is a crash in a buffer   *)
(* two threads write to: text may be lost there or kept twice.             *)
(***************************************************************************)
EXTENDS Naturals

CONSTANTS
    Threads,        \* the threads that write to the log
    NoThread,       \* nobody holds the mutex
    UI,             \* the thread that shows it, a writer as well
    Engine,         \* the thread that runs functions
    Levels,         \* LogLevel: 0 error .. 3 debug
    Open            \* the level of text that is not in one message's hands

ASSUME ThreadsAssumption ==
    UI \in Threads /\ Engine \in Threads /\ UI # Engine /\ NoThread \notin Threads

Info == 2           \* kLogLevelNormal
Debug == 3          \* kLogLevelDetail

ASSUME LevelsAssumption ==
    Levels \subseteq Nat /\ {Info, Debug} \subseteq Levels /\ Open \notin Levels

VARIABLES
    owner,          \* the thread that holds m_mutex
    pc,             \* what each thread is doing
    level,          \* m_msgLevel
    threshold,      \* m_threshold
    buf,            \* the text in m_buf, not synced yet
    str,            \* m_str: text to show, tagged
    pending,        \* m_notifyPending
    posted,         \* notifications in the UI thread's message queue
    window,         \* m_hwnd: "none", "attached", "detached"
    unannounced     \* the last attempt to notify failed (PostMessage)

logVars == <<owner, pc, level, threshold, buf, str, pending, posted, window,
          unannounced>>

Text == Levels \union {Open}
\* told: kept by a message, whose release() will tell the window of it
Kept == [level : Text, tag : Levels, told : BOOLEAN]

\* The UI thread is writing without the mutex.
Bare == pc[UI] = "bare"

LogInit ==
    /\ owner = NoThread /\ pc = [t \in Threads |-> "idle"]
    /\ level = Info /\ threshold = Info
    /\ buf = {} /\ str = {}
    /\ pending = FALSE /\ posted = 0
    /\ window = "none" /\ unannounced = FALSE

-----------------------------------------------------------------------------
(***************************************************************************)
(* sync(): the text of m_buf is kept, tagged with the level of the message *)
(* being written, or thrown away.  With two threads in it, either may see  *)
(* the buffer as it was before the other, or while it is being reset.      *)
(***************************************************************************)
Passes(l) == l <= threshold

Tagged(texts, l, told) == {[level |-> x, tag |-> l, told |-> told] : x \in texts}

SyncAs(l, told) ==
    /\ str' = IF Passes(l) THEN str \union Tagged(buf, l, told) ELSE str
    /\ buf' = {}

RacedSync(l, told) ==
    \E kept \in SUBSET buf, left \in SUBSET buf :
        /\ str' = IF Passes(l) THEN str \union Tagged(kept, l, told) ELSE str
        /\ buf' = left

\* Mutant of Notify: a notification that could not be posted counts as one.
NotifyUnchecked(ok) ==
    IF str = {} \/ pending \/ window' # "attached"
    THEN UNCHANGED <<pending, posted, unannounced>>
    ELSE /\ pending' = TRUE
         /\ posted' = IF ok THEN posted + 1 ELSE posted
         /\ unannounced' = ~ok

(***************************************************************************)
(* notify(): one notification is outstanding at most.  ok is the result of *)
(* PostMessage.                                                            *)
(***************************************************************************)
Notify(ok) ==
    IF str = {} \/ pending \/ window' # "attached"
    THEN UNCHANGED <<pending, posted, unannounced>>
    ELSE /\ pending' = ok
         /\ posted' = IF ok THEN posted + 1 ELSE posted
         /\ unannounced' = ~ok

-----------------------------------------------------------------------------
(***************************************************************************)
(* Writing a message.                                                      *)
(***************************************************************************)
\* Mutant of Acquire: the level is set before the mutex is taken.
AcquireLevelFirst(t, l) ==
    /\ pc[t] = "idle"
    /\ level' = l
    /\ IF owner = NoThread
       THEN owner' = t /\ pc' = [pc EXCEPT ![t] = "writing"]
       ELSE UNCHANGED <<owner, pc>>
    /\ UNCHANGED <<threshold, buf, str, pending, posted, window, unannounced>>

Acquire(t, l) ==
    /\ pc[t] = "idle" /\ owner = NoThread
    /\ owner' = t /\ level' = l
    /\ pc' = [pc EXCEPT ![t] = "writing"]
    /\ UNCHANGED <<threshold, buf, str, pending, posted, window, unannounced>>

\* a line is written ...
Write(t) ==
    /\ pc[t] = "writing"
    /\ buf' = buf \union {IF Bare THEN Open ELSE level}
    /\ pc' = [pc EXCEPT ![t] = "line"]
    /\ UNCHANGED <<owner, level, threshold, str, pending, posted, window,
                   unannounced>>

\* ... and ended (std::endl), be it empty
EndLine(t) ==
    /\ pc[t] \in {"writing", "line"}
    /\ IF Bare THEN RacedSync(level, TRUE) ELSE SyncAs(level, TRUE)
    /\ pc' = [pc EXCEPT ![t] = "writing"]
    /\ UNCHANGED <<owner, level, threshold, pending, posted, window,
                   unannounced>>

Release(t) ==
    /\ pc[t] = "writing"
    /\ UNCHANGED <<threshold, buf, str, window>>
    /\ \E ok \in BOOLEAN : Notify(ok)
    /\ level' = Info /\ owner' = NoThread
    /\ pc' = [pc EXCEPT ![t] = "idle"]

(***************************************************************************)
(* generateActionEvents(): the call of a function is logged when detail is *)
(* on, and its line stays open while the function runs.  The end of the    *)
(* line is a message of its own: an EndLine without a Write.               *)
(***************************************************************************)
WouldLogFn ==
    /\ pc[Engine] = "idle" /\ Passes(Debug)
    /\ pc' = [pc EXCEPT ![Engine] = "fn"]
    /\ UNCHANGED <<owner, level, threshold, buf, str, pending, posted, window,
                   unannounced>>

OpenLine ==
    /\ owner = NoThread
    /\ owner' = Engine /\ level' = Debug
    /\ buf' = buf \union {Open}
    /\ pc' = [pc EXCEPT ![Engine] = "writing"]
    /\ UNCHANGED <<threshold, str, pending, posted, window, unannounced>>

WriteFn == pc[Engine] = "fn" /\ OpenLine

\* funcPrefix() adds to that line without asking what is logged.
WritePrefix == pc[Engine] = "idle" /\ OpenLine

-----------------------------------------------------------------------------
(***************************************************************************)
(* WM_WTSSESSION_CHANGE and the menu item "check": a line of the UI thread *)
(* without the mutex.  The line may be empty.  What m_msgLevel is when it  *)
(* ends is for the messages written meanwhile to say.                      *)
(***************************************************************************)
BareWrite ==
    /\ pc[UI] = "idle" /\ window = "attached"
    /\ buf' = {Open} \/ (buf = {} /\ UNCHANGED buf)
    /\ pc' = [pc EXCEPT ![UI] = "bare"]
    /\ UNCHANGED <<owner, level, threshold, str, pending, posted, window,
                   unannounced>>

BareEnd ==
    /\ Bare
    /\ \E l \in Levels : RacedSync(l, FALSE)
    /\ pc' = [pc EXCEPT ![UI] = "idle"]
    /\ UNCHANGED <<owner, level, threshold, pending, posted, window,
                   unannounced>>

-----------------------------------------------------------------------------
(***************************************************************************)
(* The UI thread: it attaches its window once and detaches it at the end,  *)
(* turns detail on and off, and shows the text.                            *)
(***************************************************************************)
Attach ==
    /\ pc[UI] = "idle" /\ owner = NoThread /\ window = "none"
    /\ window' = "attached"
    /\ \E ok \in BOOLEAN : Notify(ok)
    /\ UNCHANGED <<owner, pc, level, threshold, buf, str>>

Detach ==
    /\ pc[UI] = "idle" /\ owner = NoThread /\ window = "attached"
    /\ SyncAs(level, FALSE)
    /\ window' = "detached"
    /\ UNCHANGED <<owner, pc, level, threshold, pending, posted, unannounced>>

SetThreshold(l) ==
    /\ pc[UI] = "idle"
    /\ threshold' = l
    /\ UNCHANGED <<owner, pc, level, buf, str, pending, posted, window,
                   unannounced>>

\* The handler of the notification: it is taken from the queue, the text is
\* shown under the mutex, for which the UI thread waits, and given up.
TakeNotification ==
    /\ pc[UI] = "idle" /\ window = "attached" /\ posted > 0
    /\ posted' = posted - 1
    /\ pc' = [pc EXCEPT ![UI] = "told"]
    /\ UNCHANGED <<owner, level, threshold, buf, str, pending, window,
                   unannounced>>

AcquireString ==
    /\ pc[UI] = "told" /\ owner = NoThread
    /\ owner' = UI /\ pc' = [pc EXCEPT ![UI] = "showing"]
    /\ UNCHANGED <<level, threshold, buf, str, pending, posted, window,
                   unannounced>>

\* Mutant of ReleaseString: the flag stays up.
ReleaseStringPending ==
    /\ pc[UI] = "showing"
    /\ str' = {}
    /\ owner' = NoThread /\ pc' = [pc EXCEPT ![UI] = "idle"]
    /\ UNCHANGED <<level, threshold, buf, pending, posted, window, unannounced>>

ReleaseString ==
    /\ pc[UI] = "showing"
    /\ str' = {} /\ pending' = FALSE
    /\ owner' = NoThread /\ pc' = [pc EXCEPT ![UI] = "idle"]
    /\ UNCHANGED <<level, threshold, buf, posted, window, unannounced>>

LogNext ==
    \/ \E t \in Threads :
          \/ \E l \in Levels : Acquire(t, l)
          \/ Write(t) \/ EndLine(t) \/ Release(t)
    \/ WouldLogFn \/ WriteFn \/ WritePrefix
    \/ BareWrite \/ BareEnd
    \/ Attach \/ Detach
    \/ TakeNotification \/ AcquireString \/ ReleaseString
    \/ \E l \in {Info, Debug} : SetThreshold(l)

(***************************************************************************)
(* A message has finitely many lines.  The UI thread returns to its        *)
(* message loop, takes what is in its queue in turn, whatever else comes,  *)
(* and gets the mutex at last although others take it again and again.     *)
(***************************************************************************)
LogSpec ==
    /\ LogInit /\ [][LogNext]_logVars
    /\ \A t \in Threads : WF_logVars(EndLine(t)) /\ SF_logVars(Release(t))
    /\ SF_logVars(TakeNotification)
    /\ SF_logVars(AcquireString) /\ WF_logVars(ReleaseString)
    /\ WF_logVars(BareEnd)

-----------------------------------------------------------------------------
Window == {"none", "attached", "detached"}

\* Types, and who may be where: the mutex is held by a thread in a section.
LogTypeOK ==
    /\ owner \in Threads \union {NoThread}
    /\ pc \in [Threads -> {"idle", "fn", "writing", "line",
                           "bare", "told", "showing"}]
    /\ level \in Levels /\ threshold \in Levels
    /\ buf \subseteq Text /\ str \subseteq Kept
    /\ pending \in BOOLEAN /\ posted \in Nat
    /\ window \in Window /\ unannounced \in BOOLEAN

Handling == pc[UI] \in {"told", "showing"}
ToShow == \E k \in str : k.told

(***************************************************************************)
(* "Post at most one outstanding notification" (msgstream.h, notify()), and*)
(* never too few: the text a message kept has its notification in the UI   *)
(* thread's queue, unless PostMessage failed the last time.  The flag and  *)
(* the queue agree whatever order messages, the attaching of the window,   *)
(* the handler and the writers without the mutex come in.                  *)
(***************************************************************************)
NothingStranded ==
    /\ posted = IF pending /\ ~Handling THEN 1 ELSE 0
    /\ window = "attached" /\ owner = NoThread /\ ToShow /\ ~unannounced
          => pending

(***************************************************************************)
(* A line is kept or dropped, and tagged, by the level of its own message  *)
(* ("Message is kept when ( m_msgLevel <= m_threshold )", msgstream.h),    *)
(* although all messages share one buffer and one level: only a line that  *)
(* is not ended in its message, or that the UI thread wrote into or over   *)
(* without the mutex, may be taken for part of another one.                *)
(***************************************************************************)
TaggedByItsMessage == \A k \in str : k.level # Open => k.tag = k.level

(***************************************************************************)
(* The text a message kept is shown (WM_APP_msgStreamNotify): it waits     *)
(* neither for the next message nor for a notification that is never       *)
(* posted.                                                                 *)
(***************************************************************************)
TextShown ==
    (ToShow /\ window = "attached")
        ~> (str = {} \/ unannounced \/ window = "detached")

(***************************************************************************)
(* "Before writing to omsgstream, you must acquire lock by calling         *)
(* acquire()" (msgstream.h:22).  Refuted by BareWrite.                     *)
(***************************************************************************)
WritersHoldTheLock ==
    \A t \in Threads : pc[t] \in {"writing", "line", "bare"} => owner = t

(***************************************************************************)
(* Every line is tagged by its message: refuted by the line of a function  *)
(* call, with detail turned off while the function runs, and by lines the  *)
(* UI thread writes without the mutex.                                     *)
(***************************************************************************)
LevelOfItsMessage == \A k \in str : k.level = k.tag

(***************************************************************************)
(* Whatever was kept is shown, messages or none.  Refuted by BareEnd: no   *)
(* release() follows it, and its text waits for the next message.          *)
(***************************************************************************)
AllTextShown ==
    (str # {} /\ window = "attached")
        ~> (str = {} \/ unannounced \/ window = "detached")
=============================================================================
