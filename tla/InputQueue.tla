----------------------------- MODULE InputQueue -----------------------------
(***************************************************************************)
(* The input queue of the engine (m_inputQueue, m_queueMutex, m_readEvent),*)
(* its producers - the two low level hook threads, the scripter's data     *)
(* thread and the UI thread - and the dequeuing half of                    *)
(* Engine::keyboardHandler(), step by step.                                *)
(*                                                                         *)
(* SignalObjectAndWait(m_queueMutex, m_readEvent) returns WITHOUT the      *)
(* mutex, so the engine reads the queue, the stop flag and the event with  *)
(* nobody kept out: that is what the steps below show.  A std::deque       *)
(* popped while another thread is inside push_back is undefined behaviour; *)
(* PushOutcome and PopOutcome list what the build can produce.             *)
(***************************************************************************)
EXTENDS Naturals, Sequences

CONSTANTS
  Producer,    \* threads that push into the queue
  UI,          \* the one of them that also reloads, unlocks and stops
  Engine,      \* the keyboardHandler thread
  NoThread,    \* owner of a free mutex
  NoEvent,     \* the engine has no event in hand
  Torn,        \* what is read from a deque corrupted by the race
  Phantom,     \* the value-initialised InputEvent of an iteration that got none
  MaxEvent,    \* bound: events pushed in a behaviour
  MaxRequest   \* bound: calls of Engine::unlocked()

ASSUME ConstantsAssumption ==
  /\ UI \in Producer
  /\ Engine \notin Producer
  /\ NoThread \notin Producer \cup {Engine}
  /\ MaxEvent \in Nat
  /\ MaxRequest \in Nat

\* the values that are no event
ASSUME NoEventAssumption ==
  /\ NoEvent \notin 1..MaxEvent
  /\ Torn \notin 1..MaxEvent
  /\ Phantom \notin 1..MaxEvent

VARIABLES
  queueMutex,           \* its owner
  readEvent,            \* manual-reset event: is it signaled?
  inputQueue,           \* the i-th event pushed is the number i
  isStopping,
  resyncForceRequested,
  event,                \* what the engine's local variable holds
  enginePC,
  producerPC,
  left,                 \* events a producer still pushes in its critical section
  overlapped,           \* a pop happened since the push in progress began
  raced,                \* history: some pop overlapped some push
  pushed,               \* history: number of events pushed
  requests,             \* history: number of resync requests
  handled               \* history: the queued events processed, in order

queueVars == <<queueMutex, readEvent, inputQueue, isStopping, resyncForceRequested>>
history   == <<raced, pushed, requests, handled>>
vars == <<queueVars, event, enginePC, producerPC, left, overlapped, history>>

Event == 1..MaxEvent

Init ==
  /\ queueMutex = NoThread
  /\ readEvent = FALSE
  /\ inputQueue = <<>>
  /\ isStopping = FALSE
  /\ resyncForceRequested = FALSE
  /\ event = NoEvent
  /\ enginePC = "lock"
  /\ producerPC = [p \in Producer |-> "idle"]
  /\ left = [p \in Producer |-> 0]
  /\ overlapped = FALSE
  /\ raced = FALSE
  /\ pushed = 0
  /\ requests = 0
  /\ handled = <<>>

-----------------------------------------------------------------------------
(* The producers: lock, push one event or a make/break pair, signal, unlock. *)

Goto(p, label) == producerPC' = [producerPC EXCEPT ![p] = label]

\* Mutant of Lock: the producer does not wait for the mutex.
LockWithoutWaiting(p) ==
  /\ producerPC[p] = "idle"
  /\ p = UI => ~isStopping
  /\ pushed + 1 <= MaxEvent
  /\ left' = [left EXCEPT ![p] = 1]
  /\ queueMutex' = p
  /\ Goto(p, "push")
  /\ UNCHANGED <<readEvent, inputQueue, isStopping, resyncForceRequested,
                 event, enginePC, overlapped, history>>

\* WaitForSingleObject(m_queueMutex).  A synthesized release (NLS key, wheel)
\* makes it two events.  The UI thread runs ~Mayu once it has set isStopping.
Lock(p) ==
  /\ producerPC[p] = "idle"
  /\ queueMutex = NoThread
  /\ p = UI => ~isStopping
  /\ \E n \in 1..2 :
       /\ pushed + n <= MaxEvent
       /\ left' = [left EXCEPT ![p] = n]
  /\ queueMutex' = p
  /\ Goto(p, "push")
  /\ UNCHANGED <<readEvent, inputQueue, isStopping, resyncForceRequested,
                 event, enginePC, overlapped, history>>

\* push_back reads the deque's size and offset ...
PushBegin(p) ==
  /\ producerPC[p] = "push"
  /\ overlapped' = FALSE
  /\ Goto(p, "pushing")
  /\ UNCHANGED <<queueVars, event, enginePC, left, history>>

\* Mutant of PushOutcome: push_front.
PushFront(q, e) == {<<e>> \o q}

\* ... and writes them back: undisturbed it appends; if the engine popped in
\* between, one of the two writes of the size is lost.
PushOutcome(q, e) ==
  IF overlapped THEN {Append(q, e), q, Append(q, Torn), q \o <<e, Torn>>}
                ELSE {Append(q, e)}

PushEnd(p) ==
  /\ producerPC[p] = "pushing"
  /\ inputQueue' \in PushOutcome(inputQueue, pushed + 1)
  /\ pushed' = pushed + 1
  /\ left' = [left EXCEPT ![p] = @ - 1]
  /\ Goto(p, IF left[p] > 1 THEN "push" ELSE "signal")
  /\ UNCHANGED <<queueMutex, readEvent, isStopping, resyncForceRequested,
                 event, enginePC, overlapped, raced, requests, handled>>

\* SetEvent(m_readEvent)
Signal(p) ==
  /\ producerPC[p] = "signal"
  /\ readEvent' = TRUE
  /\ Goto(p, "unlock")
  /\ UNCHANGED <<queueMutex, inputQueue, isStopping, resyncForceRequested,
                 event, enginePC, left, overlapped, history>>

\* ReleaseMutex(m_queueMutex)
Unlock(p) ==
  /\ producerPC[p] = "unlock"
  /\ queueMutex' = NoThread
  /\ Goto(p, "idle")
  /\ UNCHANGED <<readEvent, inputQueue, isStopping, resyncForceRequested,
                 event, enginePC, left, overlapped, history>>

(* Engine::unlocked(), UI thread: the flag first, then the event, no mutex. *)

RequestResync ==
  /\ producerPC[UI] = "idle"
  /\ ~isStopping
  /\ requests < MaxRequest
  /\ resyncForceRequested' = TRUE
  /\ requests' = requests + 1
  /\ Goto(UI, "wake")
  /\ UNCHANGED <<queueMutex, readEvent, inputQueue, isStopping, event, enginePC,
                 left, overlapped, raced, pushed, handled>>

\* Mutant of WakeForResync: the request without its SetEvent.
NoWakeForResync ==
  /\ producerPC[UI] = "wake"
  /\ Goto(UI, "idle")
  /\ UNCHANGED <<queueVars, event, enginePC, left, overlapped, history>>

WakeForResync ==
  /\ producerPC[UI] = "wake"
  /\ readEvent' = TRUE
  /\ Goto(UI, "idle")
  /\ UNCHANGED <<queueMutex, inputQueue, isStopping, resyncForceRequested,
                 event, enginePC, left, overlapped, history>>

\* Engine::signalStop(), phase C.  Signal and Unlock of the UI thread follow.
SignalStop ==
  /\ producerPC[UI] = "idle"
  /\ ~isStopping
  /\ queueMutex = NoThread
  /\ queueMutex' = UI
  /\ isStopping' = TRUE
  /\ Goto(UI, "signal")
  /\ UNCHANGED <<readEvent, inputQueue, resyncForceRequested, event, enginePC,
                 left, overlapped, history>>

-----------------------------------------------------------------------------
(* The engine thread. *)

EngineGoto(from, to) == enginePC = from /\ enginePC' = to

\* the WaitForSingleObject(m_queueMutex) at the top of the loop, and the one
\* after a resync
EngineLock ==
  /\ EngineGoto("lock", "signalAndWait")
  /\ queueMutex = NoThread
  /\ queueMutex' = Engine
  /\ UNCHANGED <<readEvent, inputQueue, isStopping, resyncForceRequested,
                 event, producerPC, left, overlapped, history>>

\* Mutant of SignalAndWait: waits for the event with the mutex held.
WaitHoldingMutex ==
  /\ EngineGoto("signalAndWait", "parked")
  /\ queueMutex = Engine
  /\ UNCHANGED <<queueVars, event, producerPC, left, overlapped, history>>

\* SignalObjectAndWait releases the mutex and waits for the event ...
SignalAndWait ==
  /\ EngineGoto("signalAndWait", "parked")
  /\ queueMutex = Engine
  /\ queueMutex' = NoThread
  /\ UNCHANGED <<readEvent, inputQueue, isStopping, resyncForceRequested,
                 event, producerPC, left, overlapped, history>>

\* ... and fails at once when the caller does not own the mutex: the inner loop
\* ends with the event as it was constructed.
SignalFails ==
  /\ EngineGoto("signalAndWait", "takeRequest")
  /\ queueMutex # Engine
  /\ event' = Phantom
  /\ UNCHANGED <<queueVars, producerPC, left, overlapped, history>>

Wake ==
  /\ EngineGoto("parked", "checkStop")
  /\ readEvent
  /\ UNCHANGED <<queueVars, event, producerPC, left, overlapped, history>>

CheckStop ==
  /\ EngineGoto("checkStop", IF isStopping THEN "exited" ELSE "checkEmpty")
  /\ UNCHANGED <<queueVars, event, producerPC, left, overlapped, history>>

CheckEmpty ==
  /\ EngineGoto("checkEmpty", IF inputQueue = <<>> THEN "resetIdle" ELSE "pop")
  /\ UNCHANGED <<queueVars, event, producerPC, left, overlapped, history>>

\* Mutant of ResetIdle: the request was looked at before the ResetEvent.
ResetAfterLook ==
  /\ EngineGoto("resetIdle", "signalAndWait")
  /\ readEvent' = FALSE
  /\ UNCHANGED <<queueMutex, inputQueue, isStopping, resyncForceRequested,
                 event, producerPC, left, overlapped, history>>

\* woken with nothing queued: ResetEvent first ...
ResetIdle ==
  /\ EngineGoto("resetIdle", "takeRequestIdle")
  /\ readEvent' = FALSE
  /\ UNCHANGED <<queueMutex, inputQueue, isStopping, resyncForceRequested,
                 event, producerPC, left, overlapped, history>>

\* ... then the request.  Only the branch that resyncs takes the mutex again
\* before `continue'.
TakeRequestIdle ==
  /\ EngineGoto("takeRequestIdle",
                IF resyncForceRequested THEN "lock" ELSE "signalAndWait")
  /\ resyncForceRequested' = FALSE
  /\ UNCHANGED <<queueMutex, readEvent, inputQueue, isStopping, event,
                 producerPC, left, overlapped, history>>

PushInProgress == \E p \in Producer : producerPC[p] = "pushing"

\* front() may read a block a concurrent push_back is moving
PopOutcome(q) == IF PushInProgress THEN {Head(q), Torn} ELSE {Head(q)}

Pop ==
  /\ EngineGoto("pop", "checkDrained")
  /\ event' \in PopOutcome(inputQueue)
  /\ inputQueue' = Tail(inputQueue)
  /\ overlapped' = TRUE
  /\ raced' = (raced \/ PushInProgress)
  /\ UNCHANGED <<queueMutex, readEvent, isStopping, resyncForceRequested,
                 producerPC, left, pushed, requests, handled>>

CheckDrained ==
  /\ EngineGoto("checkDrained",
                IF inputQueue = <<>> THEN "resetDrained" ELSE "takeRequest")
  /\ UNCHANGED <<queueVars, event, producerPC, left, overlapped, history>>

ResetDrained ==
  /\ EngineGoto("resetDrained", "takeRequest")
  /\ readEvent' = FALSE
  /\ UNCHANGED <<queueMutex, inputQueue, isStopping, resyncForceRequested,
                 event, producerPC, left, overlapped, history>>

\* m_resyncForceRequested.exchange(false) after the inner loop
TakeRequest ==
  /\ EngineGoto("takeRequest", "process")
  /\ resyncForceRequested' = FALSE
  /\ UNCHANGED <<queueMutex, readEvent, inputQueue, isStopping, event,
                 producerPC, left, overlapped, history>>

\* the queued event the engine's local variable holds, if it holds one
InHand == IF event \in Event THEN <<event>> ELSE <<>>

\* the rest of the iteration: everything the event makes the engine do
Process ==
  /\ EngineGoto("process", "lock")
  /\ handled' = handled \o InHand
  /\ event' = NoEvent
  /\ UNCHANGED <<queueVars, producerPC, left, overlapped, raced, pushed, requests>>

-----------------------------------------------------------------------------
ProducerStep(p) == Lock(p) \/ PushBegin(p) \/ PushEnd(p) \/ Signal(p) \/ Unlock(p)

EngineStep ==
  \/ EngineLock \/ SignalAndWait \/ SignalFails \/ Wake
  \/ CheckStop \/ CheckEmpty \/ ResetIdle \/ TakeRequestIdle
  \/ Pop \/ CheckDrained \/ ResetDrained \/ TakeRequest \/ Process

Next ==
  \/ \E p \in Producer : ProducerStep(p)
  \/ RequestResync \/ WakeForResync \/ SignalStop
  \/ EngineStep

Spec == Init /\ [][Next]_vars

\* A thread that is inside a call finishes it and the engine thread runs while
\* it can; nobody is obliged to start a call.
Fairness ==
  /\ WF_vars(EngineStep)
  /\ WF_vars(WakeForResync)
  /\ \A p \in Producer : WF_vars(PushBegin(p) \/ PushEnd(p) \/ Signal(p) \/ Unlock(p))

FairSpec == Spec /\ Fairness

-----------------------------------------------------------------------------
TypeOK ==
  /\ queueMutex \in Producer \cup {Engine, NoThread}
  /\ readEvent \in BOOLEAN
  /\ inputQueue \in Seq(Event \cup {Torn})
  /\ isStopping \in BOOLEAN
  /\ resyncForceRequested \in BOOLEAN
  /\ event \in Event \cup {NoEvent, Torn, Phantom}
  /\ enginePC \in {"lock", "signalAndWait", "parked", "checkStop", "checkEmpty",
                   "resetIdle", "takeRequestIdle", "pop", "checkDrained",
                   "resetDrained", "takeRequest", "process", "exited"}
  /\ producerPC \in [Producer -> {"idle", "push", "pushing", "signal", "unlock", "wake"}]
  /\ left \in [Producer -> 0..2]
  /\ overlapped \in BOOLEAN
  /\ raced \in BOOLEAN
  /\ pushed \in 0..MaxEvent
  /\ requests \in 0..MaxRequest
  /\ handled \in Seq(Event)

\* A request for a forced resync is never left behind with the engine asleep:
\* while it is pending either the event is signaled, or the requester is about
\* to signal it, or the engine is between its ResetEvent and its look at the
\* flag.  This is what the order "flag, then SetEvent" in Engine::unlocked() and
\* "ResetEvent, then flag" in keyboardHandler() is for; neither side holds a lock.
ResyncNeverStranded ==
  resyncForceRequested =>
    \/ readEvent
    \/ producerPC[UI] = "wake"
    \/ enginePC \in {"takeRequestIdle", "takeRequest"}

\* As long as no pop has overlapped a push, the engine has processed, has in
\* hand and has queued exactly the events the producers pushed, once each and
\* in the order of their pushes, whatever it was woken by in between.
OrderUnlessRaced ==
  ~raced => handled \o InHand \o inputQueue = [i \in 1..pushed |-> i]

\* The engine owns m_queueMutex only on its way into SignalObjectAndWait ...
HooksNeverWaitForProcessing ==
  queueMutex = Engine => enginePC = "signalAndWait"

\* ... and two producers are never in the critical section at once.
InSection(p) == producerPC[p] \in {"push", "pushing", "signal", "unlock"}
ProducersExclude ==
  \A p, q \in Producer : InSection(p) /\ InSection(q) => p = q

\* The mutex keeps producers apart, although the engine thread releases it
\* without owning it, and is never in the way of a hook thread for as long as an
\* event is processed: that can be five seconds in &Sync, and Windows drops a
\* hook that is late.
QueueMutexExcludes == HooksNeverWaitForProcessing /\ ProducersExclude

\* Every request for a forced resync is honoured, unless the engine has been
\* told to stop (Engine::unlocked() is lock free, see ResyncNeverStranded).
ResyncServed == resyncForceRequested ~> (~resyncForceRequested \/ isStopping)

-----------------------------------------------------------------------------
(* What the sources say of the queue, and the code does not do. *)

\* m_inputQueue, m_isStopping: "guarded by m_queueMutex".
QueueGuarded ==
  enginePC \in {"checkStop", "checkEmpty", "pop", "checkDrained"}
    => \A p \in Producer : queueMutex # p

\* Every iteration of the handler dequeues an InputEvent.
NoPhantomEvent == event # Phantom

\* The engine does not sleep on a queue that has something in it.
QueueDrained == (inputQueue # <<>>) ~> (inputQueue = <<>> \/ isStopping)

\* An engine thread waiting for the queue is woken by m_readEvent, sees
\* m_isStopping and leaves.
StopHonoured == isStopping ~> (enginePC = "exited")
=============================================================================
