-------------------------- MODULE InputQueue_proofs --------------------------
(* Proofs about the input queue, for any number of producers, events and     *)
(* resync requests, and about the mouse hook that feeds it, for any set of   *)
(* buttons.                                                                  *)
EXTENDS InputQueue, MouseDrag, SequenceTheorems, TLAPS

-----------------------------------------------------------------------------
(* The input queue. *)

\* Who is in the critical section owns the mutex; what is left to push fits
\* under the bound; the engine pops only what it has seen.
SectionOwned == \A p \in Producer : InSection(p) => queueMutex = p

LeftFits ==
  \A p \in Producer : producerPC[p] \in {"push", "pushing"} =>
    /\ left[p] >= 1
    /\ pushed + left[p] <= MaxEvent

PopsSomething == enginePC = "pop" => inputQueue # <<>>

\* A pop that happened since a push in progress began is a race, and an event
\* is in the engine's hand only from its pop to its processing: neither the next
\* pop nor an iteration that gets none overwrites one.
OverlapIsRace == overlapped /\ PushInProgress => raced

HandTaken ==
  event \in Event =>
    enginePC \in {"checkDrained", "resetDrained", "takeRequest", "process"}

IInv ==
  /\ TypeOK
  /\ SectionOwned
  /\ LeftFits
  /\ PopsSomething
  /\ HooksNeverWaitForProcessing
  /\ ResyncNeverStranded
  /\ OverlapIsRace
  /\ HandTaken
  /\ OrderUnlessRaced

-----------------------------------------------------------------------------
\* Appending to a sequence of events, whatever the race does to it, leaves a
\* sequence of events that is not empty if it was not empty before.
LEMMA PushOutcomeType ==
  ASSUME NEW q \in Seq(Event \cup {Torn}), NEW e \in Event,
         NEW r \in PushOutcome(q, e)
  PROVE  /\ r \in Seq(Event \cup {Torn})
         /\ q # <<>> => r # <<>>
<1>1. CASE r = Append(q, e)    BY <1>1
<1>2. CASE r = q               BY <1>2
<1>3. CASE r = Append(q, Torn) BY <1>3
<1>4. CASE r = q \o <<e, Torn>>
  <2>1. <<e, Torn>> \in Seq(Event \cup {Torn})  OBVIOUS
  <2>2. r \in Seq(Event \cup {Torn})  BY <1>4, <2>1
  <2>3. Len(r) = Len(q) + 2  BY <1>4, <2>1
  <2>4. r # <<>>  BY <2>2, <2>3
  <2> QED  BY <2>2, <2>4
<1> QED  BY <1>1, <1>2, <1>3, <1>4 DEF PushOutcome

\* What is popped is an event or garbage, and the rest is a queue.
LEMMA PopOutcomeType ==
  ASSUME NEW q \in Seq(Event \cup {Torn}), q # <<>>
  PROVE  /\ PopOutcome(q) \subseteq Event \cup {Torn}
         /\ Tail(q) \in Seq(Event \cup {Torn})
<1>1. Head(q) \in Event \cup {Torn}  OBVIOUS
<1> QED  BY <1>1 DEF PopOutcome

\* What the engine has in hand is one event or none.
LEMMA InHandType == InHand \in Seq(Event)
<1>1. CASE event \in Event
  <2>1. <<event>> \in Seq(Event)  BY <1>1
  <2> QED  BY <1>1, <2>1 DEF InHand
<1>2. CASE event \notin Event  BY <1>2 DEF InHand
<1> QED  BY <1>1, <1>2

\* The number a producer is about to push is one of the events.
LEMMA NextNumber ==
  ASSUME IInv, NEW p \in Producer, PushEnd(p)
  PROVE  pushed + 1 \in Event
<1>1. left[p] >= 1 /\ pushed + left[p] <= MaxEvent
  BY DEF PushEnd, IInv, LeftFits
<1>2. pushed \in Nat /\ left[p] \in 0..2  BY ConstantsAssumption DEF IInv, TypeOK
<1> QED  BY <1>1, <1>2, ConstantsAssumption DEF Event

LEMMA InitIInv == Init => IInv
<1> SUFFICES ASSUME Init PROVE IInv  OBVIOUS
<1> USE ConstantsAssumption DEF Init
<1>1. TypeOK
  <2>1. inputQueue = <<>> /\ handled = <<>>  OBVIOUS
  <2>2. /\ inputQueue \in Seq(Event \cup {Torn})
        /\ handled \in Seq(Event)
    BY <2>1
  <2>3. pushed \in 0..MaxEvent /\ requests \in 0..MaxRequest  OBVIOUS
  <2>4. left \in [Producer -> 0..2]  OBVIOUS
  <2> QED  BY <2>2, <2>3, <2>4 DEF TypeOK
<1>2. OverlapIsRace /\ HandTaken
  BY NoEventAssumption DEF OverlapIsRace, HandTaken, PushInProgress, Event
<1>3. OrderUnlessRaced
  <2>1. InHand = <<>>  BY NoEventAssumption DEF InHand, Event
  <2>2. handled \o InHand \o inputQueue = <<>>  BY <2>1
  <2>3. [i \in 1..pushed |-> i] = <<>>  OBVIOUS
  <2> QED  BY <2>2, <2>3 DEF OrderUnlessRaced
<1> QED  BY <1>1, <1>2, <1>3
         DEF IInv, SectionOwned, LeftFits, PopsSomething, InSection,
             HooksNeverWaitForProcessing, ResyncNeverStranded

-----------------------------------------------------------------------------
\* The type invariant is preserved; the two arithmetic facts it needs are
\* LeftFits, and the one about the queue is PopsSomething.
LEMMA NextTypeOK == IInv /\ [Next]_vars => TypeOK'
<1> SUFFICES ASSUME IInv, [Next]_vars PROVE TypeOK'  OBVIOUS
<1> USE ConstantsAssumption
<1>t. TypeOK  BY DEF IInv
<1>1. ASSUME NEW p \in Producer, Lock(p) PROVE TypeOK'
  BY <1>t, <1>1 DEF Lock, Goto, TypeOK, history
<1>2. ASSUME NEW p \in Producer, PushBegin(p) PROVE TypeOK'
  BY <1>t, <1>2, ZenonT(60) DEF PushBegin, Goto, TypeOK, history, queueVars
<1>3. ASSUME NEW p \in Producer, PushEnd(p) PROVE TypeOK'
  <2>1. /\ left[p] \in 1..2
        /\ pushed + left[p] <= MaxEvent
    BY <1>t, <1>3 DEF PushEnd, IInv, LeftFits, TypeOK
  <2>2. pushed + 1 \in Event  BY <1>t, <2>1 DEF TypeOK, Event
  <2>3. inputQueue' \in Seq(Event \cup {Torn})
    BY <1>t, <1>3, <2>2, PushOutcomeType DEF PushEnd, TypeOK
  <2>4. pushed' \in 0..MaxEvent  BY <1>t, <1>3, <2>1 DEF PushEnd, TypeOK
  <2>5. left' \in [Producer -> 0..2]
    <3>1. left[p] - 1 \in 0..2  BY <2>1
    <3> QED  BY <3>1, <1>t, <1>3 DEF PushEnd, TypeOK
  <2>6. producerPC' \in [Producer -> {"idle", "push", "pushing", "signal", "unlock", "wake"}]
    BY <1>t, <1>3 DEF PushEnd, Goto, TypeOK
  <2> QED  BY <1>t, <1>3, <2>3, <2>4, <2>5, <2>6 DEF PushEnd, TypeOK
<1>4. ASSUME NEW p \in Producer, Signal(p) PROVE TypeOK'
  BY <1>t, <1>4 DEF Signal, Goto, TypeOK, history
<1>5. ASSUME NEW p \in Producer, Unlock(p) PROVE TypeOK'
  BY <1>t, <1>5 DEF Unlock, Goto, TypeOK, history
<1>6. ASSUME RequestResync PROVE TypeOK'
  BY <1>t, <1>6 DEF RequestResync, Goto, TypeOK
<1>7. ASSUME WakeForResync PROVE TypeOK'
  BY <1>t, <1>7 DEF WakeForResync, Goto, TypeOK, history
<1>8. ASSUME SignalStop PROVE TypeOK'
  BY <1>t, <1>8 DEF SignalStop, Goto, TypeOK, history
<1>9. ASSUME EngineStep PROVE TypeOK'
  <2>1. CASE Pop
    <3>1. inputQueue # <<>>  BY <2>1 DEF Pop, EngineGoto, IInv, PopsSomething
    <3>2. /\ event' \in Event \cup {Torn}
          /\ inputQueue' \in Seq(Event \cup {Torn})
      BY <1>t, <2>1, <3>1, PopOutcomeType DEF Pop, TypeOK
    <3>3. raced' \in BOOLEAN  BY <1>t, <2>1 DEF Pop, TypeOK, PushInProgress
    <3> QED  BY <1>t, <2>1, <3>2, <3>3 DEF Pop, EngineGoto, TypeOK
  <2>2. CASE Process
    <3>1. handled' \in Seq(Event)  BY <1>t, <2>2, InHandType DEF Process, TypeOK
    <3> QED  BY <1>t, <2>2, <3>1 DEF Process, EngineGoto, TypeOK, queueVars
  <2>3. CASE EngineLock \/ SignalAndWait \/ SignalFails \/ Wake
    BY <1>t, <2>3 DEF EngineLock, SignalAndWait, SignalFails, Wake, EngineGoto,
                      TypeOK, queueVars, history
  <2>4. CASE CheckStop \/ CheckEmpty \/ CheckDrained
    BY <1>t, <2>4 DEF CheckStop, CheckEmpty, CheckDrained, EngineGoto,
                      TypeOK, queueVars, history
  <2>5. CASE ResetIdle \/ TakeRequestIdle \/ ResetDrained \/ TakeRequest
    BY <1>t, <2>5 DEF ResetIdle, TakeRequestIdle, ResetDrained, TakeRequest,
                      EngineGoto, TypeOK, history
  <2> QED  BY <1>9, <2>1, <2>2, <2>3, <2>4, <2>5 DEF EngineStep
<1>10. CASE UNCHANGED vars
  BY <1>t, <1>10 DEF vars, queueVars, history, TypeOK
<1> QED  BY <1>1, <1>2, <1>3, <1>4, <1>5, <1>6, <1>7, <1>8, <1>9, <1>10
         DEF Next, ProducerStep

\* The critical section, the bound and the engine's ownership are preserved.
LEMMA NextSection ==
  IInv /\ [Next]_vars => SectionOwned' /\ LeftFits' /\ HooksNeverWaitForProcessing'
<1> SUFFICES ASSUME IInv, [Next]_vars
             PROVE  SectionOwned' /\ LeftFits' /\ HooksNeverWaitForProcessing'
  OBVIOUS
<1> USE ConstantsAssumption DEF IInv, TypeOK, SectionOwned, LeftFits, InSection,
                                HooksNeverWaitForProcessing
<1>1. ASSUME NEW p \in Producer, Lock(p)
      PROVE  SectionOwned' /\ LeftFits' /\ HooksNeverWaitForProcessing'
  BY <1>1 DEF Lock, Goto, history
<1>2. ASSUME NEW p \in Producer, PushBegin(p)
      PROVE  SectionOwned' /\ LeftFits' /\ HooksNeverWaitForProcessing'
  BY <1>2 DEF PushBegin, Goto, queueVars, history
<1>3. ASSUME NEW p \in Producer, PushEnd(p)
      PROVE  SectionOwned' /\ LeftFits' /\ HooksNeverWaitForProcessing'
  <2>1. SectionOwned' /\ HooksNeverWaitForProcessing'  BY <1>3 DEF PushEnd, Goto
  <2>2. \A q \in Producer : producerPC[q] \in {"push", "pushing"} => q = p
    BY <1>3 DEF PushEnd
  <2>3. LeftFits'  BY <1>3, <2>2 DEF PushEnd, Goto
  <2> QED  BY <2>1, <2>3
<1>4. ASSUME NEW p \in Producer, Signal(p) \/ Unlock(p)
      PROVE  SectionOwned' /\ LeftFits' /\ HooksNeverWaitForProcessing'
  BY <1>4 DEF Signal, Unlock, Goto, history
<1>5. CASE RequestResync \/ WakeForResync \/ SignalStop
  BY <1>5 DEF RequestResync, WakeForResync, SignalStop, Goto, history
<1>6. CASE EngineLock \/ SignalAndWait \/ SignalFails \/ Wake
  BY <1>6 DEF EngineLock, SignalAndWait, SignalFails, Wake, EngineGoto, queueVars, history
<1>7. CASE CheckStop \/ CheckEmpty \/ CheckDrained \/ Pop \/ Process
  BY <1>7 DEF CheckStop, CheckEmpty, CheckDrained, Pop, Process, EngineGoto,
              queueVars, history
<1>8. CASE ResetIdle \/ TakeRequestIdle \/ ResetDrained \/ TakeRequest
  BY <1>8 DEF ResetIdle, TakeRequestIdle, ResetDrained, TakeRequest, EngineGoto, history
<1>9. CASE UNCHANGED vars  BY <1>9 DEF vars, queueVars, history
<1> QED  BY <1>1, <1>2, <1>3, <1>4, <1>5, <1>6, <1>7, <1>8, <1>9
         DEF Next, ProducerStep, EngineStep

\* Only the engine takes from the queue, and it re-reads the queue after it does.
LEMMA NextPopsSomething == IInv /\ [Next]_vars => PopsSomething'
<1> SUFFICES ASSUME IInv, [Next]_vars PROVE PopsSomething'  OBVIOUS
<1> USE DEF PopsSomething
<1>0. PopsSomething  BY DEF IInv
<1>1. ASSUME NEW p \in Producer, PushEnd(p) PROVE PopsSomething'
  <2>1. pushed + 1 \in Event
    BY <1>1, NextNumber
  <2>2. inputQueue # <<>> => inputQueue' # <<>>
    BY <1>1, <2>1, PushOutcomeType DEF PushEnd, IInv, TypeOK
  <2> QED  BY <1>0, <1>1, <2>2 DEF PushEnd
<1>2. ASSUME NEW p \in Producer, Lock(p) \/ PushBegin(p) \/ Signal(p) \/ Unlock(p)
      PROVE  PopsSomething'
  BY <1>0, <1>2 DEF Lock, PushBegin, Signal, Unlock, queueVars
<1>3. CASE RequestResync \/ WakeForResync \/ SignalStop
  BY <1>0, <1>3 DEF RequestResync, WakeForResync, SignalStop
<1>4. CASE EngineStep
  BY <1>0, <1>4 DEF EngineStep, EngineLock, SignalAndWait, SignalFails, Wake,
     CheckStop, CheckEmpty, ResetIdle, TakeRequestIdle, Pop, CheckDrained,
     ResetDrained, TakeRequest, Process, EngineGoto, queueVars
<1>5. CASE UNCHANGED vars  BY <1>0, <1>5 DEF vars, queueVars
<1> QED  BY <1>1, <1>2, <1>3, <1>4, <1>5 DEF Next, ProducerStep

\* The lock-free handshake of Engine::unlocked() with the two ResetEvent calls.
LEMMA NextNeverStranded == IInv /\ [Next]_vars => ResyncNeverStranded'
<1> SUFFICES ASSUME IInv, [Next]_vars PROVE ResyncNeverStranded'  OBVIOUS
<1> USE ConstantsAssumption DEF IInv, TypeOK, ResyncNeverStranded
<1>1. ASSUME NEW p \in Producer, ProducerStep(p) PROVE ResyncNeverStranded'
  <2>1. producerPC[p] # "wake"
    BY <1>1 DEF ProducerStep, Lock, PushBegin, PushEnd, Signal, Unlock
  <2>2. /\ UNCHANGED <<resyncForceRequested, enginePC>>
        /\ readEvent => readEvent'
        /\ \A q \in Producer \ {p} : producerPC'[q] = producerPC[q]
    BY <1>1 DEF ProducerStep, Lock, PushBegin, PushEnd, Signal, Unlock, Goto,
                queueVars, history
  <2> QED  BY <2>1, <2>2
<1>2. CASE RequestResync  BY <1>2 DEF RequestResync, Goto
<1>3. CASE WakeForResync  BY <1>3 DEF WakeForResync, Goto
<1>4. CASE SignalStop  BY <1>4 DEF SignalStop, Goto
<1>5. CASE ResetIdle \/ TakeRequestIdle \/ ResetDrained \/ TakeRequest
  BY <1>5 DEF ResetIdle, TakeRequestIdle, ResetDrained, TakeRequest, EngineGoto
<1>6. CASE EngineLock \/ SignalAndWait \/ SignalFails \/ Wake
  BY <1>6 DEF EngineLock, SignalAndWait, SignalFails, Wake, EngineGoto, queueVars
<1>7. CASE CheckStop \/ CheckEmpty \/ CheckDrained \/ Pop \/ Process
  BY <1>7 DEF CheckStop, CheckEmpty, CheckDrained, Pop, Process, EngineGoto, queueVars
<1>8. CASE UNCHANGED vars  BY <1>8 DEF vars, queueVars
<1> QED  BY <1>1, <1>2, <1>3, <1>4, <1>5, <1>6, <1>7, <1>8 DEF Next, EngineStep

\* One producer pushes at a time, so a push that nothing has overlapped starts
\* afresh; what the engine has in hand it took itself.
LEMMA NextHand == IInv /\ [Next]_vars => OverlapIsRace' /\ HandTaken'
<1> SUFFICES ASSUME IInv, [Next]_vars PROVE OverlapIsRace' /\ HandTaken'
  OBVIOUS
<1> USE DEF OverlapIsRace, HandTaken, PushInProgress
<1>0. TypeOK /\ OverlapIsRace /\ HandTaken  BY DEF IInv
<1>1. ASSUME NEW p \in Producer, PushBegin(p) PROVE OverlapIsRace' /\ HandTaken'
  BY <1>0, <1>1 DEF PushBegin, history
<1>2. ASSUME NEW p \in Producer, Lock(p) \/ PushEnd(p) \/ Signal(p) \/ Unlock(p)
      PROVE  OverlapIsRace' /\ HandTaken'
  BY <1>0, <1>2 DEF Lock, PushEnd, Signal, Unlock, Goto, history, TypeOK
<1>3. CASE RequestResync \/ WakeForResync \/ SignalStop
  BY <1>0, <1>3, ConstantsAssumption
     DEF RequestResync, WakeForResync, SignalStop, Goto, history, TypeOK
<1>4. CASE Pop  BY <1>0, <1>4 DEF Pop, EngineGoto
<1>5. CASE SignalFails
  <2>1. event' \notin Event  BY <1>5, NoEventAssumption DEF SignalFails, Event
  <2> QED  BY <1>0, <1>5, <2>1 DEF SignalFails, EngineGoto, history
<1>6. CASE Process
  <2>1. event' \notin Event  BY <1>6, NoEventAssumption DEF Process, Event
  <2> QED  BY <1>0, <1>6, <2>1 DEF Process, EngineGoto
<1>7. CASE EngineLock \/ SignalAndWait \/ Wake \/ CheckStop \/ CheckEmpty \/ CheckDrained
  BY <1>0, <1>7 DEF EngineLock, SignalAndWait, Wake, CheckStop, CheckEmpty,
                    CheckDrained, EngineGoto, queueVars, history
<1>8. CASE ResetIdle \/ TakeRequestIdle \/ ResetDrained \/ TakeRequest
  BY <1>0, <1>8 DEF ResetIdle, TakeRequestIdle, ResetDrained, TakeRequest,
                    EngineGoto, history
<1>9. CASE UNCHANGED vars  BY <1>0, <1>9 DEF vars, queueVars, history
<1> QED  BY <1>1, <1>2, <1>3, <1>4, <1>5, <1>6, <1>7, <1>8, <1>9
         DEF Next, ProducerStep, EngineStep

\* all the events of n pushes
Numbers(n) == [i \in 1..n |-> i]

\* The push of the next event extends the sequence of all of them.
LEMMA AppendNumber ==
  ASSUME NEW S, NEW s \in Seq(S), NEW q \in Seq(S),
         NEW n \in Nat, n + 1 \in S, s \o q = Numbers(n)
  PROVE  s \o Append(q, n + 1) = Numbers(n + 1)
<1>1. s \o Append(q, n + 1) = Append(s \o q, n + 1)
  <2>1. Append(q, n + 1) = q \o <<n + 1>>  BY AppendIsConcat
  <2>2. Append(s \o q, n + 1) = (s \o q) \o <<n + 1>>
    BY ConcatProperties, AppendIsConcat
  <2>3. <<n + 1>> \in Seq(S)  OBVIOUS
  <2>4. (s \o q) \o <<n + 1>> = s \o (q \o <<n + 1>>)
    BY <2>3, ConcatAssociative
  <2> QED  BY <2>1, <2>2, <2>4
<1>2. Append(Numbers(n), n + 1) = Numbers(n + 1)  BY DEF Numbers
<1> QED  BY <1>1, <1>2

\* What is taken from the head of the queue goes to the end of what was taken.
LEMMA TakeHead ==
  ASSUME NEW S, NEW s \in Seq(S), NEW q \in Seq(S), q # <<>>
  PROVE  s \o <<Head(q)>> \o Tail(q) = s \o q
OBVIOUS

\* The order of the events survives every step that does not race.
LEMMA NextOrder == IInv /\ [Next]_vars => OrderUnlessRaced'
<1> SUFFICES ASSUME IInv, [Next]_vars, ~raced' PROVE OrderUnlessRaced'
  BY DEF OrderUnlessRaced
<1> DEFINE Q == Event \cup {Torn}
<1>0. TypeOK /\ OverlapIsRace /\ HandTaken /\ OrderUnlessRaced /\ LeftFits
  BY DEF IInv
<1>h. handled \o InHand \in Seq(Event)  BY <1>0, InHandType DEF TypeOK
<1>1. ASSUME NEW p \in Producer, PushEnd(p) PROVE OrderUnlessRaced'
  <2>1. ~raced /\ ~overlapped
    BY <1>0, <1>1 DEF PushEnd, OverlapIsRace, PushInProgress
  <2>2. pushed + 1 \in Event  BY <1>1, NextNumber
  <2>3. inputQueue' = Append(inputQueue, pushed + 1)
    BY <1>1, <2>1 DEF PushEnd, PushOutcome
  <2>4. (handled \o InHand)' = handled \o InHand  BY <1>1 DEF PushEnd, InHand
  <2>5. (handled \o InHand) \o inputQueue' = [i \in 1..(pushed + 1) |-> i]
    <3>1. handled \o InHand \in Seq(Q)  BY <1>h, InHandType
    <3>2. inputQueue \in Seq(Q) /\ pushed \in Nat /\ pushed + 1 \in Q
      BY <1>0, <2>2 DEF TypeOK
    <3>3. (handled \o InHand) \o inputQueue = Numbers(pushed)
      BY <1>0, <2>1 DEF OrderUnlessRaced, Numbers
    <3> HIDE DEF Q
    <3>4. (handled \o InHand) \o Append(inputQueue, pushed + 1)
            = Numbers(pushed + 1)
      BY <3>1, <3>2, <3>3, AppendNumber
    <3> QED  BY <2>3, <3>4 DEF Numbers
  <2> QED  BY <1>1, <2>4, <2>5 DEF OrderUnlessRaced, PushEnd
<1>2. CASE Pop
  <2>1. ~raced /\ ~PushInProgress  BY <1>0, <1>2 DEF Pop, TypeOK
  <2>2. inputQueue # <<>> /\ InHand = <<>>
    BY <1>0, <1>2 DEF Pop, EngineGoto, IInv, PopsSomething, HandTaken, InHand
  <2>3. event' = Head(inputQueue)  BY <1>2, <2>1 DEF Pop, PopOutcome
  <2>4. handled \o inputQueue = [i \in 1..pushed |-> i]
    BY <1>0, <2>1, <2>2 DEF OrderUnlessRaced, TypeOK
  <2>5. event' \in Event
    <3>1. (handled \o inputQueue)[Len(handled) + 1] = Head(inputQueue)
      BY <1>0, <2>2 DEF TypeOK
    <3>2. Len(handled \o inputQueue) = Len(handled) + Len(inputQueue)
      BY <1>0 DEF TypeOK
    <3>3. Len(handled) + 1 \in 1..pushed
      BY <1>0, <2>2, <2>4, <3>2 DEF TypeOK
    <3>4. event' = Len(handled) + 1  BY <2>3, <2>4, <3>1, <3>3
    <3>5. pushed <= MaxEvent /\ pushed \in Nat /\ Len(handled) \in Nat
      BY <1>0, ConstantsAssumption DEF TypeOK
    <3> QED  BY <3>3, <3>4, <3>5, ConstantsAssumption DEF Event
  <2>6. InHand' = <<Head(inputQueue)>>  BY <2>3, <2>5 DEF InHand
  <2>7. handled \o <<Head(inputQueue)>> \o Tail(inputQueue) = handled \o inputQueue
    <3>1. handled \in Seq(Q) /\ inputQueue \in Seq(Q)  BY <1>0 DEF TypeOK
    <3> QED  BY <2>2, <3>1, TakeHead
  <2> QED  BY <1>2, <2>4, <2>6, <2>7 DEF Pop, OrderUnlessRaced
<1>3. CASE Process
  <2>1. InHand' = <<>>  BY <1>3, NoEventAssumption DEF Process, InHand, Event
  <2>2. handled' \o InHand' = handled \o InHand  BY <1>3, <1>h, <2>1 DEF Process
  <2> QED  BY <1>0, <1>3, <2>2 DEF Process, queueVars, OrderUnlessRaced
<1>4. CASE SignalFails
  <2>1. InHand' = <<>>  BY <1>4, NoEventAssumption DEF SignalFails, InHand, Event
  <2>2. InHand = <<>>  BY <1>0, <1>4 DEF SignalFails, EngineGoto, HandTaken, InHand
  <2> QED  BY <1>0, <1>4, <2>1, <2>2
           DEF SignalFails, queueVars, history, OrderUnlessRaced
<1>5. CASE UNCHANGED <<inputQueue, event, handled, pushed, raced>>
  BY <1>0, <1>5 DEF OrderUnlessRaced, InHand
<1>6. ASSUME NEW p \in Producer, Lock(p) \/ PushBegin(p) \/ Signal(p) \/ Unlock(p)
      PROVE  OrderUnlessRaced'
  BY <1>5, <1>6 DEF Lock, PushBegin, Signal, Unlock, queueVars, history
<1>7. CASE RequestResync \/ WakeForResync \/ SignalStop
  BY <1>5, <1>7 DEF RequestResync, WakeForResync, SignalStop, history
<1>8. CASE EngineLock \/ SignalAndWait \/ Wake \/ CheckStop \/ CheckEmpty \/ CheckDrained
  BY <1>5, <1>8 DEF EngineLock, SignalAndWait, Wake, CheckStop, CheckEmpty,
                    CheckDrained, queueVars, history
<1>9. CASE ResetIdle \/ TakeRequestIdle \/ ResetDrained \/ TakeRequest
  BY <1>5, <1>9 DEF ResetIdle, TakeRequestIdle, ResetDrained, TakeRequest, history
<1>10. CASE UNCHANGED vars  BY <1>5, <1>10 DEF vars, queueVars, history
<1> QED  BY <1>1, <1>2, <1>3, <1>4, <1>6, <1>7, <1>8, <1>9, <1>10
         DEF Next, ProducerStep, EngineStep

\* IInv is an inductive invariant of the queue.
THEOREM Inductive == Spec => []IInv
<1>1. IInv /\ [Next]_vars => IInv'
  BY NextTypeOK, NextSection, NextPopsSomething, NextNeverStranded, NextHand,
     NextOrder DEF IInv
<1> QED  BY InitIInv, <1>1, PTL DEF Spec

-----------------------------------------------------------------------------
\* The steps of the producers and of the engine keep every variable in range:
\* no producer pushes past its one event or pair (keyboardDetour, mouseDetour).
THEOREM TypeCorrect == Spec => []TypeOK
<1>1. IInv => TypeOK  BY DEF IInv
<1> QED  BY <1>1, Inductive, PTL

\* Engine::unlocked() and keyboardHandler() agree without a lock: a request is
\* never pending while the engine sleeps on an event nobody is going to set.
THEOREM NeverStranded == Spec => []ResyncNeverStranded
<1>1. IInv => ResyncNeverStranded  BY DEF IInv
<1> QED  BY <1>1, Inductive, PTL

\* As long as no pop overlaps a push, the events the engine has processed, has in
\* hand and has queued are those the producers pushed, once each and in order:
\* neither the unowned mutex, nor a resync, nor an iteration woken with nothing
\* queued loses, repeats or reorders one.
THEOREM InOrder == Spec => []OrderUnlessRaced
<1>1. IInv => OrderUnlessRaced  BY DEF IInv
<1> QED  BY <1>1, Inductive, PTL

\* The queue mutex is free whenever the engine processes an event, so a hook
\* thread waits only for other producers.
THEOREM HooksFree == Spec => []HooksNeverWaitForProcessing
<1>1. IInv => HooksNeverWaitForProcessing  BY DEF IInv
<1> QED  BY <1>1, Inductive, PTL

\* Producers exclude each other: the ReleaseMutex the engine calls without
\* owning the mutex never opens the critical section of a producer.
THEOREM ProducersAlone == Spec => []ProducersExclude
<1>1. IInv => ProducersExclude  BY DEF IInv, SectionOwned, ProducersExclude
<1> QED  BY <1>1, Inductive, PTL

\* Both together: the mutex the queue relies on.
THEOREM QueueMutexAlwaysExcludes == Spec => []QueueMutexExcludes
<1>1. IInv => QueueMutexExcludes
  BY DEF IInv, QueueMutexExcludes, SectionOwned, ProducersExclude
<1> QED  BY <1>1, Inductive, PTL

-----------------------------------------------------------------------------
(* The mouse hook. *)

\* With one button at a time, the button that is down owns the next drag; this
\* is what Move needs, and what two buttons at once break.
HeldOwns ==
  (~missed /\ ~several) =>
    /\ \A a, b \in held : a = b
    /\ held # {} => dragButton \in held

MouseInv ==
  /\ MouseTypeOK
  /\ DragKeyMatches
  /\ ButtonsTracked
  /\ HeldOwns
  /\ DragOwned

-----------------------------------------------------------------------------
\* What pushing one event does to the keys that are down.
LEMMA PushOne ==
  ASSUME NEW e, Push(<<e>>)
  PROVE  queued' = <<e>> /\ keyDown' = After(keyDown, e)
BY DEF Push

\* What pushing two events does to the keys that are down.
LEMMA PushTwo ==
  ASSUME NEW e, NEW f, Push(<<e, f>>)
  PROVE  queued' = <<e, f>> /\ keyDown' = After(After(keyDown, e), f)
BY DEF Push

\* One event in front of another.
LEMMA Concatenated ==
  ASSUME NEW d, NEW e
  PROVE  <<d>> \o <<e>> = <<d, e>>
<1> DEFINE S == {d, e}
           s == <<d>> \o <<e>>
           t == <<d, e>>
<1>1. /\ <<d>> \in Seq(S) /\ <<e>> \in Seq(S)
      /\ t \in Seq(S) /\ Len(t) = 2 /\ t[1] = d /\ t[2] = e
  OBVIOUS
<1>2. /\ s \in Seq(S) /\ Len(s) = 2 /\ s[1] = d /\ s[2] = e
  BY <1>1, ConcatProperties
<1> HIDE DEF S, s, t
<1>3. s = t
  <2>1. \A i \in 1..Len(s) : s[i] = t[i]  BY <1>1, <1>2
  <2> QED  BY <1>1, <1>2, <2>1, SeqEqual
<1> QED  BY <1>3 DEF s, t

\* A button's event, with the release of the drag key before it or not, leaves
\* the drag key pressed only if it was and its release is not pushed.
LEMMA PushButton ==
  ASSUME MouseTypeOK, NEW b \in Button, NEW press \in BOOLEAN, NEW ends \in BOOLEAN,
         Push(DragBreak(ends) \o <<[key |-> b, press |-> press]>>)
  PROVE  /\ queued' \in Seq([key : Key, press : BOOLEAN])
         /\ keyDown' \subseteq Key
         /\ Drag \in keyDown' <=> (Drag \in keyDown /\ ~ends)
<1> DEFINE e == [key |-> b, press |-> press]
<1> USE KeysAssumption DEF MouseTypeOK, Key, After, Break
<1>1. CASE ends
  <2>1. DragBreak(ends) \o <<e>> = <<Break(Drag)>> \o <<e>>  BY <1>1 DEF DragBreak
  <2>2. <<Break(Drag)>> \o <<e>> = <<Break(Drag), e>>  BY Concatenated
  <2>3. Push(<<Break(Drag), e>>)  BY <2>1, <2>2
  <2>4. /\ queued' = <<Break(Drag), e>>
        /\ keyDown' = After(After(keyDown, Break(Drag)), e)
    BY <2>3, PushTwo
  <2> QED  BY <1>1, <2>4
<1>2. CASE ~ends
  <2>1. DragBreak(ends) \o <<e>> = <<e>>  BY <1>2 DEF DragBreak
  <2>2. queued' = <<e>> /\ keyDown' = After(keyDown, e)  BY <2>1, PushOne
  <2> QED  BY <1>2, <2>2
<1> QED  BY <1>1, <1>2

LEMMA MouseInitInv == MouseInit => MouseInv
<1> SUFFICES ASSUME MouseInit PROVE MouseInv  OBVIOUS
<1>1. queued \in Seq([key : Key, press : BOOLEAN])  BY DEF MouseInit
<1>2. MouseTypeOK  BY <1>1 DEF MouseInit, MouseTypeOK
<1> QED  BY <1>2 DEF MouseInit, MouseInv, DragKeyMatches, ButtonsTracked, HeldOwns, DragOwned

\* Each handler keeps the inductive invariant.
LEMMA MouseNextInv == MouseInv /\ [MouseNext]_mouseVars => MouseInv'
<1> SUFFICES ASSUME MouseInv, [MouseNext]_mouseVars PROVE MouseInv'  OBVIOUS
<1> USE KeysAssumption
<1>0. /\ MouseTypeOK /\ DragKeyMatches /\ ButtonsTracked /\ HeldOwns /\ DragOwned
  BY DEF MouseInv
<1>1. ASSUME NEW b \in Button, PressSeen(b) PROVE MouseInv'
  <2>1. StaleDrag(b) \in BOOLEAN  BY <1>0 DEF StaleDrag, MouseTypeOK
  <2>2. /\ queued' \in Seq([key : Key, press : BOOLEAN])
        /\ keyDown' \subseteq Key
        /\ Drag \in keyDown' <=> (Drag \in keyDown /\ ~StaleDrag(b))
    BY <1>0, <1>1, <2>1, PushButton DEF PressSeen, Make
  <2>3. MouseTypeOK'  BY <1>0, <1>1, <2>2 DEF PressSeen, MouseTypeOK
  <2>4. DragKeyMatches'  BY <1>0, <1>1, <2>2 DEF PressSeen, DragKeyMatches
  <2>5. ButtonsTracked'  BY <1>0, <1>1 DEF PressSeen, ButtonsTracked
  <2>6. HeldOwns' /\ DragOwned'
    BY <1>0, <1>1 DEF PressSeen, HeldOwns, DragOwned, MouseTypeOK
  <2> QED  BY <2>3, <2>4, <2>5, <2>6 DEF MouseInv
<1>2. ASSUME NEW b \in Button, ReleaseSeen(b) PROVE MouseInv'
  <2> DEFINE ends == dragging /\ b = dragButton
  <2>1. ends \in BOOLEAN  BY <1>0 DEF MouseTypeOK
  <2>2. /\ queued' \in Seq([key : Key, press : BOOLEAN])
        /\ keyDown' \subseteq Key
        /\ Drag \in keyDown' <=> (Drag \in keyDown /\ ~ends)
    BY <1>0, <1>2, <2>1, PushButton DEF ReleaseSeen, Break
  <2>3. MouseTypeOK'  BY <1>0, <1>2, <2>2 DEF ReleaseSeen, MouseTypeOK
  <2>4. DragKeyMatches'  BY <1>0, <1>2, <2>2 DEF ReleaseSeen, DragKeyMatches
  <2>5. ButtonsTracked'  BY <1>0, <1>2 DEF ReleaseSeen, ButtonsTracked
  <2>6. HeldOwns' /\ DragOwned'
    BY <1>0, <1>2 DEF ReleaseSeen, HeldOwns, DragOwned, MouseTypeOK
  <2> QED  BY <2>3, <2>4, <2>5, <2>6 DEF MouseInv
<1>3. ASSUME NEW b \in Button, ButtonMissed(b) PROVE MouseInv'
  BY <1>0, <1>3 DEF ButtonMissed, hook, MouseInv, MouseTypeOK, DragKeyMatches,
                    ButtonsTracked, HeldOwns, DragOwned
<1>4. CASE TurnWheel
  <2>1. /\ queued' = <<Make(Wheel), Break(Wheel)>>
        /\ keyDown' = After(After(keyDown, Make(Wheel)), Break(Wheel))
    BY <1>4, PushTwo DEF TurnWheel
  <2>2. /\ queued' \in Seq([key : Key, press : BOOLEAN])
        /\ keyDown' \subseteq Key
        /\ Drag \in keyDown' <=> Drag \in keyDown
    BY <1>0, <2>1 DEF MouseTypeOK, Key, After, Make, Break
  <2> QED
    BY <1>0, <1>4, <2>2 DEF TurnWheel, system, hook, MouseInv, MouseTypeOK, DragKeyMatches,
                            ButtonsTracked, HeldOwns, DragOwned
<1>5. CASE Move
  <2>1. queued' = <<Make(Drag)>> /\ keyDown' = After(keyDown, Make(Drag))
    BY <1>5, PushOne DEF Move
  <2>2. /\ queued' \in Seq([key : Key, press : BOOLEAN])
        /\ keyDown' \subseteq Key
        /\ Drag \in keyDown'
    BY <1>0, <2>1 DEF MouseTypeOK, Key, After, Make
  <2> QED
    BY <1>0, <1>5, <2>2 DEF Move, system, MouseInv, MouseTypeOK, DragKeyMatches,
                            ButtonsTracked, HeldOwns, DragOwned
<1>6. CASE Environment
  <2>1. queued' \in Seq([key : Key, press : BOOLEAN])  BY <1>6 DEF Environment
  <2> QED
    BY <1>0, <1>6, <2>1 DEF Environment, hook, mouseHistory, MouseInv, MouseTypeOK, DragKeyMatches,
                            ButtonsTracked, HeldOwns, DragOwned
<1>7. CASE UNCHANGED mouseVars
  BY <1>0, <1>7 DEF mouseVars, system, hook, mouseHistory, MouseInv, MouseTypeOK, DragKeyMatches,
                    ButtonsTracked, HeldOwns, DragOwned
<1> QED  BY <1>1, <1>2, <1>3, <1>4, <1>5, <1>6, <1>7 DEF MouseNext

\* MouseInv is an inductive invariant of the hook.
THEOREM MouseInductive == MouseSpec => []MouseInv
<1> QED  BY MouseInitInv, MouseNextInv, PTL DEF MouseSpec

-----------------------------------------------------------------------------
\* The drag pseudo key is pressed exactly while the hook has a drag on, whatever
\* presses and releases mouseDetour() never saw.
THEOREM DragKey == MouseSpec => []DragKeyMatches
<1>1. MouseInv => DragKeyMatches  BY DEF MouseInv
<1> QED  BY <1>1, MouseInductive, PTL

\* m_buttonsPressed is the set of buttons that are down while the hook sees all.
THEOREM Tracked == MouseSpec => []ButtonsTracked
<1>1. MouseInv => ButtonsTracked  BY DEF MouseInv
<1> QED  BY <1>1, MouseInductive, PTL

\* With one button at a time the drag belongs to the button that is down.
THEOREM Owned == MouseSpec => []DragOwned
<1>1. MouseInv => DragOwned  BY DEF MouseInv
<1> QED  BY <1>1, MouseInductive, PTL

\* A button that does not own the drag never ends it.
THEOREM OwnerEnds == MouseSpec => OnlyOwnerEndsDrag
<1>1. MouseInv /\ [MouseNext]_mouseVars =>
        [dragging /\ ~dragging' => (dragButton \in held) # (dragButton \in held')]_mouseVars
  <2> SUFFICES ASSUME MouseInv, MouseNext, dragging, ~dragging'
               PROVE  (dragButton \in held) # (dragButton \in held')
    OBVIOUS
  <2>1. ASSUME NEW b \in Button, PressSeen(b)
        PROVE  (dragButton \in held) # (dragButton \in held')
    BY <2>1 DEF PressSeen, StaleDrag
  <2>2. ASSUME NEW b \in Button, ReleaseSeen(b)
        PROVE  (dragButton \in held) # (dragButton \in held')
    BY <2>2 DEF ReleaseSeen
  <2>3. ~(\E b \in Button : ButtonMissed(b)) /\ ~TurnWheel /\ ~Move /\ ~Environment
    BY DEF ButtonMissed, TurnWheel, Move, Environment, hook
  <2> QED  BY <2>1, <2>2, <2>3 DEF MouseNext
<1> QED  BY <1>1, MouseInductive, PTL DEF MouseSpec, OnlyOwnerEndsDrag

\* A drag whose button came up unseen is dropped at that button's next press.
THEOREM StaleDropped == MouseSpec => StaleDragDropped
<1> DEFINE A == \A b \in buttonsPressed :
      (dragging /\ b = dragButton /\ b \in held' \ held /\ Seen) => ~dragging'
<1>1. MouseInv /\ [MouseNext]_mouseVars => [A]_mouseVars
  <2> SUFFICES ASSUME MouseInv, MouseNext,
                      NEW b \in buttonsPressed,
                      dragging, b = dragButton, b \in held' \ held, Seen
               PROVE  ~dragging'
    OBVIOUS
  <2>1. ASSUME NEW c \in Button, PressSeen(c) PROVE ~dragging'
    BY <2>1 DEF PressSeen, StaleDrag
  <2>2. ~(\E c \in Button : ReleaseSeen(c) \/ ButtonMissed(c))
    BY DEF ReleaseSeen, ButtonMissed
  <2>3. ~TurnWheel /\ ~Move /\ ~Environment
    BY DEF TurnWheel, Move, Environment, system
  <2> QED  BY <2>1, <2>2, <2>3 DEF MouseNext
<1> QED  BY <1>1, MouseInductive, PTL DEF MouseSpec, StaleDragDropped
=============================================================================
