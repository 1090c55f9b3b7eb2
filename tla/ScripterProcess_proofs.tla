------------------------ MODULE ScripterProcess_proofs ------------------------
(* Proofs about the scripter process and the two ends of its pipes, for any   *)
(* number of loads, user functions and definitions, and pipes of any size.    *)
EXTENDS ScripterProcess, FiniteSetTheorems, SequenceTheorems, WellFoundedInduction, TLAPS

(* What the reader has, or will have, in hand between two pieces of the data   *)
(* stream.                                                                     *)
Stage == [reading : {"none", "Def", "ExecKeySeq"}, block : Blocks \cup {None},
          committed : {None} \cup {Whole(n) : n \in 1..MaxStart}]
StageOf(r, b, c) == [reading |-> r, block |-> b, committed |-> c]
Now == StageOf(reading, block, committed)

\* Reading piece p at stage s leads to stage t.  A payload goes on with what its
\* own load began, and a Commit finds the whole of a load.
Reads(s, p, t) ==
  \/ /\ p = Id("Reset") /\ s.reading = "none"
     /\ t = StageOf("none", <<>>, s.committed)
  \/ /\ p = Id("Def") /\ s.reading = "none"
     /\ t = StageOf("Def", s.block, s.committed)
  \/ \E n \in 1..MaxStart, k \in 0..(Defs - 1) :
       /\ p = Payload(n) /\ s.reading = "Def" /\ s.block = Part(n, k)
       /\ t = StageOf("none", Part(n, k + 1), s.committed)
  \/ \E n \in 1..MaxStart :
       /\ p = Id("Commit") /\ s.reading = "none" /\ s.block = Whole(n)
       /\ t = StageOf("none", None, Whole(n))
  \/ /\ p = Id("ExecKeySeq") /\ s.reading = "none"
     /\ t = StageOf("ExecKeySeq", s.block, s.committed)
  \/ \E n \in 1..MaxStart :
       /\ p = Payload(n) /\ s.reading = "ExecKeySeq"
       /\ n \in failed \/ s.committed = Whole(n)
       /\ t = StageOf("none", s.block, s.committed)

\* The stage the script thread has brought the stream to.
Written(s) ==
  /\ script = "flush" =>
       \/ step = 0 /\ s.reading = "none"
       \/ \E k \in 0..Defs :
            step = 2 * k + 1 /\ s.reading = "none" /\ s.block = Part(loaded, k)
       \/ \E k \in 0..(Defs - 1) :
            step = 2 * k + 2 /\ s.reading = "Def" /\ s.block = Part(loaded, k)
       \/ step = 2 * Defs + 2 /\ s.reading = "none" /\ s.committed = Whole(loaded)
  /\ script = "exec" =>
       \/ step = 0 /\ s.reading = "none"
       \/ step = 1 /\ s.reading = "ExecKeySeq"
  /\ script \in {"pop", "load", "done"} => s.reading = "none"
  /\ (script \in {"pop", "exec"} /\ loaded \notin failed \cup {NoLoad}) =>
       s.committed = Whole(loaded)

\* The stages from the one the reader is at to the one the script has written to.
Stages(run) ==
  /\ run \in [0..Len(data) -> Stage]
  /\ run[0] = Now
  /\ \A i \in 1..Len(data) : Reads(run[i - 1], data[i], run[i])
  /\ Written(run[Len(data)])

Stream == Up => \E run : Stages(run)

ScriptOK ==
  /\ script \in {"load", "flush"} => loaded # NoLoad
  /\ script \in {"pop", "load", "done"} => step = 0
  /\ script = "exec" => loaded # NoLoad /\ step \in 0..1

\* Nothing is queued after Quit, which only the end of the ctrl pipe queues.
QueueOK ==
  /\ \A i \in 1..Len(ctrl) : ctrl[i] # Quit
  /\ watchdog \in {"reading", "dropping"} => \A i \in 1..Len(jobs) : jobs[i] # Quit

\* An ad-hoc sequence carries the Setting of its load, or the load was given up.
AdHocOwned ==
  \A i \in 1..Len(events) :
    (events[i].type = "AdHoc" /\ events[i].load \notin failed) =>
      events[i].origin = Whole(events[i].load)

\* The ctrl pipe and the JobQueue: their part of the invariant.
QueueInv ==
  /\ starts \in 0..MaxStart
  /\ ctrl \in Seq(Job) /\ jobs \in Seq(Job)
  /\ Waiting(jobs) <= MaxPending
  /\ watchdog \in {"reading", "dropping", "waiting", "logging", "over"}
  /\ QueueOK
  /\ StartGoesFirst

\* The script thread's part of the invariant, and that of the data stream.
ScriptInv ==
  /\ script \in {"pop", "load", "flush", "exec", "done"}
  /\ loaded \in 0..MaxStart /\ step \in 0..(2 * Defs + 2)
  /\ failed \subseteq 1..MaxStart /\ keySeqs \in 0..MaxKeySeq
  /\ ScriptOK

StreamInv ==
  /\ nyamy \in {"up", "gone", "aborted"}
  /\ data \in Seq(Piece) /\ Len(data) <= DataCap
  /\ Now \in Stage
  /\ Stream

\* What the UI thread and the engine have, and the rest of the types.
EventInv ==
  /\ {slot, setting} \subseteq Blocks \cup {None}
  /\ posted \in Nat
  /\ events \in Seq(Event) /\ ran \in Event
  /\ AdHocOwned
  /\ AdHocInItsSetting

RestInv ==
  /\ execs \in 0..MaxExec /\ msgs \in 0..MsgCap
  /\ ctrlClosed \in BOOLEAN /\ stopped \in BOOLEAN
  /\ reader \in BOOLEAN /\ msgReader \in BOOLEAN
  /\ process \in {"alive", "gone", "terminated"}

IInv == QueueInv /\ ScriptInv /\ StreamInv /\ EventInv /\ RestInv

-----------------------------------------------------------------------------
\* Every set of numbers that is not empty has a least one.
LEMMA LeastNat ==
  ASSUME NEW T \in SUBSET Nat, T # {}
  PROVE  \E x \in T : \A y \in T : x <= y
<1> DEFINE R == OpToRel(<, Nat)
<1>1. IsWellFoundedOn(R, Nat)  BY NatLessThanWellFounded
<1>2. \A x, y \in Nat : x < y => <<x, y>> \in R  BY DEF OpToRel
<1> HIDE DEF R
<1>3. PICK x \in T : \A y \in T : <<y, x>> \notin R  BY <1>1, WFMin
<1>4. \A y \in T : y \in Nat  OBVIOUS
<1>5. \A y \in T : ~(y < x)  BY <1>2, <1>3, <1>4
<1> QED  BY <1>4, <1>5

\* Induction over the numbers, for a set instead of an operator.
LEMMA NumbersIn ==
  ASSUME NEW S, 0 \in S, \A n \in Nat : n \in S => n + 1 \in S
  PROVE  Nat \subseteq S
<1> SUFFICES ASSUME Nat \ S # {} PROVE FALSE  OBVIOUS
<1>1. PICK x \in Nat \ S : \A y \in Nat \ S : x <= y  BY LeastNat
<1>2. x # 0 /\ x - 1 \in Nat /\ x = (x - 1) + 1  BY <1>1
<1>3. x - 1 \notin S  BY <1>2
<1> QED  BY <1>1, <1>2, <1>3

\* remove_if() leaves nothing but jobs of the queue that are not user functions.
LEMMA KeptOf ==
  ASSUME NEW S, NEW q \in Seq(S)
  PROVE  Kept(q) \in Seq({j \in S : ~IsExec(j)})
<1> DEFINE N == Len(q)
           U == {j \in S : ~IsExec(j)}
           at(f, i) == IF i = 0 THEN <<>>
                       ELSE IF IsExec(q[i]) THEN f[i - 1]
                       ELSE Append(f[i - 1], q[i])
           Good(f, n) == f = [i \in 0..n |-> at(f, i)]
           K == CHOOSE f : Good(f, N)
<1>0. N \in Nat  OBVIOUS
<1>1. \E f : Good(f, N)
  <2> DEFINE T == {n \in Nat : \E f : Good(f, n)}
  <2>1. 0 \in T
    <3> DEFINE f == [i \in 0..0 |-> <<>>]
    <3>1. Good(f, 0)  OBVIOUS
    <3> QED  BY <3>1
  <2>2. ASSUME NEW n \in Nat, n \in T PROVE n + 1 \in T
    <3>1. PICK f : Good(f, n)  BY <2>2
    <3> HIDE DEF at
    <3>a. \A i \in 0..n : f[i] = at(f, i)  BY <3>1
    <3> DEFINE g == [i \in 0..(n + 1) |-> IF i \in 0..n THEN f[i] ELSE at(f, n + 1)]
    <3>2. ASSUME NEW i \in 0..(n + 1) PROVE g[i] = at(g, i)
      <4>1. CASE i = 0
        <5>1. 0 \in 0..n  OBVIOUS
        <5>2. g[0] = f[0] /\ f[0] = at(f, 0)  BY <3>a, <5>1
        <5> QED  BY <4>1, <5>2 DEF at
      <4>2. CASE i \in 1..n
        <5>1. f[i] = at(f, i)  BY <3>a, <4>2
        <5>2. g[i] = f[i] /\ g[i - 1] = f[i - 1]  BY <4>2
        <5> QED  BY <4>2, <5>1, <5>2 DEF at
      <4>3. CASE i = n + 1
        <5>1. g[i] = at(f, i) /\ g[i - 1] = f[i - 1] /\ i # 0  BY <4>3
        <5> QED  BY <5>1 DEF at
      <4> QED  BY <4>1, <4>2, <4>3
    <3>3. g = [i \in 0..(n + 1) |-> g[i]]  OBVIOUS
    <3>4. Good(g, n + 1)  BY <3>2, <3>3
    <3> HIDE DEF Good, g
    <3> QED  BY <3>4
  <2>3. N \in T  BY <1>0, <2>1, <2>2, NumbersIn
  <2> QED  BY <2>3
<1>2. Good(K, N)  BY <1>1
<1>3. Kept(q) = K[N]  BY DEF Kept
<1> HIDE DEF K
<1>4. \A i \in 0..N : K[i] = at(K, i)  BY <1>2
<1>5. K[N] \in Seq(U)
  <2> DEFINE T == {n \in Nat : n <= N => K[n] \in Seq(U)}
  <2>1. 0 \in T
    <3>1. K[0] = <<>>  BY <1>0, <1>4
    <3>2. <<>> \in Seq(U)  BY EmptySeq
    <3> QED  BY <3>1, <3>2
  <2>2. ASSUME NEW n \in Nat, n \in T PROVE n + 1 \in T
    <3> SUFFICES ASSUME n + 1 <= N PROVE K[n + 1] \in Seq(U)  OBVIOUS
    <3>1. K[n] \in Seq(U)  BY <1>0, <2>2
    <3>2. K[n + 1] = at(K, n + 1) /\ n + 1 # 0 /\ (n + 1) - 1 = n  BY <1>0, <1>4
    <3>3. q[n + 1] \in S  BY <1>0
    <3> QED  BY <3>1, <3>2, <3>3
  <2>3. N \in T  BY <1>0, <2>1, <2>2, NumbersIn
  <2> QED  BY <1>0, <2>3
<1> QED  BY <1>3, <1>5

-----------------------------------------------------------------------------
\* The user functions in a queue are finitely many.
LEMMA WaitingType ==
  ASSUME NEW S, NEW q \in Seq(S)
  PROVE  /\ IsFiniteSet({i \in 1..Len(q) : IsExec(q[i])})
         /\ Waiting(q) \in Nat
<1> DEFINE W == {i \in 1..Len(q) : IsExec(q[i])}
<1>1. IsFiniteSet(1..Len(q))  BY FS_Interval
<1>2. W \in SUBSET (1..Len(q))  OBVIOUS
<1>3. IsFiniteSet(W)  BY <1>1, <1>2, FS_Subset
<1>4. Cardinality(W) \in Nat  BY <1>3, FS_CardinalityType
<1> QED  BY <1>3, <1>4 DEF Waiting

\* A user function at the end is one more, any other job is none.
LEMMA WaitingAppend ==
  ASSUME NEW S, NEW q \in Seq(S), NEW j \in S
  PROVE  Waiting(Append(q, j)) = IF IsExec(j) THEN Waiting(q) + 1 ELSE Waiting(q)
<1> DEFINE W == {i \in 1..Len(q) : IsExec(q[i])}
           V == {i \in 1..Len(Append(q, j)) : IsExec(Append(q, j)[i])}
           e == Len(q) + 1
<1>1. /\ Len(Append(q, j)) = e /\ Append(q, j)[e] = j
      /\ \A i \in 1..Len(q) : Append(q, j)[i] = q[i]
  BY AppendProperties
<1>2. IsFiniteSet(W)  BY WaitingType
<1>3. CASE IsExec(j)
  <2>1. V = W \cup {e}  BY <1>1, <1>3
  <2>2. e \notin W  OBVIOUS
  <2> HIDE DEF V, W, e
  <2>3. Cardinality(V) = Cardinality(W) + 1  BY <1>2, <2>1, <2>2, FS_AddElement
  <2> QED  BY <1>3, <2>3 DEF Waiting, V, W
<1>4. CASE ~IsExec(j)
  <2>1. V = W  BY <1>1, <1>4
  <2> QED  BY <1>4, <2>1 DEF Waiting
<1> QED  BY <1>3, <1>4

\* A queue without its first job has no more of them.
LEMMA WaitingTail ==
  ASSUME NEW S, NEW q \in Seq(S), q # <<>>
  PROVE  Waiting(Tail(q)) <= Waiting(q)
<1> DEFINE W == {i \in 1..Len(q) : IsExec(q[i])}
           V == {i \in 1..Len(Tail(q)) : IsExec(Tail(q)[i])}
           f == [i \in V |-> i + 1]
<1>1. /\ Tail(q) \in Seq(S) /\ Len(Tail(q)) = Len(q) - 1
      /\ \A i \in 1..Len(Tail(q)) : Tail(q)[i] = q[i + 1]
  BY HeadTailProperties
<1>2. IsFiniteSet(W)  BY WaitingType
<1>3. f \in Injection(V, W)
  <2>1. \A i \in V : i \in Nat /\ i + 1 \in W  BY <1>1
  <2>2. f \in [V -> W]  BY <2>1
  <2>3. \A a, b \in V : f[a] = f[b] => a = b  BY <2>1
  <2> HIDE DEF V, W, f
  <2> QED  BY <2>2, <2>3 DEF Injection, IsInjective
<1> HIDE DEF V, W, f
<1>4. Cardinality(V) <= Cardinality(W)  BY <1>2, <1>3, FS_Injection
<1> QED  BY <1>4 DEF Waiting, V, W

\* Where no job is a user function there are none.
LEMMA WaitingNone ==
  ASSUME NEW q, \A i \in 1..Len(q) : ~IsExec(q[i])
  PROVE  Waiting(q) = 0
<1>1. {i \in 1..Len(q) : IsExec(q[i])} = {}  OBVIOUS
<1> QED  BY <1>1, FS_EmptySet DEF Waiting

-----------------------------------------------------------------------------
\* What is true of a Job.
LEMMA JobFacts ==
  /\ \A j \in Job : j = Quit \/ IsExec(j) \/ j.type = "Start"
  /\ \A j \in Job : j.type = "Start" => j.load \in 1..MaxStart
  /\ \A j \in Job : (j # Quit /\ ~IsExec(j)) => j.type = "Start"
  /\ Quit \in Job /\ ~IsExec(Quit) /\ Quit.type # "Start"
  /\ \A n \in 1..MaxStart : Start(n) \in Job /\ Start(n) # Quit /\ ~IsExec(Start(n))
  /\ \A n \in 0..MaxStart : ExecUserFunc(n) \in Job /\ ExecUserFunc(n) # Quit
<1>1. \A n : /\ Start(n).type = "Start" /\ Start(n).load = n
             /\ ExecUserFunc(n).type = "ExecUserFunc"
  BY DEF Start, ExecUserFunc
<1>2. Quit.type = "Quit"  BY DEF Quit
<1>3. \A j \in Job : \/ \E n \in 1..MaxStart : j = Start(n)
                     \/ \E n \in 0..MaxStart : j = ExecUserFunc(n)
                     \/ j = Quit
  BY DEF Job
<1>4. /\ Quit \in Job
      /\ \A n \in 1..MaxStart : Start(n) \in Job
      /\ \A n \in 0..MaxStart : ExecUserFunc(n) \in Job
  BY DEF Job
<1> QED  BY <1>1, <1>2, <1>3, <1>4 DEF IsExec

\* A message the ctrl pipe takes is not Quit.
LEMMA SentStep ==
  ASSUME QueueInv, NEW j \in Job, j # Quit, ctrl' = Append(ctrl, j),
         starts' \in 0..MaxStart, UNCHANGED <<jobs, watchdog>>
  PROVE  QueueInv'
<1>1. /\ ctrl' \in Seq(Job) /\ Len(ctrl') = Len(ctrl) + 1
      /\ \A i \in 1..Len(ctrl) : ctrl'[i] = ctrl[i]
      /\ ctrl'[Len(ctrl) + 1] = j
  BY AppendProperties DEF QueueInv
<1>2. \A i \in 1..Len(ctrl') : ctrl'[i] # Quit
  BY <1>1 DEF QueueInv, QueueOK
<1> QED  BY <1>1, <1>2 DEF QueueInv, QueueOK, StartGoesFirst

\* The ctrl thread takes a Start: everything in front of it is a Start.
LEMMA ReadStart ==
  ASSUME QueueInv, ReadCtrl, ~IsExec(Head(ctrl))
  PROVE  QueueInv'
<1> DEFINE j == Head(ctrl)
           S == Job \ {Quit}
           U == {x \in S : ~IsExec(x)}
<1>1. /\ j \in S /\ j.type = "Start"
      /\ ctrl' \in Seq(Job) /\ \A i \in 1..Len(ctrl') : ctrl'[i] # Quit
  <2>1. /\ ctrl # <<>> /\ ctrl' = Tail(ctrl) /\ ctrl \in Seq(Job)  BY DEF ReadCtrl, QueueInv
  <2>2. /\ j \in Job /\ Tail(ctrl) \in Seq(Job) /\ Len(Tail(ctrl)) = Len(ctrl) - 1
        /\ \A i \in 1..Len(Tail(ctrl)) : Tail(ctrl)[i] = ctrl[i + 1]
    BY <2>1, HeadTailProperties
  <2>3. j = ctrl[1] /\ 1 \in 1..Len(ctrl)  BY <2>1
  <2>4. j # Quit  BY <2>3 DEF QueueInv, QueueOK
  <2>5. j.type = "Start"  BY <2>2, <2>4, JobFacts
  <2>6. \A i \in 1..Len(ctrl') : ctrl'[i] # Quit
    BY <2>1, <2>2 DEF QueueInv, QueueOK
  <2> QED  BY <2>1, <2>2, <2>4, <2>5, <2>6
<1>2. jobs \in Seq(S)
  <2>1. \A i \in 1..Len(jobs) : jobs[i] \in S  BY DEF QueueInv, QueueOK, ReadCtrl
  <2> QED  BY <2>1 DEF QueueInv
<1> HIDE DEF S, j
<1>3. Kept(jobs) \in Seq(U)  BY <1>2, KeptOf
<1>4. j \in U  BY <1>1 DEF j
<1>5. jobs' = Append(Kept(jobs), j)  BY DEF ReadCtrl, PushStart, j
<1> HIDE DEF U
<1>6. jobs' \in Seq(U)  BY <1>3, <1>4, <1>5, AppendProperties
<1>7. \A i \in 1..Len(jobs') : jobs'[i] \in U  BY <1>6
<1>8. \A x \in U : x \in Job /\ x # Quit /\ ~IsExec(x) /\ x.type = "Start"
  BY JobFacts DEF U, S
<1>9. Waiting(jobs') = 0  BY <1>7, <1>8, WaitingNone
<1>10. jobs' \in Seq(Job)  BY <1>6, <1>8, SeqMonotonic
<1>11. watchdog' = "reading" /\ starts' = starts
  BY DEF ReadCtrl, ctrlOnly, sentVars
<1> QED
  BY <1>1, <1>7, <1>8, <1>9, <1>10, <1>11, BoundsAssumption
  DEF QueueInv, QueueOK, StartGoesFirst

\* The ctrl thread takes a user function, which is queued or dropped.
LEMMA ReadExec ==
  ASSUME QueueInv, ReadCtrl, IsExec(Head(ctrl))
  PROVE  QueueInv'
<1> DEFINE j == Head(ctrl)
<1>1. /\ j \in Job /\ j # Quit /\ IsExec(j)
      /\ ctrl' \in Seq(Job) /\ \A i \in 1..Len(ctrl') : ctrl'[i] # Quit
  <2>1. /\ ctrl # <<>> /\ ctrl' = Tail(ctrl) /\ ctrl \in Seq(Job)  BY DEF ReadCtrl, QueueInv
  <2>2. /\ j \in Job /\ Tail(ctrl) \in Seq(Job) /\ Len(Tail(ctrl)) = Len(ctrl) - 1
        /\ \A i \in 1..Len(Tail(ctrl)) : Tail(ctrl)[i] = ctrl[i + 1]
    BY <2>1, HeadTailProperties
  <2>3. j # Quit  BY JobFacts
  <2>4. \A i \in 1..Len(ctrl') : ctrl'[i] # Quit
    BY <2>1, <2>2 DEF QueueInv, QueueOK
  <2> QED  BY <2>1, <2>2, <2>3, <2>4
<1>2. /\ watchdog = "reading" /\ watchdog' \in {"reading", "dropping"} /\ starts' = starts
      /\ jobs' = PushExec(jobs, j)
  BY DEF ReadCtrl, ctrlOnly, sentVars
<1>3. CASE Full(jobs)
  <2>1. jobs' = jobs  BY <1>2, <1>3 DEF PushExec
  <2> QED  BY <1>1, <1>2, <2>1 DEF QueueInv, QueueOK, StartGoesFirst
<1>4. CASE ~Full(jobs)
  <2>1. jobs' = Append(jobs, j) /\ jobs \in Seq(Job)
    BY <1>2, <1>4 DEF PushExec, QueueInv
  <2> HIDE DEF j
  <2>2. /\ jobs' \in Seq(Job) /\ Len(jobs') = Len(jobs) + 1
        /\ \A i \in 1..Len(jobs) : jobs'[i] = jobs[i]
        /\ jobs'[Len(jobs) + 1] = j
    BY <1>1, <2>1, AppendProperties
  <2>3. j.type # "Start"  BY <1>1 DEF IsExec
  <2>4. Waiting(jobs') = Waiting(jobs) + 1 /\ Waiting(jobs) \in Nat
    BY <1>1, <2>1, WaitingAppend, WaitingType
  <2>5. Waiting(jobs') <= MaxPending
    BY <1>4, <2>4, BoundsAssumption DEF Full
  <2>6. \A i \in 1..Len(jobs') : jobs'[i] # Quit
    BY <1>1, <1>2, <2>1, <2>2 DEF QueueInv, QueueOK
  <2>7. StartGoesFirst'
    <3> SUFFICES ASSUME NEW a \in 1..Len(jobs'), NEW b \in 1..Len(jobs'),
                        a < b, jobs'[b].type = "Start"
                 PROVE  jobs'[a].type = "Start"
      BY DEF StartGoesFirst
    <3>1. b \in 1..Len(jobs) /\ a \in 1..Len(jobs)  BY <2>1, <2>2, <2>3
    <3> QED  BY <2>2, <3>1 DEF QueueInv, StartGoesFirst
  <2> QED  BY <1>1, <1>2, <2>2, <2>5, <2>6, <2>7 DEF QueueInv, QueueOK
<1> QED  BY <1>3, <1>4

\* The end of the ctrl pipe queues Quit at the back.
LEMMA QuitQueued ==
  ASSUME QueueInv, jobs' = Append(jobs, Quit), watchdog' = "waiting",
         UNCHANGED <<starts, ctrl>>
  PROVE  QueueInv'
<1>1. jobs \in Seq(Job)  BY DEF QueueInv
<1>2. /\ jobs' \in Seq(Job) /\ Len(jobs') = Len(jobs) + 1
      /\ \A i \in 1..Len(jobs) : jobs'[i] = jobs[i]
      /\ jobs'[Len(jobs) + 1] = Quit
  BY <1>1, JobFacts, AppendProperties
<1>3. Waiting(jobs') = Waiting(jobs)  BY <1>1, JobFacts, WaitingAppend
<1>4. StartGoesFirst'
  <2> SUFFICES ASSUME NEW a \in 1..Len(jobs'), NEW b \in 1..Len(jobs'),
                      a < b, jobs'[b].type = "Start"
               PROVE  jobs'[a].type = "Start"
    BY DEF StartGoesFirst
  <2>1. Quit.type # "Start"  BY DEF Quit
  <2>2. b # Len(jobs) + 1  BY <1>2, <2>1
  <2>3. b \in 1..Len(jobs) /\ a \in 1..Len(jobs)  BY <1>1, <1>2, <2>2
  <2> QED  BY <1>2, <2>3 DEF QueueInv, StartGoesFirst
<1> QED  BY <1>2, <1>3, <1>4 DEF QueueInv, QueueOK

\* The script thread takes the first job.
LEMMA JobTaken ==
  ASSUME QueueInv, jobs # <<>>, jobs' = Tail(jobs), UNCHANGED <<starts, ctrl, watchdog>>
  PROVE  QueueInv'
<1>1. jobs \in Seq(Job)  BY DEF QueueInv
<1>2. /\ jobs' \in Seq(Job) /\ Len(jobs') = Len(jobs) - 1
      /\ \A i \in 1..Len(jobs') : jobs'[i] = jobs[i + 1]
  BY <1>1, HeadTailProperties
<1>3. Waiting(jobs') <= MaxPending
  <2>1. Waiting(jobs') <= Waiting(jobs)  BY <1>1, WaitingTail
  <2>2. Waiting(jobs') \in Nat /\ Waiting(jobs) \in Nat  BY <1>1, <1>2, WaitingType
  <2> QED  BY <2>1, <2>2, BoundsAssumption DEF QueueInv
<1>4. \A i \in 1..Len(jobs') : i + 1 \in 1..Len(jobs)  BY <1>1, <1>2
<1>5. QueueOK'  BY <1>2, <1>4 DEF QueueInv, QueueOK
<1>6. StartGoesFirst'
  <2> SUFFICES ASSUME NEW a \in 1..Len(jobs'), NEW b \in 1..Len(jobs'),
                      a < b, jobs'[b].type = "Start"
               PROVE  jobs'[a].type = "Start"
    BY DEF StartGoesFirst
  <2>1. a + 1 < b + 1  OBVIOUS
  <2> QED  BY <1>2, <1>4, <2>1 DEF QueueInv, StartGoesFirst
<1> QED  BY <1>2, <1>3, <1>5, <1>6 DEF QueueInv

\* Every step keeps the queue's part of the invariant.
LEMMA QueueStep ==
  ASSUME QueueInv, [Next]_vars
  PROVE  QueueInv'
<1> USE BoundsAssumption
<1>1. CASE SendStart
  <2>1. Start(starts + 1) \in Job /\ Start(starts + 1) # Quit /\ starts' \in 0..MaxStart
    BY <1>1, JobFacts DEF SendStart, QueueInv
  <2>2. ctrl' = Append(ctrl, Start(starts + 1)) /\ UNCHANGED <<jobs, watchdog>>
    BY <1>1 DEF SendStart, fromNyamy
  <2> QED  BY <2>1, <2>2, SentStep
<1>2. CASE SendExecUserFunc
  <2>1. ExecUserFunc(starts) \in Job /\ ExecUserFunc(starts) # Quit
    BY JobFacts DEF QueueInv
  <2>2. /\ ctrl' = Append(ctrl, ExecUserFunc(starts)) /\ UNCHANGED <<jobs, watchdog>>
        /\ starts' \in 0..MaxStart
    BY <1>2 DEF SendExecUserFunc, fromNyamy, QueueInv
  <2> QED  BY <2>1, <2>2, SentStep
<1>3. CASE ReadCtrl
  BY <1>3, ReadStart, ReadExec
<1>4. CASE LogDropped \/ WatchdogWakes
  <2>1. UNCHANGED <<starts, ctrl, jobs>>
    BY <1>4 DEF LogDropped, WatchdogWakes, ctrlOnly, sentVars
  <2>2. \/ watchdog = "dropping" /\ watchdog' = "reading"
        \/ watchdog = "waiting" /\ watchdog' \in {"over", "logging"}
    BY <1>4 DEF LogDropped, WatchdogWakes
  <2> QED  BY <2>1, <2>2 DEF QueueInv, QueueOK, StartGoesFirst
<1>5. CASE EndOfCtrl
  <2>1. jobs' = Append(jobs, Quit) /\ watchdog' = "waiting" /\ UNCHANGED <<starts, ctrl>>
    BY <1>5 DEF EndOfCtrl, ctrlOnly, sentVars
  <2> QED  BY <2>1, QuitQueued
<1>6. CASE PopStart \/ PopExec \/ PopQuit
  <2>1. jobs # <<>> /\ jobs' = Tail(jobs) /\ UNCHANGED <<starts, ctrl, watchdog>>
    BY <1>6 DEF PopStart, PopExec, PopQuit, scriptOnly, sentVars, ctrlVars
  <2> QED  BY <2>1, JobTaken
<1>7. CASE UNCHANGED <<starts, ctrl, jobs, watchdog>>
  BY <1>7 DEF QueueInv, QueueOK, StartGoesFirst
<1>8. CASE CloseCtrl \/ StopReaders \/ ForceStop \/ WatchdogTerminates \/ Exit
           \/ Crash \/ ReadMsg \/ EndOfMsgs
  <2>1. UNCHANGED <<starts, ctrl, jobs, watchdog>>
    BY <1>8 DEF CloseCtrl, StopReaders, ForceStop, WatchdogTerminates, Exit, Crash,
                ReadMsg, EndOfMsgs, fromNyamy, ctrlOnly, sentVars, ctrlVars
  <2> QED  BY <1>7, <2>1
<1>9. CASE Load \/ WriteFlush \/ GiveUpFlush \/ EndFlush \/ WriteKeySeq \/ EndExec \/ Log
  <2>1. UNCHANGED <<starts, ctrl, jobs, watchdog>>
    BY <1>9 DEF Load, WriteFlush, GiveUpFlush, EndFlush, WriteKeySeq, EndExec, Log,
                scriptOnly, sentVars, ctrlVars
  <2> QED  BY <1>7, <2>1
<1>10. CASE CmdReset \/ CmdCommit \/ ReadId \/ CmdDef \/ CmdExecKeySeq \/ EndOfData
            \/ NyamyDies \/ TakeSetting \/ EngineTakes
  <2>1. UNCHANGED <<starts, ctrl, jobs, watchdog>>
    BY <1>10 DEF CmdReset, CmdCommit, ReadId, CmdDef, CmdExecKeySeq, EndOfData,
                 NyamyDies, TakeSetting, EngineTakes, readOnly, sentVars, ctrlVars
  <2> QED  BY <1>7, <2>1
<1>11. CASE UNCHANGED vars
  BY <1>7, <1>11 DEF vars, sentVars, ctrlVars
<1> QED
  BY <1>1, <1>2, <1>3, <1>4, <1>5, <1>6, <1>8, <1>9, <1>10, <1>11 DEF Next, Watchdog

-----------------------------------------------------------------------------
(* Parts of a Setting and pieces of the data stream. *)

\* Part(n, k) is a Block, is never None, and grows by one definition at a time.
LEMMA PartFacts ==
  ASSUME NEW n \in 1..MaxStart, NEW k \in 0..Defs
  PROVE  /\ Part(n, k) \in Blocks
         /\ Part(n, k) # None
         /\ Part(n, 0) = <<>>
         /\ k < Defs => Append(Part(n, k), n) = Part(n, k + 1)
<1> USE BoundsAssumption
<1>1. Part(n, k) \in Blocks  BY DEF Part, Blocks
<1>2. Part(n, k) # None
  <2> SUFFICES ASSUME Part(n, k) = None PROVE FALSE  OBVIOUS
  <2>1. DOMAIN None = 1..1 /\ None[1] = 0  BY DEF None, NoLoad
  <2>2. DOMAIN Part(n, k) = 1..k  BY DEF Part
  <2>3. k = 1  BY <2>1, <2>2
  <2>4. Part(n, k)[1] = n  BY <2>3 DEF Part
  <2> QED  BY <2>1, <2>4
<1>3. Part(n, 0) = <<>>
  <2>1. 1..0 = {}  OBVIOUS
  <2> QED  BY <2>1 DEF Part
<1>4. ASSUME k < Defs PROVE Append(Part(n, k), n) = Part(n, k + 1)
  <2> DEFINE a == Append(Part(n, k), n)
             b == Part(n, k + 1)
  <2>1. Part(n, k) \in Seq(Nat) /\ Len(Part(n, k)) = k  BY DEF Part
  <2>2. /\ a \in Seq(Nat) /\ Len(a) = k + 1 /\ a[k + 1] = n
        /\ \A i \in 1..k : a[i] = Part(n, k)[i]
    BY <2>1, AppendProperties
  <2>3. b \in Seq(Nat) /\ Len(b) = k + 1  BY DEF Part
  <2>4. \A i \in 1..(k + 1) : b[i] = n  BY DEF Part
  <2>5. \A i \in 1..k : Part(n, k)[i] = n  BY DEF Part
  <2>6. \A i \in 1..(k + 1) : a[i] = b[i]
    <3>1. \A i \in 1..(k + 1) : i \in 1..k \/ i = k + 1  OBVIOUS
    <3> HIDE DEF a, b
    <3> QED  BY <2>2, <2>4, <2>5, <3>1
  <2> HIDE DEF a, b
  <2>7. a = b  BY <2>2, <2>3, <2>6, SeqEqual
  <2> QED  BY <2>7 DEF a, b
<1> QED  BY <1>1, <1>2, <1>3, <1>4

\* A Setting in the making has no load 0, so it is never None.
LEMMA BlockNotNone == \A b \in Blocks : b # None
<1> USE BoundsAssumption
<1> SUFFICES ASSUME None \in Blocks PROVE FALSE  OBVIOUS
<1>1. PICK k \in 0..Defs : None \in [1..k -> 1..MaxStart]  BY DEF Blocks
<1>2. DOMAIN None = 1..1 /\ None[1] = 0  BY DEF None, NoLoad
<1>3. 1..k = 1..1  BY <1>1, <1>2
<1>4. 1 \in 1..k  BY <1>3
<1>5. None[1] \in 1..MaxStart  BY <1>1, <1>4
<1> QED  BY <1>2, <1>5

\* What a flush writes, by position.
LEMMA FlushPieces ==
  ASSUME NEW n
  PROVE  /\ Len(Flush(n)) = 2 * Defs + 2
         /\ Flush(n)[1] = Id("Reset")
         /\ \A d \in 1..Defs : Flush(n)[2 * d] = Id("Def")
         /\ \A d \in 1..Defs : Flush(n)[2 * d + 1] = Payload(n)
         /\ Flush(n)[2 * Defs + 2] = Id("Commit")
<1> USE BoundsAssumption
<1> DEFINE L == 2 * Defs + 2
           at(i) == CASE i = 1 -> Id("Reset")
                      [] i = L -> Id("Commit")
                      [] \E d \in 1..Defs : i = 2 * d -> Id("Def")
                      [] \E d \in 1..Defs : i = 2 * d + 1 -> Payload(n)
<1>1. Flush(n) = [i \in 1..L |-> at(i)]  BY DEF Flush
<1>2. L \in Nat  OBVIOUS
<1>3. at(1) = Id("Reset")  OBVIOUS
<1>4. at(L) = Id("Commit")
  <2>1. L # 1 /\ L = L /\ \A d \in 1..Defs : L # 2 * d /\ L # 2 * d + 1  OBVIOUS
  <2> HIDE DEF L
  <2> QED  BY <2>1
<1>5. ASSUME NEW d \in 1..Defs
      PROVE  at(2 * d) = Id("Def") /\ at(2 * d + 1) = Payload(n)
  <2>1. 2 * d # 1 /\ 2 * d # L /\ \A c \in 1..Defs : 2 * d # 2 * c + 1  OBVIOUS
  <2>2. 2 * d + 1 # 1 /\ 2 * d + 1 # L /\ \A c \in 1..Defs : 2 * d + 1 # 2 * c  OBVIOUS
  <2>3. at(2 * d) = Id("Def")
    <3> HIDE DEF L
    <3> QED  BY <2>1
  <2>4. at(2 * d + 1) = Payload(n)
    <3> HIDE DEF L
    <3> QED  BY <2>2
  <2> QED  BY <2>3, <2>4
<1>6. /\ 1 \in 1..L /\ L \in 1..L
      /\ \A d \in 1..Defs : 2 * d \in 1..L /\ 2 * d + 1 \in 1..L
  OBVIOUS
<1> HIDE DEF L, at
<1>7. Len(Flush(n)) = L  BY <1>1, <1>2
<1>8. \A i \in 1..L : Flush(n)[i] = at(i)  BY <1>1
<1>9. Flush(n)[1] = Id("Reset") /\ Flush(n)[L] = Id("Commit")
  BY <1>3, <1>4, <1>6, <1>8
<1>10. \A d \in 1..Defs : Flush(n)[2 * d] = Id("Def") /\ Flush(n)[2 * d + 1] = Payload(n)
  BY <1>5, <1>6, <1>8
<1> QED  BY <1>7, <1>9, <1>10 DEF L

\* A payload is no command, and the commands differ.
LEMMA PieceFacts ==
  /\ \A c : Id(c).id = c
  /\ \A n : Payload(n).id = "payload" /\ Payload(n).load = n
  /\ \A c \in {"Reset", "Def", "Commit", "ExecKeySeq"} : Id(c) \in Piece
  /\ \A n \in 1..MaxStart : Payload(n) \in Piece
BY DEF Id, Payload, Piece

-----------------------------------------------------------------------------
\* What a stage is made of.
LEMMA StageFacts ==
  /\ \A r, b, c : /\ StageOf(r, b, c).reading = r
                  /\ StageOf(r, b, c).block = b
                  /\ StageOf(r, b, c).committed = c
  /\ \A s \in Stage : /\ s.reading \in {"none", "Def", "ExecKeySeq"}
                      /\ s.block \in Blocks \cup {None}
                      /\ s.committed \in {None} \cup {Whole(n) : n \in 1..MaxStart}
  /\ \A r \in {"none", "Def", "ExecKeySeq"}, b \in Blocks \cup {None},
        c \in {None} \cup {Whole(n) : n \in 1..MaxStart} : StageOf(r, b, c) \in Stage
BY DEF Stage, StageOf

\* The script writes a piece that leads from where the stream was to where it is.
LEMMA Appended ==
  ASSUME data \in Seq(Piece), NEW run, Stages(run), NEW p \in Piece, NEW t \in Stage,
         data' = Append(data, p), UNCHANGED <<readerVars, failed>>,
         Reads(run[Len(data)], p, t), Written(t)'
  PROVE  Stream'
<1>0. PICK n \in Nat : n = Len(data)  OBVIOUS
<1>1. /\ data' \in Seq(Piece) /\ Len(data') = n + 1
      /\ \A i \in 1..n : data'[i] = data[i]
      /\ data'[n + 1] = p
  BY <1>0, AppendProperties
<1>2. /\ run \in [0..n -> Stage] /\ run[0] = Now
      /\ \A i \in 1..n : Reads(run[i - 1], data[i], run[i])
  BY <1>0 DEF Stages
<1>3. PICK new : /\ new \in [0..(n + 1) -> Stage]
                 /\ \A i \in 0..n : new[i] = run[i]
                 /\ new[n + 1] = t
  <2> DEFINE f == [i \in 0..(n + 1) |-> IF i = n + 1 THEN t ELSE run[i]]
  <2>1. /\ f \in [0..(n + 1) -> Stage]
        /\ \A i \in 0..n : f[i] = run[i]
        /\ f[n + 1] = t
    BY <1>2
  <2> HIDE DEF f
  <2> QED  BY <2>1
<1>4. Now' = Now  BY DEF Now, readerVars
<1>5. \A r, q, u : Reads(r, q, u)' <=> Reads(r, q, u)  BY DEF Reads
<1>6. ASSUME NEW i \in 1..(n + 1) PROVE Reads(new[i - 1], data'[i], new[i])
  <2>1. CASE i \in 1..n
    <3>1. new[i - 1] = run[i - 1] /\ new[i] = run[i] /\ data'[i] = data[i]
      BY <1>1, <1>3, <2>1
    <3> QED  BY <1>2, <2>1, <3>1
  <2>2. CASE i = n + 1
    <3>1. new[i - 1] = run[n] /\ new[i] = t /\ data'[i] = p  BY <1>1, <1>3, <2>2
    <3> QED  BY <1>0, <3>1
  <2> QED  BY <1>0, <2>1, <2>2
<1>7. Stages(new)'
  <2>1. (new \in [0..Len(data) -> Stage])'  BY <1>1, <1>3
  <2>2. (new[0] = Now)'  BY <1>1, <1>2, <1>3, <1>4
  <2>3. (\A i \in 1..Len(data) : Reads(new[i - 1], data[i], new[i]))'
    BY <1>1, <1>5, <1>6
  <2>4. Written(new[Len(data)])'  BY <1>1, <1>3
  <2> QED  BY <2>1, <2>2, <2>3, <2>4 DEF Stages
<1> QED  BY <1>7 DEF Stream

\* The next piece leads the reader to the next stage.
LEMMA NextStage ==
  ASSUME data \in Seq(Piece), NEW run, Stages(run), data # <<>>
  PROVE  run[1] \in Stage /\ Reads(Now, Head(data), run[1])
<1>1. 1 \in 1..Len(data) /\ 1 \in 0..Len(data) /\ Head(data) = data[1]  OBVIOUS
<1>2. Reads(run[1 - 1], data[1], run[1])  BY <1>1 DEF Stages
<1>3. 1 - 1 = 0  OBVIOUS
<1> QED  BY <1>1, <1>2, <1>3 DEF Stages

\* The reader takes the first piece and is where it leads.
LEMMA Consumed ==
  ASSUME data \in Seq(Piece), NEW run, Stages(run), data # <<>>, data' = Tail(data),
         Now' = run[1], UNCHANGED <<script, loaded, step, failed>>
  PROVE  Stream'
<1>0. PICK n \in Nat \ {0} : n = Len(data)  OBVIOUS
<1>1. /\ data' \in Seq(Piece) /\ Len(data') = n - 1
      /\ \A i \in 1..(n - 1) : data'[i] = data[i + 1]
  BY <1>0, HeadTailProperties
<1>2. /\ run \in [0..n -> Stage]
      /\ \A i \in 1..n : Reads(run[i - 1], data[i], run[i])
      /\ Written(run[n])
  BY <1>0 DEF Stages
<1>3. PICK new : /\ new \in [0..(n - 1) -> Stage]
                 /\ \A i \in 0..(n - 1) : new[i] = run[i + 1]
  <2> DEFINE f == [i \in 0..(n - 1) |-> run[i + 1]]
  <2>1. f \in [0..(n - 1) -> Stage] /\ \A i \in 0..(n - 1) : f[i] = run[i + 1]
    BY <1>2
  <2> HIDE DEF f
  <2> QED  BY <2>1
<1>4. \A r, q, u : Reads(r, q, u)' <=> Reads(r, q, u)  BY DEF Reads
<1>5. \A r : Written(r)' <=> Written(r)  BY DEF Written
<1>6. ASSUME NEW i \in 1..(n - 1) PROVE Reads(new[i - 1], data'[i], new[i])
  <2>1. new[i - 1] = run[i] /\ new[i] = run[i + 1] /\ data'[i] = data[i + 1]
    BY <1>1, <1>3
  <2>2. i + 1 \in 1..n /\ (i + 1) - 1 = i  BY <1>1
  <2> QED  BY <1>2, <2>1, <2>2
<1>7. 0 \in 0..(n - 1) /\ n - 1 \in 0..(n - 1) /\ (n - 1) + 1 = n  BY <1>1
<1>8. new[0] = run[1] /\ new[n - 1] = run[n]  BY <1>3, <1>7
<1>9. Stages(new)'
  <2>1. (new \in [0..Len(data) -> Stage])'  BY <1>1, <1>3
  <2>2. (new[0] = Now)'  BY <1>8
  <2>3. (\A i \in 1..Len(data) : Reads(new[i - 1], data[i], new[i]))'
    BY <1>1, <1>4, <1>6
  <2>4. Written(new[Len(data)])'  BY <1>1, <1>2, <1>5, <1>8
  <2> QED  BY <2>1, <2>2, <2>3, <2>4 DEF Stages
<1> QED  BY <1>9 DEF Stream

\* The script thread goes on without writing anything.
LEMMA Unwritten ==
  ASSUME StreamInv, UNCHANGED <<data, readerVars, nyamy>>, failed \subseteq failed',
         Up => \A s \in Stage : Written(s) => Written(s)'
  PROVE  StreamInv'
<1>1. Now' = Now  BY DEF Now, readerVars
<1>2. ASSUME Up PROVE Stream'
  <2>1. PICK run : Stages(run)  BY <1>2 DEF StreamInv, Stream
  <2>2. \A r, q, u : Reads(r, q, u) => Reads(r, q, u)'  BY DEF Reads
  <2>3. Len(data) \in Nat  BY DEF StreamInv
  <2>4. run[Len(data)] \in Stage  BY <2>1, <2>3 DEF Stages
  <2>5. Written(run[Len(data)])'  BY <1>2, <2>1, <2>4 DEF Stages
  <2>6. Stages(run)'  BY <1>1, <2>1, <2>2, <2>5 DEF Stages
  <2> QED  BY <2>6 DEF Stream
<1>3. ASSUME ~Up PROVE Stream'  BY <1>3 DEF Stream, Up
<1> QED  BY <1>1, <1>2, <1>3 DEF StreamInv

-----------------------------------------------------------------------------
(* The script thread's steps. *)

\* A piece is written, or nyamy is gone and it goes nowhere.
LEMMA PieceWritten ==
  ASSUME StreamInv, NEW p, Write(p), UNCHANGED <<readerVars, failed, nyamy>>,
         ASSUME Up, NEW s \in Stage, Written(s)
         PROVE  p \in Piece /\ \E t \in Stage : Reads(s, p, t) /\ Written(t)'
  PROVE  StreamInv'
<1>1. data \in Seq(Piece) /\ Len(data) <= DataCap /\ Len(data) \in Nat  BY DEF StreamInv
<1>2. CASE Up
  <2>1. data' = Append(data, p) /\ Len(data) < DataCap  BY <1>2 DEF Write
  <2>2. PICK run : Stages(run)  BY <1>2 DEF StreamInv, Stream
  <2>3. run[Len(data)] \in Stage /\ Written(run[Len(data)])  BY <1>1, <2>2 DEF Stages
  <2>4. PICK t \in Stage : p \in Piece /\ Reads(run[Len(data)], p, t) /\ Written(t)'
    BY <1>2, <2>3
  <2>5. data' \in Seq(Piece) /\ Len(data') = Len(data) + 1
    BY <1>1, <2>1, <2>4, AppendProperties
  <2>6. Len(data') <= DataCap  BY <1>1, <2>1, <2>5, BoundsAssumption
  <2>7. UNCHANGED <<readerVars, failed>>  OBVIOUS
  <2>8. Stream'  BY <1>1, <2>1, <2>2, <2>4, <2>7, Appended
  <2>9. Now' = Now  BY DEF Now, readerVars
  <2> QED  BY <2>5, <2>6, <2>8, <2>9 DEF StreamInv
<1>3. CASE ~Up
  <2>1. data' = data  BY <1>3 DEF Write
  <2>2. Now' = Now  BY DEF Now, readerVars
  <2> QED  BY <1>3, <2>1, <2>2 DEF StreamInv, Stream, Up
<1> QED  BY <1>2, <1>3

\* Where a flush is, given how many pieces are written.
LEMMA FlushAt ==
  ASSUME ScriptInv, script = "flush", NEW s \in Stage, Written(s)
  PROVE  /\ loaded \in 1..MaxStart
         /\ \/ step = 0 /\ s.reading = "none"
            \/ \E k \in 0..Defs :
                 step = 2 * k + 1 /\ s.reading = "none" /\ s.block = Part(loaded, k)
            \/ \E k \in 0..(Defs - 1) :
                 step = 2 * k + 2 /\ s.reading = "Def" /\ s.block = Part(loaded, k)
            \/ step = 2 * Defs + 2 /\ s.reading = "none" /\ s.committed = Whole(loaded)
<1>1. loaded \in 1..MaxStart  BY BoundsAssumption DEF ScriptInv, ScriptOK, NoLoad
<1> QED  BY <1>1 DEF Written

\* The flush writes Reset, a definition and its payload at a time, and Commit.
LEMMA FlushStep ==
  ASSUME ScriptInv, StreamInv, WriteFlush
  PROVE  ScriptInv' /\ StreamInv'
<1> USE BoundsAssumption
<1> DEFINE p == Flush(loaded)[step + 1]
<1>1. /\ script = "flush" /\ step < Len(Flush(loaded)) /\ Write(p)
      /\ step' = step + 1
      /\ UNCHANGED <<script, loaded, keySeqs, failed, readerVars, nyamy>>
  BY DEF WriteFlush, scriptOnly
<1>2. step < 2 * Defs + 2 /\ step \in Nat  BY <1>1, FlushPieces DEF ScriptInv
<1>3. ScriptInv'  BY <1>1, <1>2 DEF ScriptInv, ScriptOK
<1>4. loaded \in 1..MaxStart  BY <1>1 DEF ScriptInv, ScriptOK, NoLoad
<1>5. PICK n \in 1..MaxStart : n = loaded  BY <1>4
<1>6. ASSUME Up, NEW s \in Stage, Written(s)
      PROVE  p \in Piece /\ \E t \in Stage : Reads(s, p, t) /\ Written(t)'
  <2>1. CASE step = 0 /\ s.reading = "none"
    <3> DEFINE t == StageOf("none", Part(n, 0), s.committed)
    <3>1. p = Id("Reset")  BY <2>1, FlushPieces
    <3>2. Part(n, 0) = <<>> /\ Part(n, 0) \in Blocks
      <4>1. 0 \in 0..Defs  OBVIOUS
      <4> QED  BY <4>1, PartFacts
    <3>3. t \in Stage /\ p \in Piece  BY <3>1, <3>2, StageFacts, PieceFacts
    <3>4. Reads(s, p, t)  BY <2>1, <3>1, <3>2 DEF Reads
    <3>5. Written(t)'
      <4>1. step' = 2 * 0 + 1  BY <1>1, <2>1
      <4> QED  BY <1>1, <1>5, <3>2, <4>1, StageFacts DEF Written
    <3> QED  BY <3>3, <3>4, <3>5
  <2>2. ASSUME NEW k \in 0..(Defs - 1), step = 2 * k + 1, s.reading = "none",
               s.block = Part(loaded, k)
        PROVE  p \in Piece /\ \E t \in Stage : Reads(s, p, t) /\ Written(t)'
    <3> DEFINE t == StageOf("Def", s.block, s.committed)
    <3>1. p = Id("Def")
      <4>1. k + 1 \in 1..Defs /\ step + 1 = 2 * (k + 1)  BY <2>2
      <4> QED  BY <4>1, FlushPieces
    <3>2. t \in Stage /\ p \in Piece  BY <3>1, StageFacts, PieceFacts
    <3>3. Reads(s, p, t)  BY <2>2, <3>1 DEF Reads
    <3>4. Written(t)'
      <4>1. step' = 2 * k + 2  BY <1>1, <2>2
      <4> QED  BY <1>1, <2>2, <4>1, StageFacts DEF Written
    <3> QED  BY <3>2, <3>3, <3>4
  <2>3. CASE step = 2 * Defs + 1 /\ s.reading = "none" /\ s.block = Part(loaded, Defs)
    <3> DEFINE t == StageOf("none", None, Whole(n))
    <3>1. p = Id("Commit")
      <4>1. step + 1 = 2 * Defs + 2  BY <2>3
      <4> QED  BY <4>1, FlushPieces
    <3>2. t \in Stage /\ p \in Piece  BY <3>1, StageFacts, PieceFacts
    <3>3. Reads(s, p, t)  BY <1>5, <2>3, <3>1 DEF Reads, Whole
    <3>4. Written(t)'
      <4>1. step' = 2 * Defs + 2  BY <1>1, <2>3
      <4> QED  BY <1>1, <1>5, <4>1, StageFacts DEF Written
    <3> QED  BY <3>2, <3>3, <3>4
  <2>4. ASSUME NEW k \in 0..(Defs - 1), step = 2 * k + 2, s.reading = "Def",
               s.block = Part(loaded, k)
        PROVE  p \in Piece /\ \E t \in Stage : Reads(s, p, t) /\ Written(t)'
    <3> DEFINE t == StageOf("none", Part(n, k + 1), s.committed)
    <3>1. p = Payload(loaded)
      <4>1. k + 1 \in 1..Defs /\ step + 1 = 2 * (k + 1) + 1  BY <2>4
      <4> QED  BY <4>1, FlushPieces
    <3>2. k + 1 \in 0..Defs  OBVIOUS
    <3>3. t \in Stage /\ p \in Piece
      <4>1. Part(n, k + 1) \in Blocks  BY <3>2, PartFacts
      <4>2. s.committed \in {None} \cup {Whole(m) : m \in 1..MaxStart}  BY StageFacts
      <4>3. t \in Stage  BY <4>1, <4>2, StageFacts
      <4> QED  BY <1>4, <3>1, <4>3, PieceFacts
    <3>4. Reads(s, p, t)  BY <1>5, <2>4, <3>1 DEF Reads
    <3>5. Written(t)'
      <4>1. step' = 2 * (k + 1) + 1  BY <1>1, <2>4
      <4> QED  BY <1>1, <1>5, <3>2, <4>1, StageFacts DEF Written
    <3> QED  BY <3>3, <3>4, <3>5
  <2>5. \/ step = 0 /\ s.reading = "none"
        \/ \E k \in 0..Defs :
             step = 2 * k + 1 /\ s.reading = "none" /\ s.block = Part(loaded, k)
        \/ \E k \in 0..(Defs - 1) :
             step = 2 * k + 2 /\ s.reading = "Def" /\ s.block = Part(loaded, k)
    BY <1>1, <1>2, <1>6, FlushAt
  <2>6. \A k \in 0..Defs : k = Defs \/ k \in 0..(Defs - 1)  OBVIOUS
  <2> HIDE DEF p
  <2> QED  BY <2>1, <2>2, <2>3, <2>4, <2>5, <2>6
<1> HIDE DEF p
<1>7. StreamInv'  BY <1>1, <1>6, PieceWritten
<1> QED  BY <1>3, <1>7

\* A user function writes one of its key sequences.
LEMMA KeySeqStep ==
  ASSUME ScriptInv, StreamInv, WriteKeySeq
  PROVE  ScriptInv' /\ StreamInv'
<1> USE BoundsAssumption
<1> DEFINE p == ExecKeySeq(loaded)[step + 1]
<1>1. /\ script = "exec" /\ Write(p) /\ step' = 1 - step
      /\ step = 0 => keySeqs < MaxKeySeq
      /\ keySeqs' = IF step = 0 THEN keySeqs + 1 ELSE keySeqs
      /\ UNCHANGED <<script, loaded, failed, readerVars, nyamy>>
  BY DEF WriteKeySeq, scriptOnly
<1>2. loaded \in 1..MaxStart /\ loaded # NoLoad /\ step \in 0..1
  BY <1>1 DEF ScriptInv, ScriptOK, NoLoad
<1>3. ScriptInv'  BY <1>1, <1>2 DEF ScriptInv, ScriptOK
<1>4. /\ step = 0 => p = Id("ExecKeySeq")
      /\ step = 1 => p = Payload(loaded)
  BY DEF ExecKeySeq
<1> HIDE DEF p
<1>5. p \in Piece  BY <1>2, <1>4, PieceFacts
<1>6. ASSUME Up, NEW s \in Stage, Written(s)
      PROVE  p \in Piece /\ \E t \in Stage : Reads(s, p, t) /\ Written(t)'
  <2>1. loaded \notin failed => s.committed = Whole(loaded)
    BY <1>1, <1>2, <1>6 DEF Written
  <2>2. ASSUME step = 0 PROVE \E t \in Stage : Reads(s, p, t) /\ Written(t)'
    <3> DEFINE t == StageOf("ExecKeySeq", s.block, s.committed)
    <3>1. s.reading = "none"  BY <1>1, <1>6, <2>2 DEF Written
    <3>2. t \in Stage  BY StageFacts
    <3>3. Reads(s, p, t)  BY <1>4, <2>2, <3>1 DEF Reads
    <3>4. Written(t)'  BY <1>1, <2>1, <2>2, StageFacts DEF Written
    <3> QED  BY <3>2, <3>3, <3>4
  <2>3. ASSUME step = 1 PROVE \E t \in Stage : Reads(s, p, t) /\ Written(t)'
    <3> DEFINE t == StageOf("none", s.block, s.committed)
    <3>1. s.reading = "ExecKeySeq"  BY <1>1, <1>6, <2>3 DEF Written
    <3>2. t \in Stage  BY StageFacts
    <3>3. Reads(s, p, t)  BY <1>2, <1>4, <2>1, <2>3, <3>1 DEF Reads
    <3>4. Written(t)'  BY <1>1, <2>1, <2>3, StageFacts DEF Written
    <3> QED  BY <3>2, <3>3, <3>4
  <2> QED  BY <1>2, <1>5, <2>2, <2>3
<1>7. StreamInv'  BY <1>1, <1>6, PieceWritten
<1> QED  BY <1>3, <1>7

\* A flush that is given up, or is done, leaves no command half written.
LEMMA FlushEnds ==
  ASSUME ScriptInv, StreamInv, GiveUpFlush \/ EndFlush
  PROVE  ScriptInv' /\ StreamInv'
<1> USE BoundsAssumption
<1>1. /\ script = "flush" /\ script' = "pop" /\ step' = 0
      /\ UNCHANGED <<loaded, keySeqs, data, readerVars, nyamy>>
      /\ failed \subseteq failed'
  BY DEF GiveUpFlush, EndFlush, scriptOnly
<1>2. loaded \in 1..MaxStart /\ step \in Nat
  BY <1>1 DEF ScriptInv, ScriptOK, NoLoad
<1>3. failed' \subseteq 1..MaxStart
  BY <1>2 DEF GiveUpFlush, EndFlush, ScriptInv
<1>4. ScriptInv'  BY <1>1, <1>3 DEF ScriptInv, ScriptOK
<1>5. ASSUME NEW s \in Stage, Written(s) PROVE Written(s)'
  <2>1. CASE GiveUpFlush
    <3>1. step # 0 /\ step < 2 * Defs + 2 /\ Flush(loaded)[step + 1].id # "payload"
      BY <1>2, <2>1, FlushPieces DEF GiveUpFlush
    <3>2. ASSUME NEW k \in 0..(Defs - 1), step = 2 * k + 2 PROVE FALSE
      <4>1. k + 1 \in 1..Defs /\ step + 1 = 2 * (k + 1) + 1  BY <3>2
      <4>2. Flush(loaded)[step + 1] = Payload(loaded)  BY <4>1, FlushPieces
      <4> QED  BY <3>1, <4>2, PieceFacts
    <3>3. s.reading = "none"  BY <1>1, <1>5, <3>1, <3>2, FlushAt
    <3>4. loaded \in failed'  BY <2>1 DEF GiveUpFlush
    <3> QED  BY <1>1, <3>3, <3>4 DEF Written
  <2>2. CASE EndFlush
    <3>1. step = 2 * Defs + 2  BY <2>2, FlushPieces DEF EndFlush
    <3>2. /\ \A k \in 0..Defs : step # 2 * k + 1
          /\ \A k \in 0..(Defs - 1) : step # 2 * k + 2
          /\ step # 0
      BY <3>1
    <3>3. s.reading = "none" /\ s.committed = Whole(loaded)
      BY <1>1, <1>5, <3>2, FlushAt
    <3> QED  BY <1>1, <3>3 DEF Written
  <2> QED  BY <2>1, <2>2
<1>6. StreamInv'  BY <1>1, <1>5, Unwritten
<1> QED  BY <1>4, <1>6

\* The script thread takes a job, loads, or returns from a user function.
LEMMA ScriptGoesOn ==
  ASSUME QueueInv, ScriptInv, StreamInv,
         PopStart \/ PopExec \/ PopQuit \/ Load \/ EndExec
  PROVE  ScriptInv' /\ StreamInv'
<1> USE BoundsAssumption
<1>1. UNCHANGED <<data, readerVars, nyamy, failed, keySeqs, step>>
  BY DEF PopStart, PopExec, PopQuit, Load, EndExec, scriptOnly
<1>2. CASE PopStart
  <2>1. /\ script = "pop" /\ script' = "load" /\ loaded' = Head(jobs).load
        /\ jobs # <<>> /\ Head(jobs).type = "Start"
    BY <1>2 DEF PopStart
  <2>2. Head(jobs) \in Job  BY <2>1 DEF QueueInv
  <2>3. loaded' \in 1..MaxStart  BY <2>1, <2>2, JobFacts
  <2>4. ScriptInv'  BY <1>1, <2>1, <2>3 DEF ScriptInv, ScriptOK, NoLoad
  <2>5. \A s \in Stage : Written(s) => Written(s)'  BY <2>1 DEF Written
  <2> QED  BY <1>1, <2>4, <2>5, Unwritten
<1>3. CASE PopExec
  <2>1. /\ script = "pop" /\ script' = IF loaded = NoLoad THEN "pop" ELSE "exec"
        /\ loaded' = loaded
    BY <1>3 DEF PopExec
  <2>2. step = 0  BY <2>1 DEF ScriptInv, ScriptOK
  <2>3. ScriptInv'  BY <1>1, <2>1, <2>2 DEF ScriptInv, ScriptOK
  <2>4. \A s \in Stage : Written(s) => Written(s)'  BY <1>1, <2>1, <2>2 DEF Written
  <2> QED  BY <1>1, <2>3, <2>4, Unwritten
<1>4. CASE PopQuit
  <2>1. script = "pop" /\ script' = "done" /\ loaded' = loaded  BY <1>4 DEF PopQuit
  <2>2. ScriptInv'  BY <1>1, <2>1 DEF ScriptInv, ScriptOK
  <2>3. \A s \in Stage : Written(s) => Written(s)'  BY <2>1 DEF Written
  <2> QED  BY <1>1, <2>2, <2>3, Unwritten
<1>5. CASE Load
  <2>1. /\ script = "load"
        /\ \/ script' = "flush" /\ loaded' = loaded
           \/ script' = "pop" /\ loaded' = NoLoad
    BY <1>5 DEF Load
  <2>2. step = 0  BY <2>1 DEF ScriptInv, ScriptOK
  <2>3. ScriptInv'  BY <1>1, <2>1, <2>2 DEF ScriptInv, ScriptOK, NoLoad
  <2>4. \A s \in Stage : Written(s) => Written(s)'  BY <1>1, <2>1, <2>2 DEF Written
  <2> QED  BY <1>1, <2>3, <2>4, Unwritten
<1>6. CASE EndExec
  <2>1. script = "exec" /\ script' = "pop" /\ step = 0 /\ loaded' = loaded
    BY <1>6 DEF EndExec
  <2>2. ScriptInv'  BY <1>1, <2>1 DEF ScriptInv, ScriptOK
  <2>3. \A s \in Stage : Written(s) => Written(s)'  BY <1>1, <2>1 DEF Written
  <2> QED  BY <1>1, <2>2, <2>3, Unwritten
<1> QED  BY <1>2, <1>3, <1>4, <1>5, <1>6

-----------------------------------------------------------------------------
(* The reader's steps. *)

\* A step of the reader that goes where the piece leads.
LEMMA PieceRead ==
  ASSUME StreamInv, Up, data # <<>>, data' = Tail(data),
         UNCHANGED <<script, loaded, step, failed, nyamy>>,
         \A t \in Stage : Reads(Now, Head(data), t) => Now' = t
  PROVE  StreamInv'
<1>1. data \in Seq(Piece) /\ Len(data) <= DataCap  BY DEF StreamInv
<1>2. PICK run : Stages(run)  BY DEF StreamInv, Stream
<1>3. run[1] \in Stage /\ Reads(Now, Head(data), run[1])  BY <1>1, <1>2, NextStage
<1>4. Now' = run[1]  BY <1>3
<1>5. Stream'  BY <1>1, <1>2, <1>4, Consumed
<1>6. data' \in Seq(Piece) /\ Len(data') = Len(data) - 1  BY <1>1, HeadTailProperties
<1>7. Len(data') <= DataCap  BY <1>1, <1>6, BoundsAssumption
<1> QED  BY <1>3, <1>4, <1>5, <1>6, <1>7 DEF StreamInv

\* What the pieces lead to, one by one.
LEMMA ReadsTo ==
  ASSUME NEW s, NEW t
  PROVE  /\ Reads(s, Id("Reset"), t) => t = StageOf("none", <<>>, s.committed)
         /\ Reads(s, Id("Def"), t) => t = StageOf("Def", s.block, s.committed)
         /\ Reads(s, Id("ExecKeySeq"), t) => t = StageOf("ExecKeySeq", s.block, s.committed)
         /\ Reads(s, Id("Commit"), t) =>
              \E n \in 1..MaxStart : s.block = Whole(n) /\ t = StageOf("none", None, Whole(n))
BY DEF Reads, Id, Payload

\* A payload is of the command that was read last.
LEMMA PayloadOf ==
  ASSUME NEW s, NEW p, NEW t, Reads(s, p, t)
  PROVE  /\ s.reading = "Def" =>
              \E n \in 1..MaxStart, k \in 0..(Defs - 1) :
                /\ p = Payload(n) /\ s.block = Part(n, k)
                /\ t = StageOf("none", Part(n, k + 1), s.committed)
         /\ s.reading = "ExecKeySeq" =>
              \E n \in 1..MaxStart :
                /\ p = Payload(n)
                /\ n \in failed \/ s.committed = Whole(n)
                /\ t = StageOf("none", s.block, s.committed)
BY DEF Reads

\* The reader's record of where it is.
LEMMA NowFields ==
  Now.reading = reading /\ Now.block = block /\ Now.committed = committed
BY DEF Now, StageOf

\* Every command and every payload keeps the stream's part of the invariant.
LEMMA ReaderStep ==
  ASSUME StreamInv, CmdReset \/ CmdCommit \/ ReadId \/ CmdDef \/ CmdExecKeySeq
  PROVE  StreamInv'
<1> USE BoundsAssumption
<1>1. /\ Up /\ data # <<>> /\ data' = Tail(data)
      /\ UNCHANGED <<script, loaded, step, failed, nyamy>>
  BY DEF CmdReset, CmdCommit, ReadId, CmdDef, CmdExecKeySeq, Receive, ReceivePayload,
         readOnly, scriptVars
<1>2. ASSUME NEW t \in Stage, Reads(Now, Head(data), t) PROVE Now' = t
  <2>1. CASE CmdReset
    <3>1. /\ Head(data) = Id("Reset") /\ reading' = "none" /\ block' = <<>>
          /\ committed' = committed
      BY <2>1 DEF CmdReset, Receive
    <3> QED  BY <1>2, <3>1, ReadsTo, NowFields DEF Now
  <2>2. CASE CmdCommit
    <3>1. Head(data) = Id("Commit")  BY <2>2 DEF CmdCommit, Receive
    <3>2. PICK n \in 1..MaxStart : block = Whole(n) /\ t = StageOf("none", None, Whole(n))
      BY <1>2, <3>1, ReadsTo, NowFields
    <3>3. block # None
      <4>1. Defs \in 0..Defs  OBVIOUS
      <4> QED  BY <3>2, <4>1, PartFacts DEF Whole
    <3>4. reading' = "none" /\ block' = None /\ committed' = block
      BY <2>2, <3>3 DEF CmdCommit, Receive
    <3> QED  BY <3>2, <3>4 DEF Now
  <2>3. CASE ReadId
    <3>1. PICK id \in {"Def", "ExecKeySeq"} : Head(data) = Id(id) /\ reading' = id
      BY <2>3 DEF ReadId, Receive
    <3>2. UNCHANGED <<block, committed>>  BY <2>3 DEF ReadId
    <3>3. t = StageOf(id, block, committed)  BY <1>2, <3>1, ReadsTo, NowFields
    <3> QED  BY <3>1, <3>2, <3>3 DEF Now
  <2>4. CASE CmdDef
    <3>1. reading = "Def" /\ reading' = "none" /\ committed' = committed
      BY <2>4 DEF CmdDef, ReceivePayload
    <3>2. PICK n \in 1..MaxStart, k \in 0..(Defs - 1) :
            /\ Head(data) = Payload(n) /\ block = Part(n, k)
            /\ t = StageOf("none", Part(n, k + 1), committed)
      BY <1>2, <3>1, PayloadOf, NowFields
    <3>3. block # None /\ Append(block, n) = Part(n, k + 1)
      <4>1. k \in 0..Defs /\ k < Defs  OBVIOUS
      <4> QED  BY <3>2, <4>1, PartFacts
    <3>4. block' = Append(block, n)  BY <2>4, <3>2, <3>3, PieceFacts DEF CmdDef
    <3> QED  BY <3>1, <3>2, <3>3, <3>4 DEF Now
  <2>5. CASE CmdExecKeySeq
    <3>1. reading = "ExecKeySeq" /\ reading' = "none" /\ UNCHANGED <<block, committed>>
      BY <2>5 DEF CmdExecKeySeq, ReceivePayload
    <3>2. t = StageOf("none", block, committed)  BY <1>2, <3>1, PayloadOf, NowFields
    <3> QED  BY <3>1, <3>2 DEF Now
  <2> QED
    <3>1. CmdReset \/ CmdCommit \/ ReadId \/ CmdDef \/ CmdExecKeySeq  OBVIOUS
    <3> QED  BY <2>1, <2>2, <2>3, <2>4, <2>5, <3>1
<1> QED  BY <1>1, <1>2, PieceRead

\* Every step keeps the script's and the stream's part of the invariant.
LEMMA StreamStep ==
  ASSUME QueueInv, ScriptInv, StreamInv, [Next]_vars
  PROVE  ScriptInv' /\ StreamInv'
<1> DEFINE Still == UNCHANGED <<script, loaded, step, keySeqs, failed>>
<1>1. CASE WriteFlush  BY <1>1, FlushStep
<1>2. CASE WriteKeySeq  BY <1>2, KeySeqStep
<1>3. CASE GiveUpFlush \/ EndFlush  BY <1>3, FlushEnds
<1>4. CASE PopStart \/ PopExec \/ PopQuit \/ Load \/ EndExec  BY <1>4, ScriptGoesOn
<1>5. ASSUME Still PROVE ScriptInv'  BY <1>5 DEF ScriptInv, ScriptOK
<1>6. CASE CmdReset \/ CmdCommit \/ ReadId \/ CmdDef \/ CmdExecKeySeq
  <2>1. Still
    BY <1>6 DEF CmdReset, CmdCommit, ReadId, CmdDef, CmdExecKeySeq, readOnly, scriptVars
  <2> QED  BY <1>5, <1>6, <2>1, ReaderStep
<1>7. ASSUME Still, UNCHANGED <<data, reading, block, committed>>,
             \/ nyamy' = nyamy
             \/ nyamy' \in {"gone", "aborted"}
      PROVE  ScriptInv' /\ StreamInv'
  <2>1. CASE nyamy' = nyamy
    <3>1. Now' = Now  BY <1>7 DEF Now
    <3>2. \A s : Written(s) <=> Written(s)'  BY <1>7 DEF Written
    <3>3. \A r, q, u : Reads(r, q, u) <=> Reads(r, q, u)'  BY <1>7 DEF Reads
    <3>4. \A run : Stages(run) => Stages(run)'
      <4> SUFFICES ASSUME NEW run, Stages(run) PROVE Stages(run)'  OBVIOUS
      <4>1. data' = data  BY <1>7
      <4>2. Written(run[Len(data)])'  BY <1>7, <3>2 DEF Stages
      <4> QED  BY <3>1, <3>3, <4>1, <4>2 DEF Stages
    <3>5. Stream'  BY <2>1, <3>4 DEF StreamInv, Stream, Up
    <3> QED  BY <1>5, <1>7, <2>1, <3>1, <3>5 DEF StreamInv
  <2>2. CASE nyamy' \in {"gone", "aborted"}
    <3>1. Now' = Now  BY <1>7 DEF Now
    <3>2. Stream'  BY <2>2 DEF Stream, Up
    <3> QED  BY <1>5, <1>7, <2>2, <3>1, <3>2 DEF StreamInv
  <2> QED  BY <1>7, <2>1, <2>2
<1>8. CASE SendStart \/ SendExecUserFunc \/ CloseCtrl \/ StopReaders \/ ForceStop
           \/ Crash \/ ReadMsg \/ EndOfMsgs
  <2>1. Still /\ UNCHANGED <<data, reading, block, committed, nyamy>>
    BY <1>8 DEF SendStart, SendExecUserFunc, CloseCtrl, StopReaders, ForceStop, Crash,
                ReadMsg, EndOfMsgs, fromNyamy, scriptVars, readerVars
  <2> QED  BY <1>7, <2>1
<1>9. CASE Watchdog \/ Log
  <2>1. Still /\ UNCHANGED <<data, reading, block, committed, nyamy>>
    BY <1>9 DEF Watchdog, ReadCtrl, LogDropped, EndOfCtrl, WatchdogWakes,
                WatchdogTerminates, Exit, Log, ctrlOnly, scriptOnly, scriptVars, readerVars
  <2> QED  BY <1>7, <2>1
<1>10. CASE EndOfData \/ NyamyDies
  <2>1. Still /\ UNCHANGED <<data, reading, block, committed>>
    BY <1>10 DEF EndOfData, NyamyDies, scriptVars, readerVars
  <2>2. nyamy' = nyamy \/ nyamy' \in {"gone", "aborted"}
    BY <1>10 DEF EndOfData, NyamyDies, Up
  <2> QED  BY <1>7, <2>1, <2>2
<1>11. CASE TakeSetting \/ EngineTakes \/ UNCHANGED vars
  <2>1. Still /\ UNCHANGED <<data, reading, block, committed, nyamy>>
    BY <1>11 DEF TakeSetting, EngineTakes, vars, scriptVars, readerVars
  <2> QED  BY <1>7, <2>1
<1> HIDE DEF Still
<1> QED
  BY <1>1, <1>2, <1>3, <1>4, <1>6, <1>8, <1>9, <1>10, <1>11 DEF Next

-----------------------------------------------------------------------------
(* Settings and ad-hoc sequences on their way to the engine. *)

\* An event at the end of the input queue.
LEMMA EventQueued ==
  ASSUME EventInv, NEW e \in Event, events' = Append(events, e),
         (e.type = "AdHoc" /\ e.load \notin failed) => e.origin = Whole(e.load),
         UNCHANGED <<setting, ran, failed>>,
         slot' \in Blocks \cup {None}, posted' \in Nat
  PROVE  EventInv'
<1>1. /\ events' \in Seq(Event) /\ Len(events') = Len(events) + 1 /\ Len(events) \in Nat
      /\ \A i \in 1..Len(events) : events'[i] = events[i]
      /\ events'[Len(events) + 1] = e
  BY AppendProperties DEF EventInv
<1>2. AdHocOwned'
  <2> SUFFICES ASSUME NEW i \in 1..Len(events'),
                      events'[i].type = "AdHoc", events'[i].load \notin failed
               PROVE  events'[i].origin = Whole(events'[i].load)
    BY DEF AdHocOwned
  <2>1. CASE i \in 1..Len(events)
    BY <1>1, <2>1 DEF EventInv, AdHocOwned
  <2>2. CASE i = Len(events) + 1
    BY <1>1, <2>2
  <2> QED  BY <1>1, <2>1, <2>2
<1> QED  BY <1>1, <1>2 DEF EventInv, AdHocInItsSetting

\* The engine takes the first event.
LEMMA EventTaken ==
  ASSUME EventInv, EngineTakes
  PROVE  EventInv'
<1> DEFINE e == Head(events)
<1>1. /\ events # <<>> /\ events' = Tail(events) /\ events \in Seq(Event)
      /\ UNCHANGED <<slot, posted, failed>>
  BY DEF EngineTakes, EventInv, slotVars, scriptVars
<1>2. /\ e \in Event /\ events' \in Seq(Event) /\ Len(events') = Len(events) - 1
      /\ \A i \in 1..Len(events') : events'[i] = events[i + 1]
  BY <1>1, HeadTailProperties
<1>3. AdHocOwned'
  <2>1. \A i \in 1..Len(events') : i + 1 \in 1..Len(events)  BY <1>1, <1>2
  <2> QED  BY <1>1, <1>2, <2>1 DEF EventInv, AdHocOwned
<1>4. (e.type = "AdHoc" /\ e.load \notin failed) => e.origin = Whole(e.load)
  <2>1. e = events[1] /\ 1 \in 1..Len(events)  BY <1>1
  <2> HIDE DEF e
  <2> QED  BY <2>1 DEF EventInv, AdHocOwned
<1>5. /\ e.type \in {"Setting", "AdHoc"} /\ e.origin \in Blocks \cup {None}
      /\ e.load \in 0..MaxStart
  BY <1>2 DEF Event
<1>6. \/ e.type = "Setting" /\ setting' = e.origin /\ ran' = ran
      \/ /\ e.type # "Setting" /\ e.origin = setting
         /\ ran' = AdHocEvent(setting, e.load) /\ setting' = setting
      \/ UNCHANGED <<setting, ran>>
  BY DEF EngineTakes, Fits
<1> HIDE DEF e
<1>7. ran' \in Event /\ setting' \in Blocks \cup {None}
  BY <1>5, <1>6 DEF EventInv, Event, AdHocEvent
<1>8. AdHocInItsSetting'
  <2>1. CASE ran' = ran  BY <1>1, <2>1 DEF EventInv, AdHocInItsSetting
  <2>2. CASE e.type # "Setting" /\ e.origin = setting /\ ran' = AdHocEvent(setting, e.load)
    <3>1. ran'.load = e.load /\ ran'.origin = e.origin  BY <2>2 DEF AdHocEvent
    <3> QED  BY <1>1, <1>4, <1>5, <2>2, <3>1 DEF AdHocInItsSetting
  <2> QED  BY <1>6, <2>1, <2>2
<1> QED  BY <1>1, <1>2, <1>3, <1>7, <1>8 DEF EventInv

\* Every step keeps the engine's part of the invariant.
LEMMA EventStep ==
  ASSUME ScriptInv, StreamInv, EventInv, [Next]_vars
  PROVE  EventInv'
<1> USE BoundsAssumption
<1>1. CASE CmdCommit
  <2>1. UNCHANGED <<events, setting, ran, failed>>
    BY <1>1 DEF CmdCommit, readOnly, scriptVars
  <2>2. block \in Blocks \cup {None}
    BY StageFacts, NowFields DEF StreamInv
  <2>3. \/ slot' = slot /\ posted' = posted
        \/ slot' = block /\ posted' = posted + 1
    BY <1>1 DEF CmdCommit, slotVars
  <2> QED  BY <2>1, <2>2, <2>3 DEF EventInv, AdHocOwned, AdHocInItsSetting
<1>2. CASE CmdExecKeySeq
  <2>1. /\ Up /\ data # <<>> /\ reading = "ExecKeySeq"
        /\ UNCHANGED <<slot, posted, setting, ran, failed>>
    BY <1>2 DEF CmdExecKeySeq, ReceivePayload, readOnly, slotVars, scriptVars
  <2>2. data \in Seq(Piece)  BY DEF StreamInv
  <2>3. PICK run : Stages(run)  BY <2>1 DEF StreamInv, Stream
  <2>4. Reads(Now, Head(data), run[1])  BY <2>1, <2>2, <2>3, NextStage
  <2>5. PICK n \in 1..MaxStart :
          Head(data) = Payload(n) /\ (n \in failed \/ committed = Whole(n))
    BY <2>1, <2>4, PayloadOf, NowFields
  <2>6. CASE committed = None
    <3>1. events' = events  BY <1>2, <2>6 DEF CmdExecKeySeq
    <3> QED  BY <2>1, <3>1 DEF EventInv, AdHocOwned, AdHocInItsSetting
  <2>7. CASE committed # None
    <3> DEFINE e == AdHocEvent(committed, n)
    <3>1. events' = Append(events, e)
      BY <1>2, <2>5, <2>7, PieceFacts DEF CmdExecKeySeq
    <3>2. committed \in Blocks \cup {None}
      <4>1. committed \in {None} \cup {Whole(m) : m \in 1..MaxStart}
        BY StageFacts, NowFields DEF StreamInv
      <4>2. Defs \in 0..Defs  OBVIOUS
      <4> QED  BY <4>1, <4>2, PartFacts DEF Whole
    <3>3. e \in Event /\ e.type = "AdHoc" /\ e.load = n /\ e.origin = committed
      BY <3>2 DEF AdHocEvent, Event
    <3> HIDE DEF e
    <3>4. slot' \in Blocks \cup {None} /\ posted' \in Nat  BY <2>1 DEF EventInv
    <3> QED  BY <2>1, <2>5, <3>1, <3>3, <3>4, EventQueued
  <2> QED  BY <2>6, <2>7
<1>3. CASE TakeSetting
  <2>1. /\ posted' \in Nat /\ slot' = None
        /\ UNCHANGED <<setting, ran, failed>>
    BY <1>3 DEF TakeSetting, EventInv, scriptVars
  <2>2. CASE slot = None
    <3>1. events' = events  BY <1>3, <2>2 DEF TakeSetting
    <3> QED  BY <2>1, <3>1 DEF EventInv, AdHocOwned, AdHocInItsSetting
  <2>3. CASE slot # None
    <3> DEFINE e == SettingEvent(slot)
    <3>1. events' = Append(events, e)  BY <1>3, <2>3 DEF TakeSetting
    <3>2. e \in Event /\ e.type = "Setting"
      BY DEF SettingEvent, Event, EventInv, NoLoad
    <3> HIDE DEF e
    <3> QED  BY <2>1, <3>1, <3>2, EventQueued
  <2> QED  BY <2>2, <2>3
<1>4. CASE EngineTakes  BY <1>4, EventTaken
<1>5. ASSUME UNCHANGED <<events, setting, ran, slot, posted>>, failed \subseteq failed'
      PROVE  EventInv'
  BY <1>5 DEF EventInv, AdHocOwned, AdHocInItsSetting
<1>6. CASE GiveUpFlush
  <2>1. UNCHANGED <<events, setting, ran, slot, posted>> /\ failed \subseteq failed'
    BY <1>6 DEF GiveUpFlush, scriptOnly, slotVars, engineVars
  <2> QED  BY <1>5, <2>1
<1>7. CASE SendStart \/ SendExecUserFunc \/ CloseCtrl \/ StopReaders \/ ForceStop
           \/ Crash \/ ReadMsg \/ EndOfMsgs
  <2>1. UNCHANGED <<events, setting, ran, slot, posted, failed>>
    BY <1>7 DEF SendStart, SendExecUserFunc, CloseCtrl, StopReaders, ForceStop, Crash,
                ReadMsg, EndOfMsgs, fromNyamy, scriptVars, slotVars, engineVars
  <2> QED  BY <1>5, <2>1
<1>8. CASE Watchdog
  <2>1. UNCHANGED <<events, setting, ran, slot, posted, failed>>
    BY <1>8 DEF Watchdog, ReadCtrl, LogDropped, EndOfCtrl, WatchdogWakes,
                WatchdogTerminates, Exit, ctrlOnly, scriptVars, slotVars, engineVars
  <2> QED  BY <1>5, <2>1
<1>9. CASE PopStart \/ PopExec \/ PopQuit \/ Load \/ WriteFlush \/ EndFlush
           \/ WriteKeySeq \/ EndExec \/ Log
  <2>1. UNCHANGED <<events, setting, ran, slot, posted, failed>>
    BY <1>9 DEF PopStart, PopExec, PopQuit, Load, WriteFlush, EndFlush, WriteKeySeq,
                EndExec, Log, scriptOnly, scriptVars, slotVars, engineVars
  <2> QED  BY <1>5, <2>1
<1>10. CASE CmdReset \/ ReadId \/ CmdDef
  <2>1. UNCHANGED <<events, setting, ran, slot, posted, failed>>
    BY <1>10 DEF CmdReset, ReadId, CmdDef, readOnly, scriptVars, slotVars
  <2> QED  BY <1>5, <2>1
<1>11. CASE EndOfData \/ NyamyDies \/ UNCHANGED vars
  <2>1. UNCHANGED <<events, setting, ran, slot, posted, failed>>
    BY <1>11 DEF EndOfData, NyamyDies, vars, scriptVars, slotVars, engineVars
  <2> QED  BY <1>5, <2>1
<1> QED
  BY <1>1, <1>2, <1>3, <1>4, <1>6, <1>7, <1>8, <1>9, <1>10, <1>11 DEF Next

\* The rest of the types.
LEMMA RestStep ==
  ASSUME RestInv, [Next]_vars
  PROVE  RestInv'
<1> USE BoundsAssumption
<1>1. CASE SendStart \/ SendExecUserFunc \/ CloseCtrl \/ StopReaders \/ ForceStop
           \/ Crash
  <2>1. UNCHANGED <<msgs, reader, msgReader>>
    BY <1>1 DEF SendStart, SendExecUserFunc, CloseCtrl, StopReaders, ForceStop, Crash,
                fromNyamy, msgVars, readerVars
  <2>2. /\ execs' = execs \/ (execs < MaxExec /\ execs' = execs + 1)
        /\ process' = process \/ process' \in {"gone", "terminated"}
    BY <1>1 DEF SendStart, SendExecUserFunc, CloseCtrl, StopReaders, ForceStop, Crash,
                fromNyamy, sentVars, ctrlVars
  <2>3. ctrlClosed' \in BOOLEAN /\ stopped' \in BOOLEAN
    BY <1>1 DEF SendStart, SendExecUserFunc, CloseCtrl, StopReaders, ForceStop, Crash,
                fromNyamy, sentVars, ctrlVars, RestInv
  <2>4. execs' \in 0..MaxExec  BY <2>2 DEF RestInv
  <2> QED  BY <2>1, <2>2, <2>3, <2>4 DEF RestInv
<1>2. CASE Watchdog
  <2>1. UNCHANGED <<execs, ctrlClosed, stopped, reader, msgReader>>
    BY <1>2 DEF Watchdog, ReadCtrl, LogDropped, EndOfCtrl, WatchdogWakes,
                WatchdogTerminates, Exit, ctrlOnly, sentVars, readerVars
  <2>2. /\ msgs' = msgs \/ (msgs < MsgCap /\ msgs' = msgs + 1)
        /\ process' = process \/ process' = "gone"
    BY <1>2 DEF Watchdog, ReadCtrl, LogDropped, EndOfCtrl, WatchdogWakes,
                WatchdogTerminates, Exit, WriteLine
  <2> QED  BY <2>1, <2>2 DEF RestInv
<1>3. CASE PopStart \/ PopExec \/ PopQuit \/ Load \/ WriteFlush \/ EndFlush
           \/ GiveUpFlush \/ WriteKeySeq \/ EndExec \/ Log
  <2>1. UNCHANGED <<execs, ctrlClosed, stopped, reader, msgReader, process>>
    BY <1>3 DEF PopStart, PopExec, PopQuit, Load, WriteFlush, EndFlush, GiveUpFlush,
                WriteKeySeq, EndExec, Log, scriptOnly, sentVars, ctrlVars, readerVars
  <2>2. msgs' = msgs \/ (msgs < MsgCap /\ msgs' = msgs + 1)
    BY <1>3 DEF PopStart, PopExec, PopQuit, Load, WriteFlush, EndFlush, GiveUpFlush,
                WriteKeySeq, EndExec, Log, WriteLine
  <2> QED  BY <2>1, <2>2 DEF RestInv
<1>4. CASE ReadMsg \/ EndOfMsgs
  <2>1. UNCHANGED <<execs, ctrlClosed, stopped, reader, process>>
    BY <1>4 DEF ReadMsg, EndOfMsgs, sentVars, ctrlVars, readerVars
  <2>2. /\ msgs' = msgs \/ (msgs > 0 /\ msgs' = msgs - 1)
        /\ msgReader' \in BOOLEAN
    BY <1>4 DEF ReadMsg, EndOfMsgs, RestInv
  <2>3. msgs' \in 0..MsgCap  BY <2>2 DEF RestInv
  <2> QED  BY <2>1, <2>2, <2>3 DEF RestInv
<1>5. CASE CmdReset \/ CmdCommit \/ ReadId \/ CmdDef \/ CmdExecKeySeq \/ TakeSetting
           \/ EngineTakes \/ UNCHANGED vars
  <2>1. UNCHANGED <<execs, ctrlClosed, stopped, reader, msgReader, process, msgs>>
    BY <1>5 DEF CmdReset, CmdCommit, ReadId, CmdDef, CmdExecKeySeq, TakeSetting,
                EngineTakes, vars, readOnly, sentVars, ctrlVars, msgVars, readerVars
  <2> QED  BY <2>1 DEF RestInv
<1>6. CASE EndOfData \/ NyamyDies
  <2>1. UNCHANGED <<execs, stopped, process, msgReader, msgs>>
    BY <1>6 DEF EndOfData, NyamyDies, sentVars, msgVars
  <2>2. /\ ctrlClosed' \in BOOLEAN
        /\ reader' \in BOOLEAN
    BY <1>6 DEF EndOfData, NyamyDies, RestInv, readerVars
  <2> QED  BY <2>1, <2>2 DEF RestInv
<1> QED  BY <1>1, <1>2, <1>3, <1>4, <1>5, <1>6 DEF Next

-----------------------------------------------------------------------------
LEMMA InitIInv == Init => IInv
<1> SUFFICES ASSUME Init PROVE IInv  OBVIOUS
<1> USE BoundsAssumption
<1>1. QueueInv
  <2>1. ctrl = <<>> /\ jobs = <<>> /\ Len(jobs) = 0 /\ Len(ctrl) = 0  BY DEF Init
  <2>2. Waiting(jobs) = 0  BY <2>1, WaitingNone
  <2>3. ctrl \in Seq(Job) /\ jobs \in Seq(Job)  BY <2>1
  <2> QED  BY <2>1, <2>2, <2>3 DEF Init, QueueInv, QueueOK, StartGoesFirst
<1>2. ScriptInv
  <2>1. 0 \in 0..MaxStart /\ 0 \in 0..(2 * Defs + 2) /\ 0 \in 0..MaxKeySeq  OBVIOUS
  <2> QED  BY <2>1 DEF Init, ScriptInv, ScriptOK, NoLoad
<1>3. StreamInv
  <2>1. data \in Seq(Piece) /\ Len(data) = 0  BY DEF Init
  <2>2. Now = StageOf("none", None, None)  BY DEF Init, Now
  <2>3. Now \in Stage  BY <2>2, StageFacts
  <2>4. PICK s \in Stage : s = Now  BY <2>3
  <2> DEFINE run == [i \in 0..0 |-> s]
  <2>5. run \in [0..Len(data) -> Stage] /\ run[0] = Now /\ run[Len(data)] = Now
    BY <2>1, <2>4
  <2>6. Written(Now)  BY <2>2, StageFacts DEF Init, Written
  <2>7. \A i \in 1..Len(data) : FALSE  BY <2>1
  <2> HIDE DEF run
  <2>8. Stages(run)  BY <2>5, <2>6, <2>7 DEF Stages
  <2>9. Stream  BY <2>8 DEF Stream
  <2> QED  BY <2>1, <2>3, <2>9 DEF Init, StreamInv
<1>4. EventInv
  <2>1. events = <<>> /\ Len(events) = 0 /\ events \in Seq(Event)  BY DEF Init
  <2>2. ran \in Event /\ ran.load = NoLoad  BY DEF Init, AdHocEvent, Event, NoLoad
  <2> QED  BY <2>1, <2>2 DEF Init, EventInv, AdHocOwned, AdHocInItsSetting
<1>5. RestInv
  <2>1. 0 \in 0..MaxExec /\ 0 \in 0..MsgCap  OBVIOUS
  <2> QED  BY <2>1 DEF Init, RestInv
<1> QED  BY <1>1, <1>2, <1>3, <1>4, <1>5 DEF IInv

LEMMA NextIInv == IInv /\ [Next]_vars => IInv'
BY QueueStep, StreamStep, EventStep, RestStep DEF IInv

\* The parts of the invariant hold in every state: of the queue, of the script and
\* the stream, of the events.
THEOREM Inductive == Spec => []IInv
<1> QED  BY InitIInv, NextIInv, PTL DEF Spec

\* Types and bounds: the JobQueue never holds more than kMaxPendingExecUserFunc
\* user functions, and no Setting more definitions than were written.
THEOREM TypeCorrect == Spec => []TypeOK
<1>1. IInv => TypeOK
  <2> SUFFICES ASSUME IInv PROVE TypeOK  OBVIOUS
  <2>1. Defs \in 0..Defs  BY BoundsAssumption
  <2>2. /\ reading \in {"none", "Def", "ExecKeySeq"}
        /\ block \in Blocks \cup {None}
        /\ committed \in {None} \cup {Whole(n) : n \in 1..MaxStart}
    BY StageFacts, NowFields DEF IInv, StreamInv
  <2>3. committed \in Blocks \cup {None}  BY <2>1, <2>2, PartFacts DEF Whole
  <2> QED
    BY <2>2, <2>3 DEF IInv, TypeOK, QueueInv, ScriptInv, StreamInv, EventInv, RestInv
<1> QED  BY <1>1, Inductive, PTL

\* A Setting that CmdProcessor commits is the whole of one load, whatever was given
\* up in the middle and whatever user functions sent in between.
THEOREM WholeSettings == Spec => []CommittedWhole
<1>1. IInv => CommittedWhole
  BY StageFacts, NowFields DEF IInv, StreamInv, CommittedWhole
<1> QED  BY <1>1, Inductive, PTL

\* pushStart() leaves nothing in the JobQueue that a load would wait for.
THEOREM StartFirst == Spec => []StartGoesFirst
<1>1. IInv => StartGoesFirst  BY DEF IInv, QueueInv
<1> QED  BY <1>1, Inductive, PTL

\* An ad-hoc sequence is run in the Setting of its load, or its load was given up.
THEOREM InItsSetting == Spec => []AdHocInItsSetting
<1>1. IInv => AdHocInItsSetting  BY DEF IInv, EventInv
<1> QED  BY <1>1, Inductive, PTL
=============================================================================
