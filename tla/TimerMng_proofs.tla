-------------------------- MODULE TimerMng_proofs ---------------------------
(***************************************************************************)
(* TimerMng for every set of timers and every pool: a callback no client   *)
(* raced with never overlaps itself, erase(end()) needs such a race, and   *)
(* no timer of the list is lost.                                           *)
(***************************************************************************)
EXTENDS TimerMng, FiniteSetTheorems, FunctionTheorems, SequenceTheorems, TLAPS

LEMMA InitIInv == Init => IInv
<1>1. SUFFICES ASSUME Init  PROVE IInv
  OBVIOUS
<1>2. TypeOK
  <2>1. tasks \in Seq(created)
    BY <1>1, EmptySeq DEF Init
  <2>2. QED  BY <1>1, <2>1 DEF Init, TypeOK
<1>3. DOMAIN tasks = {}
  BY <1>1 DEF Init
<1>4. ASSUME NEW t \in Timers
      PROVE  ~Queued(t) /\ ~Running(t)
  BY <1>1, <1>3, TimerAssumption DEF Init, Queued, Running
<1>5. QED
  BY <1>1, <1>2, <1>3, <1>4
     DEF Init, IInv, CrashNeedsRace, OneHolder, HeldQuietly, Outstanding, Queued,
         Running

\* The queue after a scan: the old tasks, then each due timer once.
LEMMA DispatchFacts ==
  ASSUME TypeOK, NEW due \in SUBSET listed, Dispatch(due)
  PROVE  /\ tasks' \in Seq(created)
         /\ Len(tasks') = Len(tasks) + Cardinality(due)
         /\ \A i \in DOMAIN tasks' :
              IF i <= Len(tasks) THEN i \in DOMAIN tasks /\ tasks'[i] = tasks[i]
                                 ELSE tasks'[i] \in due
         /\ \A i, j \in DOMAIN tasks' :
              i > Len(tasks) /\ j > Len(tasks) /\ tasks'[i] = tasks'[j] => i = j
<1>1. IsFiniteSet(due)
  BY TimerAssumption, FS_Subset DEF TypeOK
<1>2. Cardinality(due) \in Nat
  BY <1>1, FS_CardinalityType
<1>3. PICK order \in [1..Cardinality(due) -> due] :
        /\ \A i, j \in DOMAIN order : order[i] = order[j] => i = j
        /\ tasks' = tasks \o order
  BY DEF Dispatch
<1>4. order \in Seq(created) /\ Len(order) = Cardinality(due)
  <2>1. order \in [1..Cardinality(due) -> created]
    BY <1>3 DEF TypeOK
  <2>2. order \in Seq(created)
    BY <1>2, <2>1, SeqDef
  <2>3. Len(order) = Cardinality(due)
    BY <1>2, <2>1, <2>2, LenProperties
  <2>4. QED  BY <2>2, <2>3
<1>5. /\ tasks' \in Seq(created)
      /\ Len(tasks') = Len(tasks) + Len(order)
      /\ \A i \in 1..Len(tasks) + Len(order) :
           tasks'[i] = IF i <= Len(tasks) THEN tasks[i] ELSE order[i - Len(tasks)]
  <2>1. tasks \in Seq(created)
    BY DEF TypeOK
  <2>2. /\ tasks \o order \in Seq(created)
        /\ Len(tasks \o order) = Len(tasks) + Len(order)
        /\ \A i \in 1..Len(tasks) + Len(order) :
             (tasks \o order)[i] =
               IF i <= Len(tasks) THEN tasks[i] ELSE order[i - Len(tasks)]
    BY <1>4, <2>1, ConcatProperties, ZenonT(30)
  <2>3. QED  BY <1>3, <2>2, ZenonT(30)
<1>6. Len(tasks) \in Nat /\ DOMAIN tasks = 1..Len(tasks)
  BY LenProperties DEF TypeOK
<1>7. DOMAIN tasks' = 1..Len(tasks) + Cardinality(due)
  BY <1>4, <1>5, LenProperties
<1>8. ASSUME NEW i \in DOMAIN tasks', i > Len(tasks)
      PROVE  /\ i - Len(tasks) \in DOMAIN order
             /\ tasks'[i] = order[i - Len(tasks)]
  BY <1>2, <1>3, <1>4, <1>5, <1>6, <1>7, <1>8
<1>9. \A i \in DOMAIN tasks' :
        IF i <= Len(tasks) THEN i \in DOMAIN tasks /\ tasks'[i] = tasks[i]
                           ELSE tasks'[i] \in due
  <2>1. TAKE i \in DOMAIN tasks'
  <2>2. CASE i <= Len(tasks)
    BY <1>2, <1>4, <1>5, <1>6, <1>7, <2>2
  <2>3. CASE i > Len(tasks)
    BY <1>3, <1>6, <1>8, <2>3
  <2>4. QED  BY <1>2, <1>6, <1>7, <2>2, <2>3
<1>10. \A i, j \in DOMAIN tasks' :
         i > Len(tasks) /\ j > Len(tasks) /\ tasks'[i] = tasks'[j] => i = j
  BY <1>2, <1>3, <1>6, <1>7, <1>8
<1>11. QED
  BY <1>4, <1>5, <1>9, <1>10

-----------------------------------------------------------------------------

\* Steps that leave the queue, the pool and the list as they were and re-arm a
\* timer only if it is idle or recorded in raced.
LEMMA QuietStep ==
  ASSUME IInv, TypeOK', UNCHANGED <<tasks, worker, crashed>>,
         listed \subseteq listed', raced \subseteq raced',
         \A t \in Timers \ raced' : armed'[t] => armed[t] \/ ~Outstanding(t)
  PROVE  IInv'
<1>1. \A t \in Timers : (Queued(t)' <=> Queued(t)) /\ (Running(t)' <=> Running(t))
  BY DEF Queued, Running
<1>2. ASSUME NEW t \in Timers \ raced'
      PROVE  OneHolder(t)' /\ HeldQuietly(t)'
  <2>1. t \in Timers \ raced
    BY <1>2
  <2>2. OneHolder(t) /\ HeldQuietly(t)
    BY <2>1 DEF IInv
  <2>3. QED
    BY <1>1, <1>2, <2>2 DEF OneHolder, HeldQuietly, Outstanding
<1>3. CrashNeedsRace'
  BY DEF IInv, CrashNeedsRace
<1>4. QED
  BY <1>2, <1>3 DEF IInv

LEMMA StopTimerIInv ==
  ASSUME IInv, ~crashed, NEW t \in Timers, StopTimer(t)
  PROVE  IInv'
<1>1. TypeOK'
  BY DEF IInv, TypeOK, StopTimer, NotNull, EraseFromList, MarkRaced, cfgVars,
         poolVars, loopVars
<1>2. ASSUME NEW u \in Timers \ raced'
      PROVE  OneHolder(u)' /\ HeldQuietly(u)'
  <2>1. /\ UNCHANGED <<tasks, worker, armed>>
        /\ listed' = listed \ {t}
        /\ raced \subseteq raced'
        /\ u = t => ~Outstanding(t)
    BY <1>2 DEF StopTimer, EraseFromList, MarkRaced, poolVars
  <2>2. OneHolder(u) /\ HeldQuietly(u)
    BY <1>2, <2>1 DEF IInv
  <2>3. QED
    BY <2>1, <2>2 DEF OneHolder, HeldQuietly, Outstanding, Queued, Running
<1>3. CrashNeedsRace'
  BY DEF IInv, CrashNeedsRace, StopTimer, EraseFromList, MarkRaced
<1>4. QED
  BY <1>1, <1>2, <1>3 DEF IInv

LEMMA CheckTimersIInv ==
  ASSUME IInv, NEW due \in SUBSET Timers, CheckTimers(due)
  PROVE  IInv'
<1>1. /\ due \in SUBSET listed
      /\ Dispatch(due)
      /\ \A t \in Timers : armed'[t] = (armed[t] /\ t \notin due)
      /\ UNCHANGED <<created, listed, worker, raced, crashed>>
      /\ \A t \in due : armed[t]
  BY DEF CheckTimers, MayBeDue, Disarm, cfgVars
<1>2. TypeOK
  BY DEF IInv
<1>3. /\ tasks' \in Seq(created)
      /\ \A i \in DOMAIN tasks' :
           IF i <= Len(tasks) THEN i \in DOMAIN tasks /\ tasks'[i] = tasks[i]
                              ELSE tasks'[i] \in due
      /\ \A i, j \in DOMAIN tasks' :
           i > Len(tasks) /\ j > Len(tasks) /\ tasks'[i] = tasks'[j] => i = j
  BY <1>1, <1>2, DispatchFacts
<1>4. TypeOK'
  BY <1>1, <1>2, <1>3 DEF TypeOK, CheckTimers, Disarm, cfgVars
<1>5. Len(tasks) \in Nat /\ DOMAIN tasks' \subseteq Nat
  BY <1>2, <1>3, LenProperties DEF TypeOK
<1>6. ASSUME NEW t \in Timers \ raced'
      PROVE  OneHolder(t)' /\ HeldQuietly(t)'
  <2>1. OneHolder(t) /\ HeldQuietly(t)
    BY <1>1, <1>6 DEF IInv
  <2>2. CASE t \in due
    <3>1. ~Queued(t) /\ ~Running(t)
      BY <1>1, <2>1, <2>2 DEF HeldQuietly, Outstanding
    <3>2. \A i \in DOMAIN tasks' : tasks'[i] = t => i > Len(tasks)
      BY <1>3, <1>5, <3>1 DEF Queued
    <3>3. OneHolder(t)'
      BY <1>1, <1>3, <3>1, <3>2 DEF OneHolder, Running
    <3>4. QED
      BY <1>1, <2>2, <3>3 DEF HeldQuietly
  <2>3. CASE t \notin due
    <3>1. \A i \in DOMAIN tasks' : tasks'[i] = t => i \in DOMAIN tasks /\ tasks[i] = t
      BY <1>3, <1>5, <2>3
    <3>2. (Queued(t)' => Queued(t)) /\ (Running(t)' <=> Running(t))
      BY <1>1, <3>1 DEF Queued, Running
    <3>3. OneHolder(t)'
      BY <1>1, <2>1, <3>1, <3>2 DEF OneHolder
    <3>4. QED
      BY <1>1, <2>1, <3>2, <3>3 DEF HeldQuietly, Outstanding
  <2>4. QED  BY <2>2, <2>3
<1>7. CrashNeedsRace'
  BY <1>1 DEF IInv, CrashNeedsRace
<1>8. QED
  BY <1>4, <1>6, <1>7 DEF IInv

LEMMA TakeTaskIInv ==
  ASSUME IInv, NEW w \in Workers, TakeTask(w)
  PROVE  IInv'
<1>1. /\ worker[w] = None
      /\ tasks # <<>>
      /\ worker' = [worker EXCEPT ![w] = Head(tasks)]
      /\ tasks' = Tail(tasks)
      /\ UNCHANGED <<cfgVars, listed, armed, loopVars, crashed, raced>>
  BY DEF TakeTask, TaskReady
<1>2. TypeOK
  BY DEF IInv
<1>3. /\ Head(tasks) \in created
      /\ Tail(tasks) \in Seq(created)
      /\ Len(Tail(tasks)) = Len(tasks) - 1
      /\ \A i \in 1..Len(Tail(tasks)) : Tail(tasks)[i] = tasks[i+1]
      /\ Head(tasks) = tasks[1]
  BY <1>1, <1>2, HeadTailProperties DEF TypeOK
<1>4. /\ DOMAIN tasks = 1..Len(tasks)
      /\ DOMAIN tasks' = 1..Len(tasks) - 1
      /\ Len(tasks) \in Nat \ {0}
  BY <1>1, <1>2, <1>3, LenProperties, EmptySeq DEF TypeOK
<1>5. \A i \in DOMAIN tasks' : i + 1 \in DOMAIN tasks /\ tasks'[i] = tasks[i + 1]
  BY <1>1, <1>3, <1>4
<1>6. TypeOK'
  BY <1>1, <1>2, <1>3 DEF TypeOK, TakeTask, cfgVars, loopVars
<1>7. ASSUME NEW t \in Timers \ raced'
      PROVE  OneHolder(t)' /\ HeldQuietly(t)'
  <2>1. OneHolder(t) /\ HeldQuietly(t)
    BY <1>1, <1>7 DEF IInv
  <2>2. t # None
    BY <1>7, TimerAssumption
  <2>3. CASE t = tasks[1]
    <3>1. 1 \in DOMAIN tasks
      BY <1>4
    <3>2. Queued(t) /\ ~Running(t)
      BY <2>1, <2>3, <3>1 DEF OneHolder, Queued
    <3>3. ~Queued(t)'
      BY <1>4, <1>5, <2>1, <2>3, <3>1 DEF OneHolder, Queued
    <3>4. \A v \in Workers : worker'[v] = t => v = w
      BY <1>1, <1>2, <3>2 DEF TypeOK, Running
    <3>5. OneHolder(t)'
      BY <3>3, <3>4 DEF OneHolder, Queued
    <3>6. QED
      BY <1>1, <2>1, <3>2, <3>5 DEF HeldQuietly, Outstanding
  <2>4. CASE t # tasks[1]
    <3>1. \A v \in Workers : worker'[v] = t => worker[v] = t
      BY <1>1, <1>2, <1>3, <2>4 DEF TypeOK
    <3>2. (Queued(t)' => Queued(t)) /\ (Running(t)' => Running(t))
      BY <1>5, <3>1 DEF Queued, Running
    <3>3. \A i, j \in DOMAIN tasks' : tasks'[i] = t /\ tasks'[j] = t => i = j
      BY <1>4, <1>5, <2>1 DEF OneHolder
    <3>4. OneHolder(t)'
      BY <2>1, <3>1, <3>2, <3>3 DEF OneHolder
    <3>5. QED
      BY <1>1, <2>1, <3>2, <3>4 DEF HeldQuietly, Outstanding
  <2>5. QED  BY <2>3, <2>4
<1>8. CrashNeedsRace'
  BY <1>1 DEF IInv, CrashNeedsRace
<1>9. QED
  BY <1>6, <1>7, <1>8 DEF IInv

\* The end of InvokeTimerCb: the thread lets go of the timer, which is armed
\* again if it is periodic and leaves the list if it is not.
LEMMA EndTaskIInv ==
  ASSUME IInv, ~crashed, NEW w \in Workers, Rearm(w) \/ EraseOneShot(w)
  PROVE  IInv'
<1> DEFINE held == worker[w]
<1>1. /\ held # None
      /\ worker' = [worker EXCEPT ![w] = None]
      /\ UNCHANGED <<tasks, raced, created>>
      /\ \A t \in Timers : t # held => armed'[t] = armed[t]
      /\ \/ UNCHANGED <<listed, crashed>>
         \/ UNCHANGED armed /\ EraseFromList(held)
  BY DEF Rearm, EraseOneShot, EndTask, SetExpiry, IInv, TypeOK, cfgVars
<1>2. TypeOK
  BY DEF IInv
<1>3. held \in Timers
  BY <1>1, <1>2 DEF TypeOK
<1>4. TypeOK'
  BY <1>2, <1>3 DEF TypeOK, Rearm, EraseOneShot, EndTask, SetExpiry, EraseFromList,
                    cfgVars, loopVars
<1>5. ASSUME NEW t \in Timers \ raced'
      PROVE  OneHolder(t)' /\ HeldQuietly(t)'
  <2>1. OneHolder(t) /\ HeldQuietly(t)
    BY <1>1, <1>5 DEF IInv
  <2>2. t # None
    BY <1>5, TimerAssumption
  <2>3. \A v \in Workers : worker'[v] = t => worker[v] = t /\ v # w
    BY <1>1, <1>2, <2>2 DEF TypeOK
  <2>4. (Queued(t)' <=> Queued(t)) /\ (Running(t)' => Running(t))
    BY <1>1, <2>3 DEF Queued, Running
  <2>5. OneHolder(t)'
    BY <1>1, <2>1, <2>3, <2>4 DEF OneHolder
  <2>6. CASE t = held
    <3>1. ~Queued(t)
      BY <2>1, <2>6 DEF OneHolder, Running
    <3>2. ~Outstanding(t)'
      BY <2>1, <2>3, <2>4, <2>6, <3>1 DEF OneHolder, Outstanding, Running
    <3>3. QED  BY <2>5, <3>2 DEF HeldQuietly
  <2>7. CASE t # held
    BY <1>1, <1>5, <2>1, <2>4, <2>5, <2>7
       DEF HeldQuietly, Outstanding, EraseFromList
  <2>8. QED  BY <2>6, <2>7
<1>6. CrashNeedsRace'
  <2>1. ASSUME crashed'  PROVE held \notin listed
    BY <1>1, <2>1 DEF EraseFromList
  <2>2. held \in raced \/ held \in listed
    BY <1>3 DEF IInv, HeldQuietly, Outstanding, Running
  <2>3. QED
    BY <1>1, <2>1, <2>2 DEF CrashNeedsRace
<1>7. QED
  BY <1>4, <1>5, <1>6 DEF IInv

LEMMA NextIInv == IInv /\ [Next]_vars => IInv'
<1>1. SUFFICES ASSUME IInv, Next  PROVE IInv'
  <2>1. ASSUME IInv, UNCHANGED vars  PROVE IInv'
    BY <2>1
       DEF vars, IInv, TypeOK, OneHolder, HeldQuietly, Outstanding, Queued,
           Running, CrashNeedsRace
  <2>2. QED  BY <2>1
<1>2. ~crashed /\ TypeOK
  BY <1>1 DEF Next, IInv
<1>3. ASSUME NEW t \in Timers, NEW interval \in BOOLEAN, StartTimer(t, interval)
      PROVE  IInv'
  <2>1. TypeOK'
    <3>1. tasks' \in Seq(created')
      BY <1>2, <1>3, SeqMonotonic DEF TypeOK, StartTimer, poolVars
    <3>2. QED
      BY <1>2, <1>3, <3>1 DEF TypeOK, StartTimer, poolVars, loopVars
  <2>2. ~Outstanding(t)
    <3>1. \A i \in DOMAIN tasks : tasks[i] \in created
      BY <1>2, ElementOfSeq, LenProperties DEF TypeOK
    <3>2. QED
      BY <1>2, <1>3, <3>1, TimerAssumption
         DEF TypeOK, StartTimer, Outstanding, Queued, Running
  <2>3. \A u \in Timers \ raced' : armed'[u] => armed[u] \/ ~Outstanding(u)
    BY <1>2, <1>3, <2>2 DEF StartTimer, TypeOK
  <2>4. QED
    BY <1>1, <1>3, <2>1, <2>3, QuietStep DEF StartTimer, poolVars
<1>4. ASSUME NEW t \in Timers, StopTimer(t)  PROVE IInv'
  BY <1>1, <1>2, <1>4, StopTimerIInv
<1>5. ASSUME NEW t \in Timers, Reset(t) \/ Suspend(t) \/ Resume(t) \/ SetInterval(t)
      PROVE  IInv'
  <2>1. TypeOK'
    BY <1>2, <1>5 DEF TypeOK, Reset, Suspend, Resume, SetInterval, MarkRaced,
                      cfgVars, poolVars, loopVars
  <2>2. raced \subseteq raced' /\ UNCHANGED <<listed, tasks, worker, crashed>>
    BY <1>5 DEF Reset, Suspend, Resume, SetInterval, MarkRaced, poolVars
  <2>3. \A u \in Timers \ raced' : armed'[u] => armed[u] \/ ~Outstanding(u)
    BY <1>2, <1>5 DEF TypeOK, Reset, Suspend, Resume, SetInterval, MarkRaced
  <2>4. QED
    BY <1>1, <2>1, <2>2, <2>3, QuietStep
<1>6. CASE SetStop \/ TestStop \/ \E w \in Workers : ReturnFromCb(w)
  <2>1. TypeOK'
    BY <1>2, <1>6 DEF TypeOK, SetStop, TestStop, ReturnFromCb, cfgVars, poolVars,
                      loopVars
  <2>2. UNCHANGED <<listed, raced, armed, tasks, worker, crashed>>
    BY <1>6 DEF SetStop, TestStop, ReturnFromCb, poolVars
  <2>3. QED
    BY <1>1, <2>1, <2>2, QuietStep
<1>7. ASSUME NEW due \in SUBSET Timers, CheckTimers(due)  PROVE IInv'
  BY <1>1, <1>7, CheckTimersIInv
<1>8. ASSUME NEW w \in Workers, TakeTask(w)  PROVE IInv'
  BY <1>1, <1>8, TakeTaskIInv
<1>9. ASSUME NEW w \in Workers, Rearm(w) \/ EraseOneShot(w)  PROVE IInv'
  BY <1>1, <1>2, <1>9, EndTaskIInv
<1>10. QED
  BY <1>1, <1>3, <1>4, <1>5, <1>6, <1>7, <1>8, <1>9
     DEF Next, Client, Loop, Invoke

\* The inductive invariant holds in every reachable state: timer.cpp keeps one
\* holder per timer as long as no client races with it.
THEOREM Invariance == Spec => []IInv
BY InitIInv, NextIInv, PTL DEF Spec

\* TimerMng's state stays well-formed (timer.h:61-64).
THEOREM TypeCorrect == Spec => []TypeOK
<1>1. IInv => TypeOK
  BY DEF IInv
<1>2. QED  BY Invariance, <1>1, PTL

\* InvokeTimerCb (timer.cpp:139-142) hands end() to erase only after a client
\* re-armed or stopped a timer under an outstanding call, or stopped one twice.
THEOREM CrashOnlyByRace == Spec => []CrashNeedsRace
<1>1. IInv => CrashNeedsRace
  BY DEF IInv
<1>2. QED  BY Invariance, <1>1, PTL

\* A set with at most one element is empty or a singleton.
LEMMA AtMostOne ==
  ASSUME NEW S, \A x, y \in S : x = y
  PROVE  IsFiniteSet(S) /\ Cardinality(S) = IF S = {} THEN 0 ELSE 1
<1>1. CASE S = {}
  BY <1>1, FS_EmptySet
<1>2. CASE S # {}
  <2>1. PICK x : S = {x}
    BY <1>2
  <2>2. QED  BY <2>1, FS_Singleton
<1>3. QED  BY <1>1, <1>2

\* A timer nobody raced with has one holder at most: one call at most.
LEMMA OneHolderOneCall == IInv => NoOverlap
<1>1. SUFFICES ASSUME IInv, NEW t \in Timers \ raced  PROVE Calls(t) <= 1
  BY DEF NoOverlap
<1>2. OneHolder(t)
  BY <1>1 DEF IInv
<1> DEFINE q == {i \in DOMAIN tasks : tasks[i] = t}
           r == {w \in Workers : worker[w] = t}
<1>3. Cardinality(q) = (IF q = {} THEN 0 ELSE 1)
  BY <1>2, AtMostOne DEF OneHolder
<1>4. Cardinality(r) = (IF r = {} THEN 0 ELSE 1)
  BY <1>2, AtMostOne DEF OneHolder
<1>5. q = {} \/ r = {}
  BY <1>2 DEF OneHolder, Queued, Running
<1>6. QED
  BY <1>3, <1>4, <1>5 DEF Calls

\* A timer's callback never overlaps itself (timer.cpp:123 and 135-138), for any
\* number of timers and pool threads.
THEOREM CallbacksNeverOverlap == Spec => []NoOverlap
BY Invariance, OneHolderOneCall, PTL

-----------------------------------------------------------------------------
(* No timer is lost. *)

\* Taking a task leaves every timer with a call outstanding what it was.
LEMMA TakingKeepsOutstanding ==
  ASSUME TypeOK, NEW t \in Timers, NEW w \in Workers, TakeTask(w), Outstanding(t)
  PROVE  Outstanding(t)'
<1>1. /\ worker[w] = None
      /\ tasks # <<>>
      /\ worker' = [worker EXCEPT ![w] = Head(tasks)]
      /\ tasks' = Tail(tasks)
  BY DEF TakeTask, TaskReady
<1>2. /\ Tail(tasks) \in Seq(created)
      /\ Len(Tail(tasks)) = Len(tasks) - 1
      /\ \A i \in 1..Len(Tail(tasks)) : Tail(tasks)[i] = tasks[i+1]
      /\ Head(tasks) = tasks[1]
  BY <1>1, HeadTailProperties DEF TypeOK
<1>3. /\ DOMAIN tasks = 1..Len(tasks)
      /\ DOMAIN tasks' = 1..Len(tasks) - 1
      /\ Len(tasks) \in Nat \ {0}
  BY <1>1, <1>2, LenProperties, EmptySeq DEF TypeOK
<1>4. t # None
  BY TimerAssumption
<1>5. CASE Running(t)
  <2>1. PICK v \in Workers : worker[v] = t
    BY <1>5 DEF Running
  <2>2. worker'[v] = t
    BY <1>1, <1>4, <2>1 DEF TypeOK
  <2>3. QED  BY <2>1, <2>2 DEF Outstanding, Running
<1>6. ASSUME NEW i \in DOMAIN tasks, tasks[i] = t
      PROVE  Outstanding(t)'
  <2>1. CASE i = 1
    <3>1. worker'[w] = t
      BY <1>1, <1>2, <1>6, <2>1 DEF TypeOK
    <3>2. QED  BY <3>1 DEF Outstanding, Running
  <2>2. CASE i # 1
    <3>1. i - 1 \in DOMAIN tasks' /\ i - 1 \in 1..Len(Tail(tasks)) /\ (i - 1) + 1 = i
      BY <1>2, <1>3, <2>2
    <3>2. tasks'[i - 1] = t
      BY <1>1, <1>2, <1>6, <3>1
    <3>3. QED  BY <3>1, <3>2 DEF Outstanding, Queued
  <2>3. QED  BY <2>1, <2>2
<1>7. QED  BY <1>5, <1>6 DEF Outstanding, Queued

\* As many different tasks as there are due timers are all of them.
LEMMA DispatchIsOnto ==
  ASSUME NEW S, IsFiniteSet(S), NEW order \in [1..Cardinality(S) -> S],
         \A i, j \in DOMAIN order : order[i] = order[j] => i = j,
         NEW t \in S
  PROVE  \E i \in 1..Cardinality(S) : order[i] = t
<1> DEFINE n == Cardinality(S)
<1>1. n \in Nat /\ IsFiniteSet(1..n) /\ Cardinality(1..n) = n
  BY FS_CardinalityType, FS_Interval
<1>2. order \in Injection(1..n, S)
  BY DEF Injection, IsInjective
<1>3. order \in Surjection(1..n, S)
  <2> HIDE DEF n
  <2>1. n = Cardinality(S)
    BY DEF n
  <2>2. QED  BY <1>1, <1>2, <2>1, FS_Injection
<1>4. QED  BY <1>3 DEF Surjection

\* What a scan disarms it queues.
LEMMA ScanLosesNone ==
  ASSUME TypeOK, NoTimerLost, NEW due \in SUBSET Timers, CheckTimers(due)
  PROVE  NoTimerLost'
<1>1. /\ due \in SUBSET listed /\ listed \subseteq Timers
      /\ Dispatch(due)
      /\ \A t \in Timers : armed'[t] = (armed[t] /\ t \notin due)
      /\ UNCHANGED <<listed, worker>>
  BY DEF CheckTimers, MayBeDue, Disarm, cfgVars, TypeOK
<1>2. PICK order \in [1..Cardinality(due) -> due] :
        /\ \A i, j \in DOMAIN order : order[i] = order[j] => i = j
        /\ tasks' = tasks \o order
  BY <1>1 DEF Dispatch
<1>3. Cardinality(due) \in Nat /\ IsFiniteSet(due)
  BY <1>1, TimerAssumption, FS_Subset, FS_CardinalityType DEF TypeOK
<1>4. order \in Seq(created) /\ Len(order) = Cardinality(due)
  <2>1. order \in [1..Cardinality(due) -> created]
    BY <1>1 DEF TypeOK
  <2>2. order \in Seq(created)
    BY <1>3, <2>1, SeqDef
  <2>3. QED  BY <1>3, <2>1, <2>2, LenProperties
<1>5. /\ tasks \in Seq(created) /\ Len(tasks) \in Nat
      /\ DOMAIN tasks = 1..Len(tasks)
      /\ DOMAIN tasks' = 1..Len(tasks) + Len(order)
      /\ \A i \in 1..Len(tasks) + Len(order) :
           tasks'[i] = IF i <= Len(tasks) THEN tasks[i] ELSE order[i - Len(tasks)]
  <2>1. tasks \in Seq(created)
    BY DEF TypeOK
  <2>2. /\ tasks \o order \in Seq(created)
        /\ Len(tasks \o order) = Len(tasks) + Len(order)
        /\ \A i \in 1..Len(tasks) + Len(order) :
             (tasks \o order)[i] =
                IF i <= Len(tasks) THEN tasks[i] ELSE order[i - Len(tasks)]
    BY <1>4, <2>1, ConcatProperties
  <2>3. QED  BY <1>2, <2>1, <2>2, LenProperties
<1>6. ASSUME NEW t \in due  PROVE \E i \in 1..Cardinality(due) : order[i] = t
  BY <1>2, <1>3, DispatchIsOnto
<1>7. ASSUME NEW t \in listed  PROVE armed'[t] \/ Outstanding(t)'
  <2>1. CASE t \in due
    <3>1. PICK i \in 1..Cardinality(due) : order[i] = t
      BY <1>6, <2>1
    <3>2. /\ Len(tasks) + i \in DOMAIN tasks' /\ ~(Len(tasks) + i <= Len(tasks))
          /\ (Len(tasks) + i) - Len(tasks) = i
      BY <1>3, <1>4, <1>5, <3>1
    <3>3. tasks'[Len(tasks) + i] = t
      BY <1>5, <3>1, <3>2
    <3>4. QED  BY <3>2, <3>3 DEF Outstanding, Queued
  <2>2. CASE t \notin due /\ armed[t]
    BY <1>1, <2>2
  <2>3. CASE Running(t)
    BY <1>1, <2>3 DEF Outstanding, Running
  <2>4. ASSUME NEW i \in DOMAIN tasks, tasks[i] = t  PROVE Outstanding(t)'
    <3>1. i \in DOMAIN tasks' /\ tasks'[i] = t
      BY <1>3, <1>4, <1>5, <2>4
    <3>2. QED  BY <3>1 DEF Outstanding, Queued
  <2>5. QED
    BY <2>1, <2>2, <2>3, <2>4 DEF NoTimerLost, Outstanding, Queued
<1>8. QED  BY <1>1, <1>7 DEF NoTimerLost

LEMMA NextLosesNone ==
  ASSUME TypeOK, NoTimerLost, [Next]_vars
  PROVE  NoTimerLost'
<1>0. listed \subseteq Timers
  BY DEF TypeOK
<1>1. ASSUME NEW t \in Timers, NEW interval \in BOOLEAN, StartTimer(t, interval)
      PROVE  NoTimerLost'
  <2>1. /\ UNCHANGED <<tasks, worker>> /\ listed' = listed \cup {t}
        /\ armed' = [armed EXCEPT ![t] = TRUE]
    BY <1>1 DEF StartTimer, poolVars
  <2>2. \A u \in Timers : armed'[u] = (armed[u] \/ u = t)
    BY <2>1 DEF TypeOK
  <2>3. QED
    BY <1>0, <2>1, <2>2 DEF NoTimerLost, Outstanding, Queued, Running
<1>2. CASE \/ \E t \in Timers : \/ StopTimer(t) \/ Reset(t) \/ Suspend(t) \/ Resume(t)
                                 \/ SetInterval(t)
           \/ SetStop \/ TestStop \/ \E w \in Workers : ReturnFromCb(w)
  <2>1. UNCHANGED <<tasks, worker>> /\ listed' \subseteq listed
    BY <1>2 DEF StopTimer, Reset, Suspend, Resume, SetInterval, SetStop, TestStop,
                ReturnFromCb, EraseFromList, poolVars
  <2>2. \A u \in Timers : armed[u] => armed'[u]
    BY <1>2 DEF TypeOK, StopTimer, Reset, Suspend, Resume, SetInterval, SetStop,
                TestStop, ReturnFromCb
  <2>3. QED
    BY <1>0, <2>1, <2>2 DEF NoTimerLost, Outstanding, Queued, Running
<1>3. ASSUME NEW due \in SUBSET Timers, CheckTimers(due)  PROVE NoTimerLost'
  BY <1>3, ScanLosesNone
<1>4. ASSUME NEW w \in Workers, TakeTask(w)  PROVE NoTimerLost'
  <2>1. UNCHANGED <<listed, armed>>
    BY <1>4 DEF TakeTask
  <2>2. \A t \in Timers : Outstanding(t) => Outstanding(t)'
    BY <1>4, TakingKeepsOutstanding
  <2>3. QED
    BY <1>0, <2>1, <2>2 DEF NoTimerLost
<1>5. ASSUME NEW w \in Workers, Rearm(w) \/ EraseOneShot(w)  PROVE NoTimerLost'
  <2> DEFINE held == worker[w]
  <2>1. /\ held \in Timers
        /\ worker' = [worker EXCEPT ![w] = None] /\ tasks' = tasks
        /\ \/ listed' = listed /\ armed' = [armed EXCEPT ![held] = TRUE]
           \/ listed' = listed \ {held} /\ armed' = armed
    BY <1>5 DEF Rearm, EraseOneShot, EndTask, EraseFromList, SetExpiry, TypeOK
  <2>2. \A t \in Timers : t # held /\ Outstanding(t) => Outstanding(t)'
    BY <2>1, TimerAssumption DEF TypeOK, Outstanding, Queued, Running
  <2>3. \A t \in Timers : t # held => armed'[t] = armed[t]
    BY <2>1 DEF TypeOK
  <2>4. held \in listed' => armed'[held]
    BY <2>1 DEF TypeOK
  <2>5. listed' \subseteq listed
    BY <2>1
  <2> HIDE DEF held
  <2>6. QED
    BY <1>0, <2>2, <2>3, <2>4, <2>5 DEF NoTimerLost
<1>6. CASE UNCHANGED vars
  BY <1>6 DEF vars, NoTimerLost, Outstanding, Queued, Running
<1>7. CASE Client
  BY <1>1, <1>2, <1>7 DEF Client
<1>8. CASE Loop
  BY <1>2, <1>3, <1>8 DEF Loop
<1>9. ASSUME NEW w \in Workers, Invoke(w)  PROVE NoTimerLost'
  BY <1>2, <1>4, <1>5, <1>9 DEF Invoke
<1>10. QED
  BY <1>6, <1>7, <1>8, <1>9 DEF Next

\* A timer in the list is armed or has a call outstanding (timer.cpp:123,136), for any
\* number of timers and pool threads and whatever the clients do: no order of scans,
\* callbacks, resets and stops leaves one that no scan can ever find due again.
THEOREM NoTimerIsLost == Spec => []NoTimerLost
<1>1. Init => NoTimerLost
  BY DEF Init, NoTimerLost
<1>2. TypeOK /\ NoTimerLost /\ [Next]_vars => NoTimerLost'
  BY NextLosesNone
<1>3. QED  BY TypeCorrect, <1>1, <1>2, PTL DEF Spec
=============================================================================
