----------------------------- MODULE Node_proofs -----------------------------
(***************************************************************************)
(* What holds of a node's timers and of the relay of addresses to it, for  *)
(* any values of the constants: any kinds of timer, any number of workers  *)
(* of the pool, any addresses and any sizes of the queue, of known_addrs_  *)
(* and of a message.                                                       *)
(***************************************************************************)
EXTENDS Relay, NodeTimers, FiniteSetTheorems, FunctionTheorems, SequenceTheorems, TLAPS

(***************************************************************************)
(* What is in a sequence.                                                  *)
(***************************************************************************)

\* What is in one of two sequences is in their concatenation.
LEMMA InConcat ==
  ASSUME NEW S, NEW s \in Seq(S), NEW t \in Seq(S)
  PROVE  /\ s \o t \in Seq(S) /\ Len(s \o t) = Len(s) + Len(t)
         /\ \A a : InSeq(a, s \o t) <=> InSeq(a, s) \/ InSeq(a, t)
<1>1. /\ Len(s) \in Nat /\ Len(t) \in Nat
      /\ DOMAIN s = 1..Len(s) /\ DOMAIN t = 1..Len(t)
  BY LenProperties
<1>2. /\ s \o t \in Seq(S) /\ Len(s \o t) = Len(s) + Len(t)
      /\ \A i \in 1..Len(s) + Len(t) :
           (s \o t)[i] = IF i <= Len(s) THEN s[i] ELSE t[i - Len(s)]
  BY ConcatProperties, ZenonT(30)
<1>3. DOMAIN (s \o t) = 1..Len(s) + Len(t)
  BY <1>2, LenProperties
<1> DEFINE c == s \o t
<1> HIDE DEF c
<1>4. ASSUME NEW a, InSeq(a, c)  PROVE InSeq(a, s) \/ InSeq(a, t)
  <2>1. PICK i \in 1..Len(s) + Len(t) : c[i] = a
    BY <1>3, <1>4 DEF InSeq, c
  <2>2. CASE i <= Len(s)
    <3>1. i \in DOMAIN s /\ s[i] = a
      BY <1>1, <1>2, <2>1, <2>2 DEF c
    <3>2. QED  BY <3>1 DEF InSeq
  <2>3. CASE ~(i <= Len(s))
    <3>1. i - Len(s) \in DOMAIN t /\ t[i - Len(s)] = a
      BY <1>1, <1>2, <2>1, <2>3 DEF c
    <3>2. QED  BY <3>1 DEF InSeq
  <2>4. QED  BY <2>2, <2>3
<1>5. ASSUME NEW a, InSeq(a, s)  PROVE InSeq(a, c)
  <2>1. PICK i \in 1..Len(s) : s[i] = a
    BY <1>1, <1>5 DEF InSeq
  <2>2. i \in DOMAIN c /\ c[i] = a
    BY <1>1, <1>2, <1>3, <2>1 DEF c
  <2>3. QED  BY <2>2 DEF InSeq
<1>6. ASSUME NEW a, InSeq(a, t)  PROVE InSeq(a, c)
  <2>1. PICK i \in 1..Len(t) : t[i] = a
    BY <1>1, <1>6 DEF InSeq
  <2>2. Len(s) + i \in DOMAIN c /\ c[Len(s) + i] = a
    BY <1>1, <1>2, <1>3, <2>1 DEF c
  <2>3. QED  BY <2>2 DEF InSeq
<1>7. QED  BY <1>2, <1>4, <1>5, <1>6 DEF c

\* A sequence with one more element has it and the others.
LEMMA InAppend ==
  ASSUME NEW S, NEW s \in Seq(S), NEW e \in S
  PROVE  \A a : InSeq(a, Append(s, e)) <=> InSeq(a, s) \/ a = e
<1> DEFINE one == <<e>>
<1>1. one \in Seq(S) /\ \A a : InSeq(a, one) <=> a = e
  BY DEF InSeq
<1>2. Append(s, e) = s \o one
  BY AppendIsConcat
<1> HIDE DEF one
<1>3. \A a : InSeq(a, s \o one) <=> InSeq(a, s) \/ InSeq(a, one)
  BY <1>1, InConcat
<1>4. QED  BY <1>1, <1>2, <1>3

\* A sequence has its head and what its tail has.
LEMMA InHeadTail ==
  ASSUME NEW S, NEW s \in Seq(S), s # <<>>
  PROVE  \A a : InSeq(a, s) <=> a = Head(s) \/ InSeq(a, Tail(s))
<1>1. /\ Len(s) \in Nat \ {0} /\ DOMAIN s = 1..Len(s) /\ Head(s) = s[1]
      /\ Len(Tail(s)) = Len(s) - 1
      /\ \A i \in 1..Len(Tail(s)) : Tail(s)[i] = s[i + 1]
  BY LenProperties, EmptySeq, HeadTailProperties
<1>2. DOMAIN Tail(s) = 1..Len(s) - 1
  BY <1>1, LenProperties, HeadTailProperties
<1>3. ASSUME NEW a, InSeq(a, s), a # Head(s)  PROVE InSeq(a, Tail(s))
  <2>1. PICK i \in 1..Len(s) : s[i] = a
    BY <1>1, <1>3 DEF InSeq
  <2>2. i # 1
    BY <1>1, <1>3, <2>1
  <2>3. i - 1 \in 1..Len(s) - 1 /\ (i - 1) + 1 = i
    BY <1>1, <2>1, <2>2
  <2>4. Tail(s)[i - 1] = a
    BY <1>1, <2>1, <2>3
  <2>5. QED  BY <1>2, <2>3, <2>4 DEF InSeq
<1>4. ASSUME NEW a, InSeq(a, Tail(s))  PROVE InSeq(a, s)
  <2>1. PICK i \in 1..Len(s) - 1 : Tail(s)[i] = a
    BY <1>2, <1>4 DEF InSeq
  <2>2. i + 1 \in DOMAIN s /\ s[i + 1] = a
    BY <1>1, <2>1
  <2>3. QED  BY <2>2 DEF InSeq
<1>5. InSeq(Head(s), s)
  BY <1>1 DEF InSeq
<1>6. QED  BY <1>3, <1>4, <1>5

(***************************************************************************)
(* The timers of a node.  What they need of the timer manager is what is   *)
(* proved of it, for the timers of the node.                               *)
(***************************************************************************)

Manager == INSTANCE TimerMng_proofs WITH Resettable <- Timers, Pausable <- {}, None <- Null

LEMMA NullIsNoTimer == Null \notin Timers
<1>1. SUFFICES ASSUME Null \in Timers PROVE FALSE
  OBVIOUS
<1>2. PICK k, n : Null = <<k, n>>
  BY <1>1 DEF Timers
<1>3. Len(Null) = 1
  BY DEF Null
<1>4. Len(Null) = 2
  BY <1>2
<1>5. QED  BY <1>3, <1>4

LEMMA KindsOfTimers == \A t \in Timers : KindOf(t) \in Kinds
  BY NodeTimersAssumption DEF Timers, KindOf

LEMMA ManagerAssumption == Manager!TimerAssumption
<1>1. IsFiniteSet(Kinds)
  <2> DEFINE six == {"no_msg", "no_receiving", "shakehands", "ping", "advertise", "broadcast"}
  <2>1. IsFiniteSet({"no_msg"})
    BY FS_Singleton
  <2>2. IsFiniteSet({"no_msg"} \cup {"no_receiving"})
    BY <2>1, FS_AddElement
  <2>3. IsFiniteSet(({"no_msg"} \cup {"no_receiving"}) \cup {"shakehands"})
    BY <2>2, FS_AddElement
  <2>4. IsFiniteSet((({"no_msg"} \cup {"no_receiving"}) \cup {"shakehands"}) \cup {"ping"})
    BY <2>3, FS_AddElement
  <2>5. IsFiniteSet(((({"no_msg"} \cup {"no_receiving"}) \cup {"shakehands"}) \cup {"ping"})
                      \cup {"advertise"})
    BY <2>4, FS_AddElement
  <2>6. IsFiniteSet((((({"no_msg"} \cup {"no_receiving"}) \cup {"shakehands"}) \cup {"ping"})
                      \cup {"advertise"}) \cup {"broadcast"})
    BY <2>5, FS_AddElement
  <2>7. six = (((({"no_msg"} \cup {"no_receiving"}) \cup {"shakehands"}) \cup {"ping"})
                 \cup {"advertise"}) \cup {"broadcast"}
    OBVIOUS
  <2>8. IsFiniteSet(six)
    BY <2>6, <2>7
  <2>9. QED  BY <2>8, FS_Subset, NodeTimersAssumption
<1>2. IsFiniteSet(Again)
  BY <1>1, FS_Subset, NodeTimersAssumption
<1>3. IsFiniteSet({1}) /\ IsFiniteSet({2})
  BY FS_Singleton
<1>4. IsFiniteSet(Kinds \X {1}) /\ IsFiniteSet(Again \X {2})
  BY <1>1, <1>2, <1>3, FS_Product
<1>5. IsFiniteSet(Timers)
  BY <1>4, FS_Union DEF Timers
<1>6. QED
  BY <1>5, NullIsNoTimer, NodeTimersAssumption, Zenon
     DEF Manager!TimerAssumption, Manager!IsFiniteSet, IsFiniteSet

\* The manager of the proofs and that of the model are the same.
LEMMA SameManager ==
  /\ mngVars = Manager!vars
  /\ Manager!TypeOK <=> Mng!TypeOK
  /\ Manager!Next <=> Mng!Next
<1>1. mngVars = Manager!vars
  BY DEF mngVars, Manager!vars
<1>2. Manager!TypeOK <=> Mng!TypeOK
  BY DEF Manager!TypeOK, Mng!TypeOK
<1>3. ASSUME NEW t \in Timers
      PROVE  /\ \A i \in BOOLEAN : Manager!StartTimer(t, i) <=> Mng!StartTimer(t, i)
             /\ Manager!Suspend(t) <=> Mng!Suspend(t)
             /\ Manager!Resume(t) <=> Mng!Resume(t)
             /\ Manager!Reset(t) <=> Mng!Reset(t)
             /\ Manager!StopTimer(t) <=> Mng!StopTimer(t)
             /\ Manager!SetInterval(t) <=> Mng!SetInterval(t)
  <2>1. \A i \in BOOLEAN : Manager!StartTimer(t, i) <=> Mng!StartTimer(t, i)
    BY Zenon DEF Manager!StartTimer, Mng!StartTimer, Manager!poolVars, Mng!poolVars,
                 Manager!loopVars, Mng!loopVars
  <2>2. Manager!Suspend(t) <=> Mng!Suspend(t)
    BY Zenon DEF Manager!Suspend, Mng!Suspend, Manager!poolVars, Mng!poolVars,
                 Manager!loopVars, Mng!loopVars
  <2>3. Manager!Resume(t) <=> Mng!Resume(t)
    BY Zenon DEF Manager!Resume, Mng!Resume, Manager!poolVars, Mng!poolVars,
                 Manager!loopVars, Mng!loopVars, Manager!MarkRaced, Mng!MarkRaced,
                 Manager!Outstanding, Mng!Outstanding, Manager!Queued, Mng!Queued,
                 Manager!Running, Mng!Running
  <2>4. Manager!Reset(t) <=> Mng!Reset(t)
    BY Zenon DEF Manager!Reset, Mng!Reset, Manager!poolVars, Mng!poolVars,
                 Manager!loopVars, Mng!loopVars, Manager!MarkRaced, Mng!MarkRaced,
                 Manager!Outstanding, Mng!Outstanding, Manager!Queued, Mng!Queued,
                 Manager!Running, Mng!Running, Manager!cfgVars, Mng!cfgVars
  <2>5. Manager!StopTimer(t) <=> Mng!StopTimer(t)
    BY Zenon DEF Manager!StopTimer, Mng!StopTimer, Manager!poolVars, Mng!poolVars,
                 Manager!loopVars, Mng!loopVars, Manager!MarkRaced, Mng!MarkRaced,
                 Manager!Outstanding, Mng!Outstanding, Manager!Queued, Mng!Queued,
                 Manager!Running, Mng!Running, Manager!cfgVars, Mng!cfgVars,
                 Manager!NotNull, Mng!NotNull, Manager!EraseFromList, Mng!EraseFromList
  <2>6. Manager!SetInterval(t) <=> Mng!SetInterval(t)
    BY Zenon DEF Manager!SetInterval, Mng!SetInterval, Manager!poolVars, Mng!poolVars,
                 Manager!loopVars, Mng!loopVars
  <2>7. QED  BY <2>1, <2>2, <2>3, <2>4, <2>5, <2>6
<1>4. Manager!SetStop <=> Mng!SetStop
  BY Zenon DEF Manager!SetStop, Mng!SetStop, Manager!poolVars, Mng!poolVars,
               Manager!cfgVars, Mng!cfgVars
<1>5. Manager!Client <=> Mng!Client
  BY <1>3, <1>4 DEF Manager!Client, Mng!Client
<1>6. \A due : Manager!CheckTimers(due) <=> Mng!CheckTimers(due)
  BY Zenon DEF Manager!CheckTimers, Mng!CheckTimers, Manager!MayBeDue, Mng!MayBeDue,
               Manager!Disarm, Mng!Disarm, Manager!Dispatch, Mng!Dispatch,
               Manager!Cardinality, Mng!Cardinality, Manager!cfgVars, Mng!cfgVars
<1>7. Manager!TestStop <=> Mng!TestStop
  BY Zenon DEF Manager!TestStop, Mng!TestStop,
               Manager!cfgVars, Mng!cfgVars, Manager!poolVars, Mng!poolVars
<1>8. Manager!Loop <=> Mng!Loop
  BY <1>6, <1>7 DEF Manager!Loop, Mng!Loop
<1>9. \A w : Manager!TakeTask(w) <=> Mng!TakeTask(w)
  BY Zenon DEF Manager!TakeTask, Mng!TakeTask, Manager!TaskReady, Mng!TaskReady,
               Manager!cfgVars, Mng!cfgVars, Manager!loopVars, Mng!loopVars
<1>10. \A w : Manager!ReturnFromCb(w) <=> Mng!ReturnFromCb(w)
  BY Zenon DEF Manager!ReturnFromCb, Mng!ReturnFromCb, Manager!cfgVars, Mng!cfgVars,
               Manager!loopVars, Mng!loopVars
<1>11. \A w : Manager!Rearm(w) <=> Mng!Rearm(w)
  BY Zenon DEF Manager!Rearm, Mng!Rearm, Manager!EndTask, Mng!EndTask,
               Manager!SetExpiry, Mng!SetExpiry,
               Manager!cfgVars, Mng!cfgVars, Manager!loopVars, Mng!loopVars
<1>12. \A w : Manager!EraseOneShot(w) <=> Mng!EraseOneShot(w)
  BY Zenon DEF Manager!EraseOneShot, Mng!EraseOneShot, Manager!EndTask, Mng!EndTask,
               Manager!EraseFromList, Mng!EraseFromList,
               Manager!cfgVars, Mng!cfgVars, Manager!loopVars, Mng!loopVars
<1>13. \A w \in Workers : Manager!Invoke(w) <=> Mng!Invoke(w)
  BY <1>9, <1>10, <1>11, <1>12 DEF Manager!Invoke, Mng!Invoke
<1>14. Manager!Next <=> Mng!Next
  BY <1>5, <1>8, <1>13 DEF Manager!Next, Mng!Next
<1>15. QED  BY <1>1, <1>2, <1>14

\* The manager's invariant is kept by the node's use of it.
LEMMA ManagerKeeps ==
  ASSUME Manager!IInv, [Mng!Next]_mngVars  PROVE Manager!IInv'
<1>1. Mng!Next \/ UNCHANGED mngVars
  OBVIOUS
<1>2. CASE Mng!Next
  BY <1>2, SameManager, ManagerAssumption, Manager!NextIInv
<1>3. CASE UNCHANGED mngVars
  <2>1. UNCHANGED Manager!vars
    BY <1>3 DEF mngVars, Manager!vars
  <2>2. QED  BY <2>1, ManagerAssumption, Manager!NextIInv
<1>4. QED  BY <1>1, <1>2, <1>3

(* Every step of the node is one of the manager's, or none. *)

LEMMA StepsOfManager ==
  ASSUME created \subseteq Timers, TimersNext  PROVE Mng!Next \/ UNCHANGED mngVars
<1>1. ~crashed
  BY DEF TimersNext
<1> USE <1>1
<1>2. ASSUME NEW k, Start(k)  PROVE Mng!Next
  <2>1. PICK t \in Fresh(k) : Mng!StartTimer(t, k = "ping")
    BY <1>2 DEF Start
  <2>2. t \in Timers /\ (k = "ping") \in BOOLEAN
    BY <2>1 DEF Fresh
  <2>3. QED  BY <2>1, <2>2 DEF Mng!Next, Mng!Client
<1>3. ASSUME NEW t, Mng!StopTimer(t) \/ Mng!Reset(t) \/ Mng!SetInterval(t)  PROVE Mng!Next
  <2>1. t \in Timers
    BY <1>3 DEF Mng!StopTimer, Mng!Reset, Mng!SetInterval, Mng!NotNull
  <2>2. QED  BY <1>3, <2>1 DEF Mng!Next, Mng!Client
<1>4. ASSUME NEW w \in Workers, Mng!Invoke(w)  PROVE Mng!Next
  BY <1>4 DEF Mng!Next
<1>5. CASE ReadTest \/ RecvVerack \/ Pong
  BY <1>5 DEF ReadTest, RecvVerack, Pong
<1>6. CASE ReadReset
  BY <1>3, <1>6 DEF ReadReset
<1>7. CASE ReadStart
  BY <1>2, <1>7 DEF ReadStart
<1>8. CASE StartOfVerack
  BY <1>2, <1>8 DEF StartOfVerack
<1>9. ASSUME NEW x \in {"event", "handler"}, DisconnectBy(x)  PROVE UNCHANGED mngVars
  BY <1>9 DEF DisconnectBy
<1>10. CASE StopOne
  BY <1>3, <1>10 DEF StopOne, mngVars
<1>11. CASE EndDisconnect
  BY <1>4, <1>11 DEF EndDisconnect, Mng!Invoke
<1>12. ASSUME NEW w \in Workers, TimeoutCb(w)  PROVE Mng!Next \/ UNCHANGED mngVars
  <2>1. CASE CallbackTest(w) \/ CallbackDisconnects(w)
    BY <2>1 DEF CallbackTest, CallbackDisconnects
  <2>2. CASE StopOwnPing(w)
    BY <1>3, <2>2 DEF StopOwnPing
  <2>3. CASE SetOwnInterval(w)
    BY <1>3, <2>3 DEF SetOwnInterval
  <2>4. CASE CallbackReturns(w)
    BY <1>4, <2>4 DEF CallbackReturns, Mng!Invoke
  <2>5. QED  BY <1>12, <2>1, <2>2, <2>3, <2>4 DEF TimeoutCb
<1>13. ASSUME NEW w \in Workers, InvokeStep(w)  PROVE Mng!Next
  BY <1>4, <1>13 DEF InvokeStep, Mng!Invoke
<1>14. CASE TimerLoopStep
  BY <1>14 DEF TimerLoopStep, Mng!Next, Mng!Loop
<1>15. QED
  BY <1>5, <1>6, <1>7, <1>8, <1>9, <1>10, <1>11, <1>12, <1>13, <1>14 DEF TimersNext

\* The timers the node knows are timers, whatever it does with them.
LEMMA StepKeepsCreated ==
  ASSUME created \subseteq Timers, [TimersNext]_timersState
  PROVE  created' \subseteq Timers /\ [Mng!Next]_mngVars
<1>1. Mng!Next \/ UNCHANGED mngVars
  BY StepsOfManager DEF timersState
<1>2. CASE UNCHANGED mngVars
  BY <1>2 DEF mngVars
<1>3. CASE Mng!Next
  <2>1. ASSUME NEW t \in Timers, NEW i \in BOOLEAN, Mng!StartTimer(t, i)
        PROVE  created' \subseteq Timers
    BY <2>1 DEF Mng!StartTimer
  <2>2. ASSUME NEW t \in Timers,
               \/ Mng!StopTimer(t) \/ Mng!Reset(t) \/ Mng!Suspend(t) \/ Mng!Resume(t)
               \/ Mng!SetInterval(t)
        PROVE  created' = created
    BY <2>2 DEF Mng!StopTimer, Mng!Reset, Mng!Suspend, Mng!Resume, Mng!SetInterval,
                Mng!cfgVars
  <2>3. ASSUME NEW due, Mng!SetStop \/ Mng!TestStop \/ Mng!CheckTimers(due)
        PROVE  created' = created
    BY <2>3, Zenon DEF Mng!SetStop, Mng!TestStop, Mng!CheckTimers, Mng!cfgVars
  <2>4. ASSUME NEW w \in Workers, Mng!Invoke(w)  PROVE created' = created
    BY <2>4 DEF Mng!Invoke, Mng!TakeTask, Mng!ReturnFromCb, Mng!Rearm, Mng!EraseOneShot,
                Mng!cfgVars
  <2>5. QED  BY <1>3, <2>1, <2>2, <2>3, <2>4 DEF Mng!Next, Mng!Client, Mng!Loop
<1>4. QED  BY <1>1, <1>2, <1>3

\* However the node, its handlers and its callbacks are interleaved, they use the timer
\* manager as TimerMng specifies it (node.cpp:98-135, net.cpp:190-330, timer.cpp): what is
\* proved of the manager for any clients holds of it under this one.
THEOREM ManagerIsRefined == TimersSpec => TimersRefineMng
<1>1. TimersInit => created \subseteq Timers
  BY DEF TimersInit, InitialTimers, InitialKinds, Timers
<1>2. created \subseteq Timers /\ [TimersNext]_timersState
        => (created \subseteq Timers)' /\ [Mng!Next]_mngVars
  BY StepKeepsCreated
<1>3. QED
  BY <1>1, <1>2, PTL DEF TimersSpec, TimersRefineMng

(* What holds of the timers of a node while it lasts and while it goes. *)

OwnTypes ==
  /\ ptr \in [Kinds -> created \cup {Null}]
  /\ conn \in {"initial", "established", "disconnected"}
  /\ at \in [Workers -> {"test", "return", "stop", "disconnect", "stopping", "interval"}]
  /\ holder \in Threads \cup {None}
  /\ todo \in Seq(Kinds) /\ starting \in Seq(Kinds)
  /\ reading \in {None, "reset", "start"}
  /\ veracks \in 0..MaxVeracks
  /\ orphans \subseteq created
  /\ noMsg \in BOOLEAN /\ pinged \in BOOLEAN /\ member \in BOOLEAN
  /\ nullCall \in BOOLEAN /\ fired \in BOOLEAN

\* A pointer is to a timer of its kind, and it is to every timer in the manager's list but
\* those left behind.
Pointers ==
  /\ \A k \in Kinds : ptr[k] # Null => KindOf(ptr[k]) = k
  /\ \A t \in listed \ orphans : ptr[KindOf(t)] = t

\* A disconnection has still to come to every timer it must stop.
ToStop ==
  /\ todo # <<>> => holder # None
  /\ holder # None => \A t \in listed \ orphans : InSeq(KindOf(t), todo)

\* No pointer is reset before a disconnection.
PointersStay ==
  /\ ~Leaving => \A t \in created : ptr[KindOf(t)] # Null
  /\ reading # None => "no_receiving" \in Kinds
  /\ reading = "reset" /\ ~Leaving => ptr["no_receiving"] # Null

\* Until a timer fires, nothing but the disconnection takes a timer from the list.
BeforeFiring ==
  ~fired => /\ tasks = <<>> /\ \A w \in Workers : worker[w] = Null
            /\ \A k \in Kinds : ptr[k] \in listed \cup {Null}

TimersIInv ==
  /\ Manager!IInv /\ OwnTypes
  /\ Pointers /\ ToStop /\ PointersStay /\ BeforeFiring
  /\ NoTimerLeft /\ AbortNeedsFired /\ NullCallNeedsDisconnection

LEMMA ManagerTypes ==
  ASSUME Manager!IInv
  PROVE  /\ Mng!TypeOK
         /\ created \subseteq Timers /\ listed \subseteq created
         /\ tasks \in Seq(created)
         /\ worker \in [Workers -> created \cup {Null}]
         /\ \A t \in created : KindOf(t) \in Kinds /\ t # Null
<1>1. Mng!TypeOK
  BY SameManager DEF Manager!IInv
<1>2. QED
  BY <1>1, NullIsNoTimer, KindsOfTimers DEF Mng!TypeOK

\* The disconnection stops the timers of all kinds.
LEMMA Orders ==
  /\ VerackTimers \in Seq(Kinds)
  /\ StopOrder \in Seq(Kinds) /\ \A k \in Kinds : InSeq(k, StopOrder)
<1>1. ASSUME NEW k
      PROVE  IfModelled(k) \in Seq(Kinds) /\ (k \in Kinds => InSeq(k, IfModelled(k)))
  <2>1. CASE k \in Kinds
    <3>1. IfModelled(k) = <<k>>
      BY <2>1 DEF IfModelled
    <3>2. <<k>> \in Seq(Kinds) /\ 1 \in DOMAIN <<k>> /\ <<k>>[1] = k
      BY <2>1
    <3>3. QED  BY <3>1, <3>2 DEF InSeq
  <2>2. CASE k \notin Kinds
    BY <2>2, EmptySeq DEF IfModelled
  <2>3. QED  BY <2>1, <2>2
<1> DEFINE m(k) == IfModelled(k)
           v2 == m("ping") \o m("advertise")
           s2 == m("no_msg") \o m("no_receiving")
           s3 == s2 \o m("shakehands")
<1>2. /\ v2 \in Seq(Kinds)
      /\ \A a : InSeq(a, v2) <=> InSeq(a, m("ping")) \/ InSeq(a, m("advertise"))
  BY <1>1, InConcat
<1>3. /\ s2 \in Seq(Kinds)
      /\ \A a : InSeq(a, s2) <=> InSeq(a, m("no_msg")) \/ InSeq(a, m("no_receiving"))
  BY <1>1, InConcat
<1>4. m("broadcast") \in Seq(Kinds) /\ m("shakehands") \in Seq(Kinds)
  BY <1>1
<1>5. /\ VerackTimers = v2 \o m("broadcast")
      /\ StopOrder = s3 \o VerackTimers
  BY DEF VerackTimers, StopOrder
<1> HIDE DEF m, v2, s2
<1>6. /\ VerackTimers \in Seq(Kinds)
      /\ \A a : InSeq(a, VerackTimers) <=> InSeq(a, v2) \/ InSeq(a, m("broadcast"))
  BY <1>2, <1>4, <1>5, InConcat
<1>7. s3 \in Seq(Kinds) /\ \A a : InSeq(a, s3) <=> InSeq(a, s2) \/ InSeq(a, m("shakehands"))
  BY <1>3, <1>4, InConcat
<1> HIDE DEF s3
<1>8. /\ StopOrder \in Seq(Kinds)
      /\ \A a : InSeq(a, StopOrder) <=> InSeq(a, s3) \/ InSeq(a, VerackTimers)
  <2>1. VerackTimers \in Seq(Kinds) /\ s3 \in Seq(Kinds)
    BY <1>6, <1>7
  <2>2. /\ s3 \o VerackTimers \in Seq(Kinds)
        /\ \A a : InSeq(a, s3 \o VerackTimers) <=> InSeq(a, s3) \/ InSeq(a, VerackTimers)
    BY ONLY <2>1, InConcat
  <2>3. QED  BY <1>5, <2>2
<1>9. ASSUME NEW k \in Kinds  PROVE InSeq(k, StopOrder)
  <2>1. k \in {"no_msg", "no_receiving", "shakehands", "ping", "advertise", "broadcast"}
    BY NodeTimersAssumption
  <2>2. InSeq(k, m(k))
    BY <1>1 DEF m
  <2>3. QED  BY <1>2, <1>3, <1>6, <1>7, <1>8, <2>1, <2>2
<1>10. QED  BY <1>6, <1>8, <1>9

LEMMA TimersInitIInv == TimersInit => TimersIInv
<1> SUFFICES ASSUME TimersInit PROVE TimersIInv
  OBVIOUS
<1>1. InitialTimers \subseteq Timers /\ InitialKinds \subseteq Kinds
  BY DEF InitialTimers, InitialKinds, Timers
<1>2. /\ tasks = <<>> /\ DOMAIN tasks = {} /\ raced = {} /\ crashed = FALSE
      /\ \A w \in Workers : worker[w] = Null
      /\ created = InitialTimers /\ listed = InitialTimers
  BY DEF TimersInit
<1>3. Mng!TypeOK
  <2>1. tasks \in Seq(created)
    BY <1>2, EmptySeq
  <2>2. armed \in [Timers -> BOOLEAN]
    <3>1. armed = [t \in Timers |-> t \in InitialTimers]
      BY DEF TimersInit
    <3>2. \A t \in Timers : (t \in InitialTimers) \in BOOLEAN
      OBVIOUS
    <3>3. QED  BY <3>1, <3>2
  <2>3. suspended \in [Timers -> BOOLEAN] /\ periodic \in [Timers -> BOOLEAN]
    BY DEF TimersInit
  <2>4. worker \in [Workers -> created \cup {Null}] /\ phase \in [Workers -> {"cb", "after"}]
    BY DEF TimersInit
  <2>5. stop \in BOOLEAN /\ loop \in {"test", "check", "exited"} /\ crashed \in BOOLEAN
    BY DEF TimersInit
  <2>6. QED  BY <1>1, <1>2, <2>1, <2>2, <2>3, <2>4, <2>5 DEF Mng!TypeOK
<1>4. ASSUME NEW t \in Timers  PROVE ~Manager!Queued(t) /\ ~Manager!Running(t)
  BY <1>2, NullIsNoTimer DEF Manager!Queued, Manager!Running
<1>5. Manager!IInv
  <2>1. \A t \in Timers : Manager!OneHolder(t) /\ Manager!HeldQuietly(t)
    BY <1>2, <1>4, NullIsNoTimer
       DEF Manager!OneHolder, Manager!HeldQuietly, Manager!Outstanding
  <2>2. QED
    BY <1>2, <1>3, <2>1, SameManager DEF Manager!IInv, Manager!CrashNeedsRace
<1>6. \A k \in InitialKinds : <<k, 1>> \in InitialTimers
  BY DEF InitialTimers
<1>7. \A t \in InitialTimers : t = <<KindOf(t), 1>> /\ KindOf(t) \in InitialKinds
  BY DEF InitialTimers, KindOf
<1>8. ptr = [k \in Kinds |-> IF k \in InitialKinds THEN <<k, 1>> ELSE Null]
  BY DEF TimersInit
<1>9. OwnTypes
  <2>1. ptr \in [Kinds -> created \cup {Null}]
    BY <1>2, <1>6, <1>8
  <2>2. /\ conn = "initial" /\ at = [w \in Workers |-> "test"]
        /\ holder = None /\ todo = <<>> /\ starting = <<>> /\ reading = None
        /\ veracks = 0 /\ orphans = {} /\ noMsg = TRUE /\ pinged = FALSE /\ member = TRUE
        /\ nullCall = FALSE /\ fired = FALSE
    BY DEF TimersInit
  <2>3. <<>> \in Seq(Kinds) /\ 0 \in 0..MaxVeracks
    BY EmptySeq, NodeTimersAssumption
  <2>4. QED  BY <2>1, <2>2, <2>3 DEF OwnTypes
<1>10. \A t \in InitialTimers : ptr[KindOf(t)] = t /\ t # Null
  BY <1>1, <1>7, <1>8, NullIsNoTimer
<1>11. Pointers
  BY <1>2, <1>8, <1>10 DEF Pointers, KindOf
<1>12. ToStop /\ PointersStay /\ NoTimerLeft /\ AbortNeedsFired /\ NullCallNeedsDisconnection
  <2>1. todo = <<>> /\ holder = None /\ reading = None /\ member = TRUE /\ nullCall = FALSE
    BY DEF TimersInit
  <2>2. PointersStay
    BY <1>2, <1>10, <2>1 DEF PointersStay, None
  <2>3. QED
    BY <1>2, <2>1, <2>2 DEF ToStop, NoTimerLeft, AbortNeedsFired, NullCallNeedsDisconnection
<1>13. BeforeFiring
  BY <1>2, <1>6, <1>8 DEF BeforeFiring
<1>14. QED
  BY <1>5, <1>9, <1>11, <1>12, <1>13 DEF TimersIInv

(* The steps. *)

\* Steps that leave the pointers, the disconnection and the timers left behind as they are.
LEMMA PointersUntouched ==
  ASSUME TimersIInv, Manager!IInv', OwnTypes', BeforeFiring',
         ptr' = ptr, created' = created, listed' \subseteq listed, orphans' = orphans,
         todo' = todo, holder' = holder, member' = member,
         \/ reading' \in {reading, None}
         \/ reading = None /\ "no_receiving" \in Kinds
            /\ reading' = IF ptr["no_receiving"] # Null THEN "reset" ELSE "start",
         crashed' => fired', nullCall' => Leaving
  PROVE  TimersIInv'
<1>1. Pointers' /\ ToStop' /\ NoTimerLeft'
  BY DEF TimersIInv, Pointers, ToStop, NoTimerLeft
<1>2. Leaving' <=> Leaving
  BY DEF Leaving
<1>3. PointersStay'
  <2>1. PointersStay
    BY DEF TimersIInv
  <2>2. CASE reading' = reading
    BY <1>2, <2>1, <2>2 DEF PointersStay
  <2>3. CASE reading' = None
    BY <1>2, <2>1, <2>3 DEF PointersStay, None
  <2>4. CASE /\ reading = None /\ "no_receiving" \in Kinds
             /\ reading' = IF ptr["no_receiving"] # Null THEN "reset" ELSE "start"
    BY <1>2, <2>1, <2>4 DEF PointersStay
  <2>5. QED  BY <2>2, <2>3, <2>4
<1>4. AbortNeedsFired' /\ NullCallNeedsDisconnection'
  BY <1>2 DEF AbortNeedsFired, NullCallNeedsDisconnection
<1>5. QED  BY <1>1, <1>3, <1>4 DEF TimersIInv

LEMMA ReadTestKeeps == ASSUME TimersIInv, Manager!IInv', ReadTest  PROVE TimersIInv'
<1>1. /\ UNCHANGED mngVars
      /\ ptr' = ptr /\ conn' = conn /\ pinged' = pinged /\ member' = member /\ at' = at
      /\ holder' = holder /\ todo' = todo /\ starting' = starting /\ veracks' = veracks
      /\ nullCall' = nullCall /\ orphans' = orphans /\ fired' = fired /\ noMsg' = FALSE
      /\ reading = None
      /\ IF "no_receiving" \in Kinds
         THEN reading' = IF ptr["no_receiving"] # Null THEN "reset" ELSE "start"
         ELSE reading' = reading
  BY DEF ReadTest
<1>2. created' = created /\ listed' = listed /\ tasks' = tasks /\ worker' = worker
      /\ crashed' = crashed
  BY <1>1 DEF mngVars
<1>3. reading' \in {None, "reset", "start"}
  BY <1>1
<1>4. OwnTypes'
  BY <1>1, <1>2, <1>3 DEF TimersIInv, OwnTypes
<1>5. BeforeFiring'
  BY <1>1, <1>2 DEF TimersIInv, BeforeFiring
<1>6. (crashed' => fired') /\ (nullCall' => Leaving)
  BY <1>1, <1>2 DEF TimersIInv, AbortNeedsFired, NullCallNeedsDisconnection
<1>7. QED  BY <1>1, <1>2, <1>4, <1>5, <1>6, PointersUntouched

LEMMA ReadResetKeeps ==
  ASSUME TimersIInv, ~crashed, Manager!IInv', ReadReset  PROVE TimersIInv'
<1>1. /\ ptr' = ptr /\ conn' = conn /\ noMsg' = noMsg /\ pinged' = pinged /\ member' = member
      /\ at' = at /\ holder' = holder /\ todo' = todo /\ starting' = starting
      /\ veracks' = veracks /\ orphans' = orphans /\ fired' = fired
      /\ reading = "reset" /\ reading' = None
  BY DEF ReadReset, connVars
<1>2. IF ptr["no_receiving"] = Null
      THEN nullCall' = TRUE /\ UNCHANGED mngVars
      ELSE nullCall' = nullCall /\ Mng!Reset(ptr["no_receiving"])
  BY DEF ReadReset
<1>3. created' = created /\ listed' = listed /\ tasks' = tasks /\ worker' = worker
      /\ crashed' = crashed
  <2>1. CASE UNCHANGED mngVars
    BY <2>1 DEF mngVars
  <2>2. CASE Mng!Reset(ptr["no_receiving"])
    BY <2>2 DEF Mng!Reset, Mng!cfgVars, Mng!poolVars
  <2>3. QED  BY <1>2, <2>1, <2>2
<1>4. nullCall' => nullCall \/ ptr["no_receiving"] = Null
  BY <1>2
<1>5. nullCall' \in BOOLEAN
  BY <1>2 DEF TimersIInv, OwnTypes
<1>6. OwnTypes'
  BY <1>1, <1>3, <1>5 DEF TimersIInv, OwnTypes
<1>7. BeforeFiring'
  BY <1>1, <1>3 DEF TimersIInv, BeforeFiring
<1>8. (crashed' => fired') /\ (nullCall' => Leaving)
  BY <1>1, <1>3, <1>4
     DEF TimersIInv, AbortNeedsFired, NullCallNeedsDisconnection, PointersStay
<1>9. QED  BY <1>1, <1>3, <1>6, <1>7, <1>8, PointersUntouched

\* The verack handler's and the pong handler's own steps, and a callback's test.
LEMMA HandlersKeep ==
  ASSUME TimersIInv, Manager!IInv', RecvVerack \/ Pong  PROVE TimersIInv'
<1>1. /\ UNCHANGED mngVars
      /\ ptr' = ptr /\ noMsg' = noMsg /\ member' = member /\ at' = at /\ holder' = holder
      /\ todo' = todo /\ reading' = reading /\ nullCall' = nullCall /\ orphans' = orphans
      /\ fired' = fired
  BY DEF RecvVerack, Pong
<1>2. created' = created /\ listed' = listed /\ tasks' = tasks /\ worker' = worker
      /\ crashed' = crashed
  BY <1>1 DEF mngVars
<1>3. /\ conn' \in {"initial", "established", "disconnected"} /\ pinged' \in BOOLEAN
      /\ starting' \in Seq(Kinds) /\ veracks' \in 0..MaxVeracks
  <2>1. CASE RecvVerack
    <3>1. veracks' = veracks + 1 /\ veracks < MaxVeracks /\ veracks \in 0..MaxVeracks
      BY <2>1 DEF RecvVerack, TimersIInv, OwnTypes
    <3>2. veracks' \in 0..MaxVeracks
      BY <3>1, NodeTimersAssumption
    <3>3. conn' = "established" /\ pinged' = TRUE /\ starting' = VerackTimers
      BY <2>1 DEF RecvVerack
    <3>4. QED  BY <3>2, <3>3, Orders
  <2>2. CASE Pong
    BY <2>2 DEF Pong, TimersIInv, OwnTypes
  <2>3. QED  BY <2>1, <2>2
<1>4. OwnTypes'
  BY <1>1, <1>2, <1>3 DEF TimersIInv, OwnTypes
<1>5. BeforeFiring'
  BY <1>1, <1>2 DEF TimersIInv, BeforeFiring
<1>6. (crashed' => fired') /\ (nullCall' => Leaving)
  BY <1>1, <1>2 DEF TimersIInv, AbortNeedsFired, NullCallNeedsDisconnection
<1>7. QED  BY <1>1, <1>2, <1>4, <1>5, <1>6, PointersUntouched

LEMMA CallbackTestKeeps ==
  ASSUME TimersIInv, Manager!IInv', NEW w \in Workers, CallbackTest(w)  PROVE TimersIInv'
<1>1. /\ UNCHANGED mngVars
      /\ ptr' = ptr /\ conn' = conn /\ noMsg' = noMsg /\ member' = member /\ holder' = holder
      /\ todo' = todo /\ reading' = reading /\ starting' = starting /\ veracks' = veracks
      /\ nullCall' = nullCall /\ orphans' = orphans /\ fired' = fired
      /\ worker[w] # Null
      /\ LET v == Verdict(KindAt(w))
         IN /\ at' = [at EXCEPT ![w] = IF v = "send" THEN "return" ELSE v]
            /\ pinged' = (pinged \/ v = "send")
  BY DEF CallbackTest, InCallback
<1>2. created' = created /\ listed' = listed /\ tasks' = tasks /\ worker' = worker
      /\ crashed' = crashed
  BY <1>1 DEF mngVars
<1>3. at' \in [Workers -> {"test", "return", "stop", "disconnect", "stopping", "interval"}]
  <2>1. KindAt(w) \in Kinds
    BY <1>1, ManagerTypes DEF TimersIInv, KindAt
  <2>2. KindAt(w) \in {"no_msg", "no_receiving", "shakehands", "ping", "advertise",
                       "broadcast"}
    BY <2>1, NodeTimersAssumption
  <2>3. Verdict(KindAt(w)) \in {"return", "disconnect", "stop", "send", "interval"}
    BY <2>2 DEF Verdict
  <2>4. QED  BY <1>1, <2>3 DEF TimersIInv, OwnTypes
<1>4. pinged' \in BOOLEAN
  <2>1. pinged' = (pinged \/ Verdict(KindAt(w)) = "send")
    BY <1>1
  <2>2. QED  BY <2>1 DEF TimersIInv, OwnTypes
<1>5. OwnTypes'
  BY <1>1, <1>2, <1>3, <1>4 DEF TimersIInv, OwnTypes
<1>6. BeforeFiring'
  BY <1>1, <1>2 DEF TimersIInv, BeforeFiring
<1>7. (crashed' => fired') /\ (nullCall' => Leaving)
  BY <1>1, <1>2 DEF TimersIInv, AbortNeedsFired, NullCallNeedsDisconnection
<1>8. QED  BY <1>1, <1>2, <1>5, <1>6, <1>7, PointersUntouched

\* Where a callback runs, a timer has fired.
LEMMA CallbackMeansFired ==
  ASSUME TimersIInv, NEW w \in Workers, worker[w] # Null  PROVE fired = TRUE
  BY DEF TimersIInv, BeforeFiring, OwnTypes

LEMMA StopOwnPingKeeps ==
  ASSUME TimersIInv, Manager!IInv', NEW w \in Workers, StopOwnPing(w)  PROVE TimersIInv'
<1>1. /\ ptr' = ptr /\ conn' = conn /\ noMsg' = noMsg /\ pinged' = pinged /\ member' = member
      /\ holder' = holder /\ todo' = todo /\ reading' = reading /\ starting' = starting
      /\ veracks' = veracks /\ nullCall' = nullCall /\ orphans' = orphans /\ fired' = fired
      /\ worker[w] # Null
      /\ at' = [at EXCEPT ![w] = "disconnect"]
  BY DEF StopOwnPing, InCallback, connVars
<1>2. created' = created /\ listed' \subseteq listed
  <2>1. CASE UNCHANGED mngVars
    BY <2>1 DEF mngVars
  <2>2. CASE Mng!StopTimer(ptr["ping"])
    BY <2>2 DEF Mng!StopTimer, Mng!EraseFromList, Mng!cfgVars
  <2>3. QED  BY <2>1, <2>2 DEF StopOwnPing
<1>3. fired' = TRUE
  BY <1>1, CallbackMeansFired
<1>4. OwnTypes'
  BY <1>1, <1>2 DEF TimersIInv, OwnTypes
<1>5. BeforeFiring' /\ (crashed' => fired')
  BY <1>3 DEF BeforeFiring
<1>6. nullCall' => Leaving
  BY <1>1 DEF TimersIInv, NullCallNeedsDisconnection
<1>7. QED  BY <1>1, <1>2, <1>4, <1>5, <1>6, PointersUntouched

LEMMA SetOwnIntervalKeeps ==
  ASSUME TimersIInv, Manager!IInv', NEW w \in Workers, SetOwnInterval(w)  PROVE TimersIInv'
<1>1. /\ ptr' = ptr /\ conn' = conn /\ noMsg' = noMsg /\ pinged' = pinged /\ member' = member
      /\ holder' = holder /\ todo' = todo /\ reading' = reading /\ starting' = starting
      /\ veracks' = veracks /\ orphans' = orphans /\ fired' = fired
      /\ worker[w] # Null
      /\ at' = [at EXCEPT ![w] = "return"]
  BY DEF SetOwnInterval, InCallback, connVars
<1>2. IF ptr[KindAt(w)] = Null
      THEN nullCall' = TRUE /\ UNCHANGED mngVars
      ELSE nullCall' = nullCall /\ Mng!SetInterval(ptr[KindAt(w)])
  BY DEF SetOwnInterval
<1>3. created' = created /\ listed' = listed
  <2>1. CASE UNCHANGED mngVars
    BY <2>1 DEF mngVars
  <2>2. CASE Mng!SetInterval(ptr[KindAt(w)])
    BY <2>2 DEF Mng!SetInterval
  <2>3. QED  BY <1>2, <2>1, <2>2
<1>4. fired' = TRUE
  BY <1>1, CallbackMeansFired
<1>5. nullCall' \in BOOLEAN
  BY <1>2 DEF TimersIInv, OwnTypes
<1>6. OwnTypes'
  BY <1>1, <1>3, <1>5 DEF TimersIInv, OwnTypes
<1>7. BeforeFiring' /\ (crashed' => fired')
  BY <1>4 DEF BeforeFiring
<1>8. nullCall' => Leaving
  <2>1. worker[w] \in created
    BY <1>1, ManagerTypes DEF TimersIInv
  <2>2. ~Leaving => ptr[KindAt(w)] # Null
    BY <2>1 DEF TimersIInv, PointersStay, KindAt
  <2>3. QED  BY <1>2, <2>2 DEF TimersIInv, NullCallNeedsDisconnection
<1>9. QED  BY <1>1, <1>3, <1>6, <1>7, <1>8, PointersUntouched

\* The pool's steps around a callback: they too need a timer that fired.
LEMMA PoolKeeps ==
  ASSUME TimersIInv, Manager!IInv', NEW w \in Workers, CallbackReturns(w) \/ InvokeStep(w)
  PROVE  TimersIInv'
<1>1. /\ ptr' = ptr /\ conn' = conn /\ noMsg' = noMsg /\ pinged' = pinged /\ member' = member
      /\ holder' = holder /\ todo' = todo /\ reading' = reading /\ starting' = starting
      /\ veracks' = veracks /\ nullCall' = nullCall /\ orphans' = orphans /\ fired' = fired
      /\ at' \in {at, [at EXCEPT ![w] = "test"]}
  BY DEF CallbackReturns, InvokeStep, nodeVars, connVars
<1>2. Mng!TakeTask(w) \/ Mng!ReturnFromCb(w) \/ Mng!Rearm(w) \/ Mng!EraseOneShot(w)
  BY DEF CallbackReturns, InvokeStep
<1>3. created' = created /\ listed' \subseteq listed
  BY <1>2, Zenon DEF Mng!TakeTask, Mng!ReturnFromCb, Mng!Rearm, Mng!EraseOneShot,
     Mng!EraseFromList, Mng!cfgVars
<1>4. worker[w] # Null \/ tasks # <<>>
  BY <1>2 DEF Mng!TakeTask, Mng!TaskReady, Mng!ReturnFromCb, Mng!Rearm, Mng!EraseOneShot
<1>5. fired' = TRUE
  BY <1>1, <1>4 DEF TimersIInv, BeforeFiring, OwnTypes
<1>6. OwnTypes'
  <2>1. at' \in [Workers -> {"test", "return", "stop", "disconnect", "stopping", "interval"}]
    BY <1>1 DEF TimersIInv, OwnTypes
  <2>2. QED  BY <1>1, <1>3, <2>1 DEF TimersIInv, OwnTypes
<1>7. BeforeFiring' /\ (crashed' => fired')
  BY <1>5 DEF BeforeFiring
<1>8. nullCall' => Leaving
  BY <1>1 DEF TimersIInv, NullCallNeedsDisconnection
<1>9. QED  BY <1>1, <1>3, <1>6, <1>7, <1>8, PointersUntouched

LEMMA TimerLoopKeeps ==
  ASSUME TimersIInv, ~crashed, Manager!IInv', TimerLoopStep  PROVE TimersIInv'
<1>1. /\ ptr' = ptr /\ conn' = conn /\ noMsg' = noMsg /\ pinged' = pinged /\ member' = member
      /\ at' = at /\ holder' = holder /\ todo' = todo /\ reading' = reading
      /\ starting' = starting /\ veracks' = veracks /\ nullCall' = nullCall
      /\ orphans' = orphans
  BY DEF TimerLoopStep, connVars
<1>2. CASE Mng!TestStop /\ fired' = fired
  <2>1. created' = created /\ listed' = listed /\ tasks' = tasks /\ worker' = worker
        /\ crashed' = crashed
    BY <1>2 DEF Mng!TestStop, Mng!cfgVars, Mng!poolVars
  <2>2. OwnTypes'
    BY <1>1, <1>2, <2>1 DEF TimersIInv, OwnTypes
  <2>3. BeforeFiring'
    BY <1>1, <1>2, <2>1 DEF TimersIInv, BeforeFiring
  <2>4. (crashed' => fired') /\ (nullCall' => Leaving)
    BY <1>1, <1>2, <2>1 DEF TimersIInv, AbortNeedsFired, NullCallNeedsDisconnection
  <2>5. QED  BY <1>1, <2>1, <2>2, <2>3, <2>4, PointersUntouched
<1>3. ASSUME NEW due \in SUBSET Timers, Mng!CheckTimers(due), fired' = (fired \/ due # {})
      PROVE  TimersIInv'
  <2>1. created' = created /\ listed' = listed /\ worker' = worker /\ crashed' = crashed
    BY <1>3 DEF Mng!CheckTimers, Mng!cfgVars
  <2>2. fired' \in BOOLEAN
    <3>1. (fired \/ due # {}) \in BOOLEAN
      OBVIOUS
    <3>2. QED  BY <1>3, <3>1
  <2>3. OwnTypes'
    BY <1>1, <2>1, <2>2 DEF TimersIInv, OwnTypes
  <2>4. ASSUME due = {}  PROVE tasks' = tasks
    <3>1. PICK order \in [1..Mng!Cardinality(due) -> due] : tasks' = tasks \o order
      BY <1>3 DEF Mng!CheckTimers, Mng!Dispatch
    <3>2. Mng!Cardinality(due) = 0
      <4>1. Mng!Cardinality(due) = Cardinality(due)
        BY Zenon DEF Mng!Cardinality, Cardinality
      <4>2. QED  BY <2>4, <4>1, FS_EmptySet
    <3>3. order \in [1..0 -> created]
      BY <2>4, <3>2
    <3>4. order \in Seq(created) /\ Len(order) = 0
      <4>1. order \in Seq(created)
        BY <3>3, SeqDef
      <4>2. QED  BY <3>3, <4>1, LenProperties
    <3>5. order = <<>>
      BY <3>4, EmptySeq
    <3>6. tasks \in Seq(created)
      BY ManagerTypes DEF TimersIInv
    <3>7. tasks \o <<>> = tasks
      BY <3>6, ConcatEmptySeq
    <3>8. QED  BY <3>1, <3>5, <3>7
  <2>5. ~fired' => ~fired /\ due = {}
    BY <1>3
  <2>6. BeforeFiring'
    BY <1>1, <2>1, <2>4, <2>5 DEF TimersIInv, BeforeFiring
  <2>7. (crashed' => fired') /\ (nullCall' => Leaving)
    BY <1>1, <2>1 DEF TimersIInv, NullCallNeedsDisconnection
  <2>8. QED  BY <1>1, <2>1, <2>3, <2>6, <2>7, PointersUntouched
<1>4. QED  BY <1>2, <1>3 DEF TimerLoopStep

\* A timer is started: the pointer is to it, and one that was overwritten is left behind.
LEMMA StartKeeps ==
  ASSUME TimersIInv, ~nullCall, Manager!IInv', NEW k \in Kinds, Start(k),
         conn' = conn, noMsg' = noMsg, pinged' = pinged, member' = member, at' = at,
         holder' = holder, todo' = todo, reading' \in {reading, None},
         starting' \in Seq(Kinds), veracks' = veracks, nullCall' = nullCall, fired' = fired
  PROVE  TimersIInv'
<1>1. PICK t \in Fresh(k) :
        /\ Mng!StartTimer(t, k = "ping")
        /\ ptr' = [ptr EXCEPT ![k] = t]
        /\ orphans' = orphans \cup (IF Leaving THEN {t} ELSE {})
                              \cup (IF ptr[k] = Null THEN {} ELSE {ptr[k]})
  BY DEF Start
<1>2. t \in Timers /\ t \notin created /\ KindOf(t) = k /\ t # Null
  BY <1>1, NullIsNoTimer DEF Fresh
<1>3. /\ created' = created \cup {t} /\ listed' = listed \cup {t}
      /\ tasks' = tasks /\ worker' = worker /\ crashed' = crashed
  BY <1>1 DEF Mng!StartTimer, Mng!poolVars
<1>4. /\ ptr \in [Kinds -> created \cup {Null}] /\ orphans \subseteq created
      /\ created \subseteq Timers /\ listed \subseteq created
  BY ManagerTypes DEF TimersIInv, OwnTypes
<1>5. /\ ptr' \in [Kinds -> created' \cup {Null}] /\ orphans' \subseteq created'
      /\ ptr'[k] = t /\ \A l \in Kinds : l # k => ptr'[l] = ptr[l]
  BY <1>1, <1>3, <1>4
<1>6. OwnTypes'
  <2>1. reading' \in {None, "reset", "start"}
    BY DEF TimersIInv, OwnTypes
  <2>2. QED  BY <1>3, <1>5, <2>1 DEF TimersIInv, OwnTypes
<1>7. \A u \in created : KindOf(u) \in Kinds /\ u # Null /\ u # t
  BY <1>2, ManagerTypes DEF TimersIInv
<1>8. ASSUME NEW u \in listed' \ orphans', u # t
      PROVE  u \in listed \ orphans /\ KindOf(u) # k
  <2>1. u \in listed \ orphans
    BY <1>1, <1>3, <1>8
  <2>2. ptr[KindOf(u)] = u
    BY <2>1 DEF TimersIInv, Pointers
  <2>3. ptr[k] # u
    BY <1>1, <1>4, <1>7, <1>8, <2>1
  <2>4. QED  BY <2>1, <2>2, <2>3
<1>9. Pointers'
  <2>1. ASSUME NEW l \in Kinds, ptr'[l] # Null  PROVE KindOf(ptr'[l]) = l
    <3>1. CASE l = k
      BY <1>2, <1>5, <3>1
    <3>2. CASE l # k
      BY <1>5, <2>1, <3>2 DEF TimersIInv, Pointers
    <3>3. QED  BY <3>1, <3>2
  <2>2. ASSUME NEW u \in listed' \ orphans'  PROVE ptr'[KindOf(u)] = u
    <3>1. CASE u = t
      BY <1>2, <1>5, <3>1
    <3>2. CASE u # t
      <4>1. u \in listed \ orphans /\ KindOf(u) # k /\ KindOf(u) \in Kinds
        BY <1>4, <1>7, <1>8, <3>2
      <4>2. ptr[KindOf(u)] = u
        BY <4>1 DEF TimersIInv, Pointers
      <4>3. QED  BY <1>5, <4>1, <4>2
    <3>3. QED  BY <3>1, <3>2
  <2>3. QED  BY <2>1, <2>2 DEF Pointers
<1>10. Leaving' <=> Leaving
  BY DEF Leaving
<1>11. Leaving => t \in orphans'
  BY <1>1
<1>12. ToStop' /\ NoTimerLeft'
  <2>1. holder' # None => \A u \in listed' \ orphans' : InSeq(KindOf(u), todo')
    BY <1>8, <1>11 DEF TimersIInv, ToStop, Leaving
  <2>2. ~member' /\ holder' = None => listed' \subseteq orphans'
    BY <1>1, <1>3, <1>11 DEF TimersIInv, NoTimerLeft, Leaving
  <2>3. QED  BY <2>1, <2>2 DEF TimersIInv, ToStop, NoTimerLeft
<1>13. PointersStay'
  <2>1. PointersStay
    BY DEF TimersIInv
  <2>2. ASSUME ~Leaving, NEW u \in created'  PROVE ptr'[KindOf(u)] # Null
    <3>1. CASE u = t
      BY <1>2, <1>5, <3>1
    <3>2. CASE u # t
      <4>1. KindOf(u) \in Kinds /\ ptr[KindOf(u)] # Null
        BY <1>3, <1>7, <2>1, <2>2, <3>2 DEF PointersStay
      <4>2. QED  BY <1>2, <1>5, <4>1
    <3>3. QED  BY <3>1, <3>2
  <2>3. reading' # None => "no_receiving" \in Kinds
    BY <2>1 DEF PointersStay
  <2>4. ASSUME reading' = "reset", ~Leaving  PROVE ptr'["no_receiving"] # Null
    <3>1. reading = "reset"
      BY <2>4 DEF None
    <3>2. "no_receiving" \in Kinds /\ ptr["no_receiving"] # Null
      BY <2>1, <2>4, <3>1 DEF PointersStay, None
    <3>3. QED  BY <1>2, <1>5, <3>2
  <2>5. QED  BY <1>10, <2>2, <2>3, <2>4 DEF PointersStay
<1>14. BeforeFiring'
  <2>1. ASSUME ~fired'
        PROVE  /\ tasks = <<>> /\ \A w \in Workers : worker[w] = Null
               /\ \A l \in Kinds : ptr[l] \in listed \cup {Null}
    BY <2>1 DEF TimersIInv, BeforeFiring
  <2>2. ASSUME ~fired', NEW l \in Kinds  PROVE ptr'[l] \in listed' \cup {Null}
    BY <1>3, <1>5, <2>1, <2>2
  <2>3. QED  BY <1>3, <2>1, <2>2 DEF BeforeFiring
<1>15. AbortNeedsFired' /\ NullCallNeedsDisconnection'
  BY <1>3 DEF TimersIInv, AbortNeedsFired, NullCallNeedsDisconnection
<1>16. QED  BY <1>6, <1>9, <1>12, <1>13, <1>14, <1>15 DEF TimersIInv

LEMMA StartsKeep ==
  ASSUME TimersIInv, ~nullCall, Manager!IInv', ReadStart \/ StartOfVerack  PROVE TimersIInv'
<1>1. CASE ReadStart
  <2>1. "no_receiving" \in Kinds /\ starting \in Seq(Kinds)
    BY <1>1 DEF ReadStart, TimersIInv, PointersStay, None, OwnTypes
  <2>2. /\ Start("no_receiving")
        /\ conn' = conn /\ noMsg' = noMsg /\ pinged' = pinged /\ member' = member
        /\ at' = at /\ holder' = holder /\ todo' = todo /\ starting' = starting
        /\ veracks' = veracks /\ nullCall' = nullCall /\ fired' = fired
        /\ reading' = None
    BY <1>1 DEF ReadStart, connVars
  <2>3. QED  BY <2>1, <2>2, StartKeeps
<1>2. CASE StartOfVerack
  <2>1. starting \in Seq(Kinds) /\ starting # <<>>
    BY <1>2 DEF StartOfVerack, TimersIInv, OwnTypes
  <2>2. Head(starting) \in Kinds /\ Tail(starting) \in Seq(Kinds)
    BY <2>1, HeadTailProperties
  <2>3. /\ Start(Head(starting))
        /\ conn' = conn /\ noMsg' = noMsg /\ pinged' = pinged /\ member' = member
        /\ at' = at /\ holder' = holder /\ todo' = todo /\ reading' = reading
        /\ starting' = Tail(starting) /\ veracks' = veracks /\ nullCall' = nullCall
        /\ fired' = fired
    BY <1>2 DEF StartOfVerack, connVars
  <2>4. QED  BY <2>2, <2>3, StartKeeps
<1>3. QED  BY <1>1, <1>2

\* A disconnection begins, by a handler, the event loop or a callback: all is to be stopped.
LEMMA BeginDisconnectKeeps ==
  ASSUME TimersIInv, Manager!IInv', NEW x \in Threads, BeginDisconnect(x),
         UNCHANGED mngVars, ptr' = ptr, noMsg' = noMsg, pinged' = pinged, member' = member,
         at' \in [Workers -> {"test", "return", "stop", "disconnect", "stopping", "interval"}],
         reading' = reading, starting' = starting, veracks' = veracks, nullCall' = nullCall,
         orphans' = orphans, fired' = fired
  PROVE  TimersIInv'
<1>1. holder' = x /\ conn' = "disconnected" /\ todo' = StopOrder
  BY DEF BeginDisconnect
<1>2. /\ created' = created /\ listed' = listed /\ tasks' = tasks /\ worker' = worker
      /\ crashed' = crashed
  BY DEF mngVars
<1>3. x # None
  BY NodeTimersAssumption DEF Threads, None
<1>4. Leaving'
  BY <1>1, <1>3 DEF Leaving
<1>5. OwnTypes'
  BY <1>1, <1>2, Orders DEF TimersIInv, OwnTypes
<1>6. Pointers'
  BY <1>2 DEF TimersIInv, Pointers
<1>7. ToStop'
  <2>1. \A t \in listed' : KindOf(t) \in Kinds
    BY <1>2, ManagerTypes DEF TimersIInv
  <2>2. QED  BY <1>1, <1>3, <2>1, Orders DEF ToStop
<1>8. PointersStay'
  <2>1. PointersStay
    BY DEF TimersIInv
  <2>2. QED  BY <1>4, <2>1 DEF PointersStay
<1>9. BeforeFiring'
  BY <1>2 DEF TimersIInv, BeforeFiring
<1>10. NoTimerLeft' /\ AbortNeedsFired' /\ NullCallNeedsDisconnection'
  BY <1>1, <1>2, <1>3, <1>4
     DEF TimersIInv, NoTimerLeft, AbortNeedsFired, NullCallNeedsDisconnection
<1>11. QED  BY <1>5, <1>6, <1>7, <1>8, <1>9, <1>10 DEF TimersIInv

LEMMA DisconnectsKeep ==
  ASSUME TimersIInv, Manager!IInv',
         \/ \E x \in {"event", "handler"} : DisconnectBy(x)
         \/ \E w \in Workers : CallbackDisconnects(w)
  PROVE  TimersIInv'
<1>1. at \in [Workers -> {"test", "return", "stop", "disconnect", "stopping", "interval"}]
  BY DEF TimersIInv, OwnTypes
<1>2. ASSUME NEW x \in {"event", "handler"}, DisconnectBy(x)  PROVE TimersIInv'
  <2>1. x \in Threads
    BY DEF Threads
  <2>2. /\ BeginDisconnect(x) /\ UNCHANGED mngVars
        /\ ptr' = ptr /\ noMsg' = noMsg /\ pinged' = pinged /\ member' = member /\ at' = at
        /\ reading' = reading /\ starting' = starting /\ veracks' = veracks
        /\ nullCall' = nullCall /\ orphans' = orphans /\ fired' = fired
    BY <1>2 DEF DisconnectBy
  <2>3. QED  BY <1>1, <2>1, <2>2, BeginDisconnectKeeps
<1>3. ASSUME NEW w \in Workers, CallbackDisconnects(w)  PROVE TimersIInv'
  <2>1. w \in Threads
    BY DEF Threads
  <2>2. /\ BeginDisconnect(w) /\ UNCHANGED mngVars
        /\ ptr' = ptr /\ noMsg' = noMsg /\ pinged' = pinged /\ member' = member
        /\ at' = [at EXCEPT ![w] = "stopping"]
        /\ reading' = reading /\ starting' = starting /\ veracks' = veracks
        /\ nullCall' = nullCall /\ orphans' = orphans /\ fired' = fired
    BY <1>3 DEF CallbackDisconnects
  <2>3. at' \in [Workers -> {"test", "return", "stop", "disconnect", "stopping", "interval"}]
    BY <1>1, <2>2
  <2>4. QED  BY <2>1, <2>2, <2>3, BeginDisconnectKeeps
<1>4. QED  BY <1>2, <1>3

\* StopAllTimers goes on to the next pointer: the timer of its kind is out of the list.
LEMMA StopOneKeeps ==
  ASSUME TimersIInv, ~crashed, ~nullCall, Manager!IInv', StopOne  PROVE TimersIInv'
<1> DEFINE k == Head(todo)
<1>1. /\ todo # <<>> /\ todo' = Tail(todo)
      /\ conn' = conn /\ noMsg' = noMsg /\ pinged' = pinged /\ member' = member /\ at' = at
      /\ holder' = holder /\ reading' = reading /\ starting' = starting /\ veracks' = veracks
      /\ nullCall' = nullCall /\ orphans' = orphans /\ fired' = fired
  BY DEF StopOne, connVars
<1>2. todo \in Seq(Kinds)
  BY DEF TimersIInv, OwnTypes
<1>3. k \in Kinds /\ Tail(todo) \in Seq(Kinds)
  BY <1>1, <1>2, HeadTailProperties
<1>4. ASSUME NEW a, InSeq(a, todo), a # k  PROVE InSeq(a, Tail(todo))
  <2>1. /\ Len(todo) \in Nat /\ DOMAIN todo = 1..Len(todo) /\ k = todo[1]
        /\ Len(Tail(todo)) = Len(todo) - 1
        /\ \A i \in 1..Len(Tail(todo)) : Tail(todo)[i] = todo[i + 1]
    BY <1>1, <1>2, LenProperties, HeadTailProperties
  <2>2. DOMAIN Tail(todo) = 1..Len(todo) - 1
    BY <1>3, <2>1, LenProperties
  <2>3. PICK i \in 1..Len(todo) : todo[i] = a
    BY <1>4, <2>1 DEF InSeq
  <2>4. i # 1
    BY <1>4, <2>1, <2>3
  <2>5. i - 1 \in 1..Len(todo) - 1 /\ (i - 1) + 1 = i
    BY <2>1, <2>3, <2>4
  <2>6. Tail(todo)[i - 1] = a
    BY <2>1, <2>3, <2>5
  <2>7. QED  BY <2>2, <2>5, <2>6 DEF InSeq
<1>5. /\ IF ptr[k] = Null THEN ptr' = ptr ELSE ptr' = [ptr EXCEPT ![k] = Null]
      /\ created' = created /\ tasks' = tasks /\ worker' = worker
      /\ listed' = listed \ {ptr[k]}
      /\ crashed' => ptr[k] # Null /\ ptr[k] \notin listed
  <2>1. CASE ptr[k] = Null
    <3>1. ptr' = ptr /\ UNCHANGED mngVars
      BY <2>1 DEF StopOne
    <3>2. Null \notin listed
      BY ManagerTypes DEF TimersIInv
    <3>3. QED  BY <2>1, <3>1, <3>2 DEF mngVars
  <2>2. CASE ptr[k] # Null
    <3>1. Mng!StopTimer(ptr[k]) /\ ptr' = [ptr EXCEPT ![k] = Null]
      BY <2>2 DEF StopOne, Released
    <3>2. QED
      BY <2>2, <3>1 DEF Mng!StopTimer, Mng!EraseFromList, Mng!cfgVars, Mng!poolVars
  <2>3. QED  BY <2>1, <2>2
<1> HIDE DEF k
<1>6. ptr \in [Kinds -> created \cup {Null}]
  BY DEF TimersIInv, OwnTypes
<1>7. /\ ptr' \in [Kinds -> created' \cup {Null}]
      /\ ptr'[k] = Null /\ \A l \in Kinds : l # k => ptr'[l] = ptr[l]
  BY <1>3, <1>5, <1>6
<1>8. OwnTypes'
  BY <1>1, <1>3, <1>5, <1>7 DEF TimersIInv, OwnTypes
<1>9. \A t \in listed : KindOf(t) \in Kinds /\ t # Null
  BY ManagerTypes DEF TimersIInv
<1>10. ASSUME NEW t \in listed' \ orphans'
       PROVE  t \in listed \ orphans /\ KindOf(t) # k /\ ptr[KindOf(t)] = t
  <2>1. t \in listed \ orphans /\ t # ptr[k]
    BY <1>1, <1>5, <1>10
  <2>2. ptr[KindOf(t)] = t
    BY <2>1 DEF TimersIInv, Pointers
  <2>3. QED  BY <2>1, <2>2
<1>11. Pointers'
  <2>1. ASSUME NEW l \in Kinds, ptr'[l] # Null  PROVE KindOf(ptr'[l]) = l
    BY <1>7, <2>1 DEF TimersIInv, Pointers
  <2>2. ASSUME NEW t \in listed' \ orphans'  PROVE ptr'[KindOf(t)] = t
    BY <1>7, <1>9, <1>10
  <2>3. QED  BY <2>1, <2>2 DEF Pointers
<1>12. holder # None
  BY <1>1 DEF TimersIInv, ToStop
<1>13. ToStop'
  <2>1. ASSUME NEW t \in listed' \ orphans'  PROVE InSeq(KindOf(t), todo')
    <3>1. InSeq(KindOf(t), todo)
      BY <1>10, <1>12 DEF TimersIInv, ToStop
    <3>2. QED  BY <1>1, <1>4, <1>10, <3>1
  <2>2. QED  BY <1>1, <1>12, <2>1 DEF ToStop
<1>14. Leaving'
  BY <1>1, <1>12 DEF Leaving
<1>15. PointersStay'
  BY <1>1, <1>14 DEF TimersIInv, PointersStay
<1>16. ~fired => ptr[k] \in listed \cup {Null}
  BY <1>3 DEF TimersIInv, BeforeFiring
<1>17. BeforeFiring'
  <2>1. ASSUME ~fired, NEW l \in Kinds  PROVE ptr'[l] \in listed' \cup {Null}
    <3>1. CASE l = k
      BY <1>7, <3>1
    <3>2. CASE l # k
      <4>1. ptr'[l] = ptr[l] /\ ptr[l] \in listed \cup {Null}
        BY <1>7, <2>1, <3>2 DEF TimersIInv, BeforeFiring
      <4>2. ptr[l] # Null => KindOf(ptr[l]) = l
        BY DEF TimersIInv, Pointers
      <4>3. ptr[k] # Null => KindOf(ptr[k]) = k
        BY <1>3 DEF TimersIInv, Pointers
      <4>4. QED  BY <1>5, <3>2, <4>1, <4>2, <4>3
    <3>3. QED  BY <3>1, <3>2
  <2>2. QED  BY <1>1, <1>5, <2>1 DEF TimersIInv, BeforeFiring
<1>18. NoTimerLeft' /\ AbortNeedsFired' /\ NullCallNeedsDisconnection'
  BY <1>1, <1>5, <1>12, <1>14, <1>16
     DEF TimersIInv, NoTimerLeft, AbortNeedsFired, NullCallNeedsDisconnection
<1>19. QED  BY <1>8, <1>11, <1>13, <1>15, <1>17, <1>18 DEF TimersIInv

LEMMA EndDisconnectKeeps ==
  ASSUME TimersIInv, ~crashed, Manager!IInv', EndDisconnect  PROVE TimersIInv'
<1>1. /\ holder # None /\ todo = <<>> /\ holder' = None /\ member' = FALSE
      /\ ptr' = ptr /\ conn' = conn /\ noMsg' = noMsg /\ pinged' = pinged /\ todo' = todo
      /\ reading' = reading /\ starting' = starting /\ veracks' = veracks
      /\ nullCall' = nullCall /\ orphans' = orphans /\ fired' = fired
      /\ at' \in {at, [at EXCEPT ![holder] = "test"]}
  BY DEF EndDisconnect
<1>2. /\ created' = created /\ listed' = listed /\ tasks' = tasks /\ worker' = worker
      /\ crashed' = crashed
  <2>1. Mng!ReturnFromCb(holder) \/ UNCHANGED mngVars
    BY DEF EndDisconnect
  <2>2. CASE UNCHANGED mngVars
    BY <2>2 DEF mngVars
  <2>3. CASE Mng!ReturnFromCb(holder)
    BY <2>3, Zenon DEF Mng!ReturnFromCb, Mng!cfgVars
  <2>4. QED  BY <2>1, <2>2, <2>3
<1>3. OwnTypes'
  <2>1. at' \in [Workers -> {"test", "return", "stop", "disconnect", "stopping", "interval"}]
    BY <1>1 DEF TimersIInv, OwnTypes
  <2>2. QED  BY <1>1, <1>2, <2>1 DEF TimersIInv, OwnTypes
<1>4. Pointers'
  BY <1>1, <1>2 DEF TimersIInv, Pointers
<1>5. Leaving' /\ Leaving
  BY <1>1 DEF Leaving
<1>6. listed \subseteq orphans
  BY <1>1 DEF TimersIInv, ToStop, InSeq
<1>7. ToStop' /\ NoTimerLeft'
  BY <1>1, <1>2, <1>6 DEF ToStop, NoTimerLeft
<1>8. PointersStay'
  BY <1>1, <1>5 DEF TimersIInv, PointersStay
<1>9. BeforeFiring'
  BY <1>1, <1>2 DEF TimersIInv, BeforeFiring
<1>10. AbortNeedsFired' /\ NullCallNeedsDisconnection'
  BY <1>1, <1>2, <1>5 DEF TimersIInv, AbortNeedsFired, NullCallNeedsDisconnection
<1>11. QED  BY <1>3, <1>4, <1>7, <1>8, <1>9, <1>10 DEF TimersIInv

LEMMA TimersStepIInv == TimersIInv /\ [TimersNext]_timersState => TimersIInv'
<1> SUFFICES ASSUME TimersIInv, [TimersNext]_timersState PROVE TimersIInv'
  OBVIOUS
<1>1. created \subseteq Timers
  BY ManagerTypes DEF TimersIInv
<1>2. [Mng!Next]_mngVars
  BY <1>1, StepKeepsCreated
<1>3. Manager!IInv'
  BY <1>2, ManagerKeeps DEF TimersIInv
<1>4. CASE TimersNext
  <2>1. ~crashed /\ ~nullCall
    BY <1>4 DEF TimersNext
  <2>2. ASSUME NEW w \in Workers, TimeoutCb(w)  PROVE TimersIInv'
    BY <1>3, <2>2, CallbackTestKeeps, StopOwnPingKeeps, DisconnectsKeep, SetOwnIntervalKeeps,
       PoolKeeps DEF TimeoutCb
  <2>3. ASSUME NEW w \in Workers, InvokeStep(w)  PROVE TimersIInv'
    BY <1>3, <2>3, PoolKeeps
  <2>4. CASE \E x \in {"event", "handler"} : DisconnectBy(x)
    BY <1>3, <2>4, DisconnectsKeep
  <2>5. CASE ReadTest \/ ReadReset \/ ReadStart \/ RecvVerack \/ StartOfVerack \/ Pong
    BY <1>3, <2>1, <2>5, ReadTestKeeps, ReadResetKeeps, StartsKeep, HandlersKeep
  <2>6. CASE StopOne \/ EndDisconnect \/ TimerLoopStep
    BY <1>3, <2>1, <2>6, StopOneKeeps, EndDisconnectKeeps, TimerLoopKeeps
  <2>7. QED  BY <1>4, <2>2, <2>3, <2>4, <2>5, <2>6 DEF TimersNext
<1>5. CASE UNCHANGED timersState
  <2>1. UNCHANGED mngVars /\ UNCHANGED nodeVars
    BY <1>5 DEF timersState
  <2>2. /\ created' = created /\ listed' = listed /\ tasks' = tasks /\ worker' = worker
        /\ crashed' = crashed
    BY <2>1 DEF mngVars
  <2>3. /\ ptr' = ptr /\ conn' = conn /\ noMsg' = noMsg /\ pinged' = pinged
        /\ member' = member /\ at' = at /\ holder' = holder /\ todo' = todo
        /\ reading' = reading /\ starting' = starting /\ veracks' = veracks
        /\ nullCall' = nullCall /\ orphans' = orphans /\ fired' = fired
    BY <2>1 DEF nodeVars, connVars
  <2>4. OwnTypes'
    BY <2>2, <2>3 DEF TimersIInv, OwnTypes
  <2>5. BeforeFiring'
    BY <2>2, <2>3 DEF TimersIInv, BeforeFiring
  <2>6. (crashed' => fired') /\ (nullCall' => Leaving)
    BY <2>2, <2>3 DEF TimersIInv, AbortNeedsFired, NullCallNeedsDisconnection
  <2>7. QED  BY <1>3, <2>2, <2>3, <2>4, <2>5, <2>6, PointersUntouched
<1>6. QED  BY <1>4, <1>5

\* The inductive invariant of a node's timers, over what was proved of the manager's own.
THEOREM TimersInvariance == TimersSpec => []TimersIInv
BY TimersInitIInv, TimersStepIInv, PTL DEF TimersSpec

\* A disconnection in the middle of anything leaves no timer of the node behind but those
\* started too late to be seen or made unreachable by a second verack; before a timer has
\* fired it cannot make the process abort; and a null pointer is called only after it began
\* (node.cpp:98-135, verack.cpp:47-69, libevent.cpp:112, net.cpp:226).
THEOREM DisconnectionStopsTimers == TimersSpec => []TimersSafe
<1>1. TimersIInv => TimersSafe
  <2>1. SUFFICES ASSUME TimersIInv PROVE TimersSafe
    OBVIOUS
  <2>2. Mng!TypeOK
    BY <2>1, ManagerTypes DEF TimersIInv
  <2>3. TimersTypeOK
    BY <2>1, <2>2 DEF TimersIInv, OwnTypes, TimersTypeOK
  <2>4. QED  BY <2>1, <2>3 DEF TimersIInv, TimersSafe
<1>2. QED  BY TimersInvariance, <1>1, PTL

\* What the manager promises any client it promises the node: a callback that nothing
\* re-armed or stopped under an outstanding call has one call queued or running at most
\* (timer.cpp:123-142), which PingTimeoutCb and its like rely on.
THEOREM CallbacksOfNodeNeverOverlap == TimersSpec => [](Mng!NoOverlap /\ Mng!CrashNeedsRace)
<1>1. ASSUME TimersIInv  PROVE Mng!NoOverlap
  <2>1. Manager!NoOverlap
    BY <1>1, ManagerAssumption, Manager!OneHolderOneCall DEF TimersIInv
  <2>2. Manager!NoOverlap <=> Mng!NoOverlap
    BY Zenon DEF Manager!NoOverlap, Mng!NoOverlap, Manager!Calls, Mng!Calls,
                 Manager!Cardinality, Mng!Cardinality
  <2>3. QED  BY <2>1, <2>2
<1>2. ASSUME TimersIInv  PROVE Mng!CrashNeedsRace
  BY <1>2 DEF TimersIInv, Manager!IInv, Manager!CrashNeedsRace, Mng!CrashNeedsRace
<1>3. QED  BY TimersInvariance, <1>1, <1>2, PTL

(***************************************************************************)
(* The relay of addresses to a node.                                       *)
(***************************************************************************)

\* All that has gone to the node, what is in the message at hand included.
Gone == sent \o msg

\* Equal elements are apart by more than known_addrs_ holds ...
Spaced(s) == \A i, j \in DOMAIN s : i < j /\ s[i] = s[j] => j - i > KnownSize

\* ... since known_addrs_ is the end of what has gone.
EndOf(k, s) ==
  /\ Len(k) = IF Len(s) < KnownSize THEN Len(s) ELSE KnownSize
  /\ \A i \in 1..Len(k) : k[i] = s[Len(s) - Len(k) + i]

Limits ==
  /\ WithinLimits
  /\ Len(msg) < MaxAddrsInMsg
  /\ pass # "loop" => msg = <<>>

\* During a pass, what is in the queue was copied, has gone, or came late.
InPass ==
  /\ pass = "loop" => \A a : InSeq(a, toSend) => InSeq(a, copy) \/ InSeq(a, Gone) \/ a \in late
  /\ pass = "sent" => \A a : InSeq(a, toSend) => InSeq(a, Gone) \/ a \in late
Accounted ==
  \A a \in accepted : InSeq(a, Gone) \/ InSeq(a, toSend) \/ a \in replaced \cup late \cup overrun

Own(a) == a \in RoutableAddrs /\ (InSeq(a, locals) \/ a = told)
Owned == (\A a \in accepted : Own(a)) /\ \A x \in Advertisers : adv[x] # NoAddr => Own(adv[x])

RelayIInv ==
  /\ RelayTypeOK /\ Limits
  /\ Spaced(Gone) /\ EndOf(known, Gone)
  /\ InPass /\ Accounted /\ Owned

\* An address that is not known goes, and is known from then on.
LEMMA OneMoreGoes ==
  ASSUME NEW s \in Seq(Addrs), NEW a \in Addrs, known \in Seq(Addrs),
         Spaced(s), EndOf(known, s), ~InSeq(a, known)
  PROVE  /\ WithKnown(a) \in Seq(Addrs) /\ Len(WithKnown(a)) <= KnownSize
         /\ Spaced(Append(s, a)) /\ EndOf(WithKnown(a), Append(s, a))
<1> DEFINE n == Len(s)
           c == Append(s, a)
           w == WithKnown(a)
<1>1. KnownSize \in Nat \ {0}
  BY RelayAssumption
<1>2. n \in Nat /\ DOMAIN s = 1..n /\ Len(known) \in Nat /\ DOMAIN known = 1..Len(known)
  BY LenProperties
<1>3. /\ c \in Seq(Addrs) /\ Len(c) = n + 1
      /\ \A i \in 1..n : c[i] = s[i]
      /\ c[n + 1] = a
  BY AppendProperties
<1>4. DOMAIN c = 1..n + 1
  BY <1>2, <1>3, LenProperties
<1>5. Len(known) = IF n < KnownSize THEN n ELSE KnownSize
  BY DEF EndOf
<1>6. \A i \in 1..Len(known) : known[i] = s[n - Len(known) + i]
  BY DEF EndOf
<1> HIDE DEF n, c
<1>7. ASSUME NEW i \in 1..n, s[i] = a  PROVE n + 1 - i > KnownSize
  <2>1. SUFFICES ASSUME n + 1 - i <= KnownSize PROVE FALSE
    BY <1>1, <1>2
  <2>2. i - (n - Len(known)) \in 1..Len(known)
    BY <1>1, <1>2, <1>5, <2>1
  <2>3. n - Len(known) + (i - (n - Len(known))) = i
    BY <1>2
  <2>4. known[i - (n - Len(known))] = a
    BY <1>6, <1>7, <2>2, <2>3
  <2>5. QED  BY <1>2, <2>2, <2>4 DEF InSeq
<1>8. Spaced(c)
  <2>1. SUFFICES ASSUME NEW i \in 1..n + 1, NEW j \in 1..n + 1, i < j, c[i] = c[j]
                 PROVE  j - i > KnownSize
    BY <1>4 DEF Spaced
  <2>2. CASE j = n + 1
    <3>1. i \in 1..n
      BY <1>2, <2>1, <2>2
    <3>2. s[i] = a
      BY <1>3, <2>1, <2>2, <3>1
    <3>3. n + 1 - i > KnownSize
      BY <1>7, <3>1, <3>2
    <3>4. QED  BY <1>1, <1>2, <2>1, <2>2, <3>3
  <2>3. CASE j # n + 1
    <3>1. i \in 1..n /\ j \in 1..n
      BY <1>2, <2>1, <2>3
    <3>2. s[i] = s[j]
      BY <1>3, <2>1, <3>1
    <3>3. QED  BY <1>2, <2>1, <3>1, <3>2 DEF Spaced
  <2>4. QED  BY <2>2, <2>3
<1>9. CASE Len(known) = KnownSize
  <2>1. w = Append(Tail(known), a)
    BY <1>9 DEF WithKnown
  <2>2. known # <<>>
    BY <1>1, <1>9, EmptySeq
  <2>3. /\ Tail(known) \in Seq(Addrs) /\ Len(Tail(known)) = KnownSize - 1
        /\ \A i \in 1..KnownSize - 1 : Tail(known)[i] = known[i + 1]
    BY <1>9, <2>2, HeadTailProperties
  <2>4. /\ w \in Seq(Addrs) /\ Len(w) = (KnownSize - 1) + 1
        /\ \A i \in 1..KnownSize - 1 : w[i] = Tail(known)[i]
        /\ w[(KnownSize - 1) + 1] = a
    BY <2>1, <2>3, AppendProperties
  <2> HIDE DEF w
  <2>5. Len(w) = KnownSize /\ w[KnownSize] = a
    BY <1>1, <2>4
  <2>6. n >= KnownSize
    BY <1>1, <1>2, <1>5, <1>9
  <2>7. ASSUME NEW i \in 1..KnownSize  PROVE w[i] = c[(n + 1) - KnownSize + i]
    <3>1. CASE i = KnownSize
      <4>1. (n + 1) - KnownSize + i = n + 1
        BY <1>1, <1>2, <3>1
      <4>2. QED  BY <1>3, <2>5, <3>1, <4>1
    <3>2. CASE i # KnownSize
      <4>1. i \in 1..KnownSize - 1 /\ i + 1 \in 1..KnownSize
        BY <1>1, <3>2
      <4>2. w[i] = known[i + 1]
        BY <2>3, <2>4, <4>1
      <4>3. known[i + 1] = s[n - KnownSize + (i + 1)]
        BY <1>6, <1>9, <4>1
      <4>4. /\ n - KnownSize + (i + 1) = (n + 1) - KnownSize + i
            /\ (n + 1) - KnownSize + i \in 1..n
        BY <1>1, <1>2, <2>6, <4>1
      <4>5. c[(n + 1) - KnownSize + i] = s[(n + 1) - KnownSize + i]
        BY <1>3, <4>4
      <4>6. QED  BY <4>2, <4>3, <4>4, <4>5
    <3>3. QED  BY <3>1, <3>2
  <2>8. Len(w) = IF Len(c) < KnownSize THEN Len(c) ELSE KnownSize
    BY <1>1, <1>2, <1>3, <2>5, <2>6
  <2>9. EndOf(w, c)
    BY <1>3, <2>5, <2>7, <2>8 DEF EndOf
  <2>10. w \in Seq(Addrs) /\ Len(w) <= KnownSize
    BY <1>1, <2>4, <2>5
  <2>11. QED  BY <1>8, <2>9, <2>10 DEF c, w
<1>10. CASE Len(known) # KnownSize
  <2>1. w = Append(known, a)
    BY <1>10 DEF WithKnown
  <2>2. /\ w \in Seq(Addrs) /\ Len(w) = Len(known) + 1
        /\ \A i \in 1..Len(known) : w[i] = known[i]
        /\ w[Len(known) + 1] = a
    BY <2>1, AppendProperties
  <2> HIDE DEF w
  <2>3. Len(known) = n /\ n < KnownSize
    BY <1>5, <1>10
  <2>4. ASSUME NEW i \in 1..n + 1  PROVE w[i] = c[(n + 1) - (n + 1) + i]
    <3>1. (n + 1) - (n + 1) + i = i
      BY <1>2
    <3>2. CASE i = n + 1
      BY <1>3, <2>2, <2>3, <3>1, <3>2
    <3>3. CASE i # n + 1
      <4>1. i \in 1..n /\ n - n + i = i
        BY <1>2, <3>3
      <4>2. QED  BY <1>3, <1>6, <2>2, <2>3, <3>1, <4>1
    <3>4. QED  BY <3>2, <3>3
  <2>5. Len(w) = IF Len(c) < KnownSize THEN Len(c) ELSE KnownSize
    BY <1>1, <1>2, <1>3, <2>2, <2>3
  <2>6. EndOf(w, c)
    BY <1>3, <2>2, <2>3, <2>4, <2>5 DEF EndOf
  <2>7. w \in Seq(Addrs) /\ Len(w) <= KnownSize
    BY <1>1, <1>2, <2>2, <2>3
  <2>8. QED  BY <1>8, <2>6, <2>7 DEF c, w
<1>11. QED  BY <1>9, <1>10

\* What is known has gone.
LEMMA KnownHasGone ==
  ASSUME NEW s \in Seq(Addrs), known \in Seq(Addrs), EndOf(known, s), NEW a, InSeq(a, known)
  PROVE  InSeq(a, s)
<1>1. /\ Len(s) \in Nat /\ DOMAIN s = 1..Len(s)
      /\ Len(known) \in Nat /\ DOMAIN known = 1..Len(known)
  BY LenProperties
<1>2. PICK i \in 1..Len(known) : known[i] = a
  BY <1>1 DEF InSeq
<1>3. Len(s) - Len(known) + i \in 1..Len(s)
  BY <1>1, <1>2, RelayAssumption DEF EndOf
<1>4. s[Len(s) - Len(known) + i] = a
  BY <1>2 DEF EndOf
<1>5. QED  BY <1>1, <1>3, <1>4 DEF InSeq

LEMMA RelayInitIInv == RelayInit => RelayIInv
<1> SUFFICES ASSUME RelayInit PROVE RelayIInv
  OBVIOUS
<1>1. <<>> \in Seq(Addrs) /\ <<>> \in Seq(RoutableAddrs) /\ Len(<<>>) = 0 /\ DOMAIN <<>> = {}
  BY EmptySeq
<1>2. /\ locals = <<>> /\ told = NoAddr /\ toSend = <<>> /\ known = <<>> /\ pass = "idle"
      /\ copy = <<>> /\ msg = <<>> /\ sent = <<>> /\ lengths = {}
      /\ accepted = {} /\ replaced = {} /\ late = {} /\ overrun = {} /\ aborted = FALSE
      /\ started = FALSE /\ left = FALSE
      /\ adv = [x \in Advertisers |-> NoAddr]
  BY DEF RelayInit
<1>3. Gone = <<>>
  BY <1>1, <1>2, ConcatEmptySeq DEF Gone
<1>4. RelayTypeOK
  <2>1. Len(known) <= KnownSize
    BY <1>1, <1>2, RelayAssumption
  <2>2. /\ locals \in Seq(RoutableAddrs) /\ toSend \in Seq(Addrs) /\ known \in Seq(Addrs)
        /\ copy \in Seq(Addrs) /\ msg \in Seq(Addrs) /\ sent \in Seq(Addrs)
    BY <1>1, <1>2
  <2>3. adv \in [Advertisers -> Addrs \cup {NoAddr}]
    BY <1>2
  <2>4. QED  BY <1>2, <2>1, <2>2, <2>3, Zenon DEF RelayTypeOK
<1>5. Limits
  BY <1>1, <1>2, RelayAssumption DEF Limits, WithinLimits
<1>6. Spaced(Gone) /\ EndOf(known, Gone)
  BY <1>1, <1>2, <1>3, RelayAssumption DEF Spaced, EndOf
<1>7. InPass /\ Accounted /\ Owned
  BY <1>2 DEF InPass, Accounted, Owned
<1>8. QED  BY <1>4, <1>5, <1>6, <1>7 DEF RelayIInv

\* What has gone is a sequence of addresses; what was sent is the beginning of it.
LEMMA GoneIsSeq ==
  ASSUME RelayTypeOK
  PROVE  /\ Gone \in Seq(Addrs)
         /\ \A a : InSeq(a, Gone) <=> InSeq(a, sent) \/ InSeq(a, msg)
  BY InConcat DEF RelayTypeOK, Gone

\* The addresses of the host, and what we advertise of them: nothing else changes.
LEMMA OwnStays ==
  ASSUME NEW a, Own(a), locals \in Seq(RoutableAddrs),
         locals' = locals \/ \E b \in RoutableAddrs : locals' = Append(locals, b),
         told' = told \/ told \notin ValidAddrs
  PROVE  Own(a)'
<1>1. InSeq(a, locals) => InSeq(a, locals')
  <2>1. ASSUME NEW b \in RoutableAddrs, locals' = Append(locals, b), InSeq(a, locals)
        PROVE  InSeq(a, locals')
    <3>1. \A c : InSeq(c, Append(locals, b)) <=> InSeq(c, locals) \/ c = b
      BY InAppend
    <3>2. QED  BY <2>1, <3>1
  <2>2. QED  BY <2>1
<1>2. a = told => told' = told
  BY RelayAssumption DEF Own
<1>3. QED  BY <1>1, <1>2 DEF Own

LEMMA AddressesKeep ==
  ASSUME RelayIInv,
         \/ \E a \in Interfaces : AddLocalAddr(a)
         \/ EndDiscovery
         \/ \E a \in Addrs : SetLocalAddr(a)
         \/ \E x \in Advertisers, first \in BOOLEAN : AdvertiseLocalAddr(x, first)
         \/ Leave
  PROVE  RelayIInv'
<1>1. UNCHANGED <<queueVars, passVars>>
  BY DEF AddLocalAddr, EndDiscovery, SetLocalAddr, AdvertiseLocalAddr, Leave
<1>2. /\ toSend' = toSend /\ accepted' = accepted /\ replaced' = replaced /\ late' = late
      /\ overrun' = overrun /\ aborted' = aborted
      /\ known' = known /\ pass' = pass /\ copy' = copy /\ msg' = msg /\ sent' = sent
      /\ lengths' = lengths
  BY <1>1 DEF queueVars, passVars
<1>3. RelayTypeOK
  BY DEF RelayIInv
<1>4. /\ locals' = locals \/ \E b \in RoutableAddrs : locals' = Append(locals, b)
      /\ told' = told \/ (told \notin ValidAddrs /\ told' \in Addrs)
      /\ started' \in {started, TRUE} /\ left' \in {left, TRUE}
      /\ adv' = adv \/ (/\ told' = told /\ locals' = locals
                        /\ \E x \in Advertisers, first \in BOOLEAN :
                             \E a \in Advertised(first) : adv' = [adv EXCEPT ![x] = a])
  BY DEF AddLocalAddr, EndDiscovery, SetLocalAddr, AdvertiseLocalAddr, Leave
<1>5. \A first \in BOOLEAN : \A a \in Advertised(first) : a \in Addrs /\ Own(a)
  <2>1. ASSUME NEW a \in Discovered  PROVE a \in Addrs /\ Own(a)
    <3>1. a \in RoutableAddrs /\ InSeq(a, locals)
      BY DEF Discovered, GetLocalAddr, InSeq
    <3>2. QED  BY <3>1, RelayAssumption DEF Own
  <2>2. IsLocalAddrGood => told \in Addrs /\ Own(told)
    BY RelayAssumption DEF IsLocalAddrGood, Own
  <2>3. QED  BY <2>1, <2>2 DEF Advertised
<1>6. locals' \in Seq(RoutableAddrs)
  <2>1. locals \in Seq(RoutableAddrs)
    BY <1>3 DEF RelayTypeOK
  <2>2. \A b \in RoutableAddrs : Append(locals, b) \in Seq(RoutableAddrs)
    BY <2>1, AppendProperties
  <2>3. QED  BY <1>4, <2>1, <2>2
<1>7. adv' \in [Advertisers -> Addrs \cup {NoAddr}]
  BY <1>3, <1>4, <1>5 DEF RelayTypeOK
<1>8. RelayTypeOK'
  <2>1. told' \in Addrs \cup {NoAddr} /\ started' \in BOOLEAN /\ left' \in BOOLEAN
    BY <1>3, <1>4 DEF RelayTypeOK
  <2>2. QED  BY <1>2, <1>3, <1>6, <1>7, <2>1 DEF RelayTypeOK
<1>9. Gone' = Gone
  BY <1>2 DEF Gone
<1>10. Limits' /\ Spaced(Gone)' /\ EndOf(known, Gone)'
  BY <1>2, <1>9 DEF RelayIInv, Limits, WithinLimits, Spaced, EndOf
<1>11. InPass' /\ Accounted'
  BY <1>2, <1>9 DEF RelayIInv, InPass, Accounted, InSeq
<1>12. \A a : Own(a) => Own(a)'
  <2>1. locals \in Seq(RoutableAddrs)
    BY <1>3 DEF RelayTypeOK
  <2>2. QED  BY <1>4, <2>1, OwnStays
<1>13. ASSUME NEW x \in Advertisers, adv'[x] # NoAddr  
       PROVE  (Own(adv[x]) /\ adv'[x] = adv[x]) \/ Own(adv'[x])
  <2>1. adv \in [Advertisers -> Addrs \cup {NoAddr}]
    BY <1>3 DEF RelayTypeOK
  <2>2. QED  BY <1>4, <1>5, <1>13, <2>1 DEF RelayIInv, Owned
<1>14. Owned'
  <2>1. \A a \in accepted' : Own(a)'
    BY <1>2, <1>12 DEF RelayIInv, Owned
  <2>2. ASSUME NEW x \in Advertisers, adv'[x] # NoAddr  PROVE Own(adv[x])'
    <3>1. CASE adv' = adv
      BY <1>12, <2>2, <3>1 DEF RelayIInv, Owned, Own
    <3>2. CASE told' = told /\ locals' = locals
      BY <1>13, <2>2, <3>2 DEF Own
    <3>3. QED  BY <1>4, <3>1, <3>2
  <2>3. QED  BY <2>1, <2>2 DEF Owned
<1>15. QED  BY <1>8, <1>10, <1>11, <1>14 DEF RelayIInv

LEMMA PushKeeps ==
  ASSUME RelayIInv, NEW x \in Advertisers, PushAddrToSend(x)  PROVE RelayIInv'
<1> DEFINE a == adv[x]
<1>1. /\ locals' = locals /\ started' = started /\ told' = told /\ left' = left
      /\ known' = known /\ pass' = pass /\ copy' = copy /\ msg' = msg /\ sent' = sent
      /\ lengths' = lengths
      /\ a # NoAddr /\ adv' = [adv EXCEPT ![x] = NoAddr]
  BY DEF PushAddrToSend, passVars
<1>2. RelayTypeOK /\ Own(a)
  BY <1>1 DEF RelayIInv, Owned
<1>3. a \in Addrs
  BY <1>2, RelayAssumption DEF Own
<1> HIDE DEF a
<1>4. Gone' = Gone /\ \A b : Own(b)' <=> Own(b)
  BY <1>1 DEF Gone, Own
<1>5. /\ toSend' \in Seq(Addrs) /\ Len(toSend') <= MaxAddrToSend
      /\ accepted \subseteq accepted' /\ accepted' \subseteq accepted \cup {a}
      /\ replaced \subseteq replaced' /\ replaced' \subseteq Addrs
      /\ late \subseteq late' /\ late' \subseteq Addrs
      /\ overrun \subseteq overrun' /\ overrun' \subseteq Addrs /\ aborted' \in BOOLEAN
      /\ \A b : InSeq(b, toSend) => InSeq(b, toSend') \/ b \in replaced'
      /\ \A b : InSeq(b, toSend') =>
           InSeq(b, toSend) \/ (b = a /\ (pass # "idle" => b \in late'))
      /\ a \in accepted' => a \in accepted \/ InSeq(a, toSend') \/ a \in overrun'
  <2>1. /\ toSend \in Seq(Addrs) /\ Len(toSend) <= MaxAddrToSend
        /\ accepted \subseteq Addrs /\ replaced \subseteq Addrs /\ late \subseteq Addrs
        /\ overrun \subseteq Addrs /\ aborted \in BOOLEAN
    BY <1>2 DEF RelayTypeOK, RelayIInv, Limits, WithinLimits
  <2>2. CASE UNCHANGED queueVars
    <3>1. /\ toSend' = toSend /\ accepted' = accepted /\ replaced' = replaced
          /\ late' = late /\ overrun' = overrun /\ aborted' = aborted
      BY <2>2 DEF queueVars
    <3>2. QED  BY <2>1, <3>1
  <2>3. CASE /\ Queue(a) /\ accepted' = accepted \cup {a}
             /\ late' = IF pass = "idle" THEN late ELSE late \cup {a}
    <3>1. late \subseteq late' /\ late' \subseteq Addrs /\ (pass # "idle" => a \in late')
      BY <1>3, <2>1, <2>3
    <3>2. accepted \subseteq accepted' /\ accepted' \subseteq accepted \cup {a}
      BY <2>3
    <3>3. /\ toSend' \in Seq(Addrs) /\ Len(toSend') <= MaxAddrToSend
          /\ replaced \subseteq replaced' /\ replaced' \subseteq Addrs
          /\ \A b : InSeq(b, toSend) => InSeq(b, toSend') \/ b \in replaced'
          /\ \A b : InSeq(b, toSend') => InSeq(b, toSend) \/ b = a
          /\ InSeq(a, toSend') \/ a \in overrun'
          /\ overrun \subseteq overrun' /\ overrun' \subseteq Addrs /\ aborted' \in BOOLEAN
      <4>1. CASE \E i \in DOMAIN toSend : Overwrite(i, a)
        <5>1. PICK i \in DOMAIN toSend :
                /\ toSend' = [toSend EXCEPT ![i] = a] /\ replaced' = replaced \cup {toSend[i]}
                /\ overrun' = overrun /\ aborted' = aborted
          BY <4>1 DEF Overwrite
        <5>2. toSend[i] \in Addrs
          BY <2>1, <5>1, LenProperties
        <5>3. /\ toSend' \in Seq(Addrs) /\ Len(toSend') = Len(toSend)
              /\ InSeq(a, toSend')
              /\ \A b : InSeq(b, toSend) => b = toSend[i] \/ InSeq(b, toSend')
              /\ \A b : InSeq(b, toSend') => b = a \/ InSeq(b, toSend)
          <6>1. DOMAIN toSend = 1..Len(toSend)
            BY <2>1, LenProperties
          <6>2. /\ toSend' \in Seq(Addrs) /\ Len(toSend') = Len(toSend)
                /\ \A j \in 1..Len(toSend) : toSend'[j] = IF j = i THEN a ELSE toSend[j]
            BY <1>3, <2>1, <5>1, <6>1, ExceptSeq
          <6>3. DOMAIN toSend' = 1..Len(toSend)
            BY <6>2, LenProperties
          <6>4. i \in 1..Len(toSend)
            BY <6>1
          <6>5. InSeq(a, toSend')
            BY <6>2, <6>3, <6>4 DEF InSeq
          <6>6. ASSUME NEW b, InSeq(b, toSend)  PROVE b = toSend[i] \/ InSeq(b, toSend')
            BY <6>1, <6>2, <6>3, <6>6 DEF InSeq
          <6>7. ASSUME NEW b, InSeq(b, toSend')  PROVE b = a \/ InSeq(b, toSend)
            BY <6>1, <6>2, <6>3, <6>7 DEF InSeq
          <6>8. QED  BY <6>2, <6>5, <6>6, <6>7
        <5>4. QED  BY <2>1, <5>1, <5>2, <5>3
      <4>2. CASE /\ Len(toSend) < MaxAddrToSend /\ toSend' = Append(toSend, a)
                 /\ UNCHANGED <<replaced, overrun, aborted>>
        <5>1. /\ toSend' = Append(toSend, a) /\ replaced' = replaced
              /\ overrun' = overrun /\ aborted' = aborted
          BY <4>2
        <5>2. /\ toSend' \in Seq(Addrs) /\ Len(toSend') = Len(toSend) + 1
              /\ Len(toSend) \in Nat
          BY <1>3, <2>1, <5>1, AppendProperties, LenProperties
        <5>3. \A b : InSeq(b, Append(toSend, a)) <=> InSeq(b, toSend) \/ b = a
          BY <1>3, <2>1, InAppend
        <5>4. Len(toSend') <= MaxAddrToSend
          BY <4>2, <5>2, RelayAssumption
        <5>5. QED  BY <2>1, <5>1, <5>2, <5>3, <5>4
      <4>3. CASE WritePastEnd(a)
        BY <1>3, <2>1, <4>3 DEF WritePastEnd
      <4>4. QED  BY <2>3, <4>1, <4>2, <4>3 DEF Queue
    <3>4. QED  BY <3>1, <3>2, <3>3
  <2>4. QED  BY <2>2, <2>3 DEF PushAddrToSend, a
<1>6. RelayTypeOK'
  <2>1. adv' \in [Advertisers -> Addrs \cup {NoAddr}]
    BY <1>1, <1>2 DEF RelayTypeOK
  <2>2. accepted' \subseteq Addrs
    BY <1>2, <1>3, <1>5 DEF RelayTypeOK
  <2>3. QED  BY <1>1, <1>2, <1>5, <2>1, <2>2 DEF RelayTypeOK
<1>7. Limits' /\ Spaced(Gone)' /\ EndOf(known, Gone)'
  BY <1>1, <1>4, <1>5 DEF RelayIInv, Limits, WithinLimits, Spaced, EndOf
<1>8. InPass'
  <2>1. ASSUME pass = "loop", NEW b, InSeq(b, toSend')
        PROVE  InSeq(b, copy) \/ InSeq(b, Gone) \/ b \in late'
    BY <1>5, <2>1 DEF RelayIInv, InPass
  <2>2. ASSUME pass = "sent", NEW b, InSeq(b, toSend')  PROVE InSeq(b, Gone) \/ b \in late'
    BY <1>5, <2>2 DEF RelayIInv, InPass
  <2>3. QED  BY <1>1, <1>4, <2>1, <2>2 DEF InPass, InSeq
<1>9. Accounted'
  <2>1. ASSUME NEW b \in accepted'
        PROVE  InSeq(b, Gone) \/ InSeq(b, toSend') \/ b \in replaced' \cup late' \cup overrun'
    BY <1>5 DEF RelayIInv, Accounted
  <2>2. QED  BY <1>4, <2>1 DEF Accounted, InSeq
<1>10. Owned'
  <2>1. \A b \in accepted' : Own(b)
    BY <1>2, <1>5 DEF RelayIInv, Owned
  <2>2. ASSUME NEW y \in Advertisers, adv'[y] # NoAddr  PROVE adv'[y] = adv[y] /\ Own(adv[y])
    BY <1>1, <1>2, <2>2 DEF RelayIInv, Owned, RelayTypeOK
  <2>3. \A y \in Advertisers : adv'[y] # NoAddr => Own(adv'[y])
    BY <2>2
  <2>4. QED  BY <1>1, <2>1, <2>3 DEF Owned, Own
<1>11. QED  BY <1>6, <1>7, <1>8, <1>9, <1>10 DEF RelayIInv

LEMMA BeginPassKeeps == ASSUME RelayIInv, BeginPass  PROVE RelayIInv'
<1>1. /\ locals' = locals /\ started' = started /\ told' = told /\ adv' = adv
      /\ toSend' = toSend /\ accepted' = accepted /\ replaced' = replaced /\ late' = late
      /\ overrun' = overrun /\ aborted' = aborted
      /\ known' = known /\ left' = left /\ sent' = sent /\ lengths' = lengths
      /\ pass = "idle" /\ pass' = "loop" /\ copy' = toSend /\ msg' = <<>>
  BY DEF BeginPass, queueVars
<1>2. msg = <<>>
  BY <1>1 DEF RelayIInv, Limits
<1>3. Gone' = Gone
  BY <1>1, <1>2 DEF Gone
<1>4. RelayTypeOK'
  BY <1>1, <1>2 DEF RelayIInv, RelayTypeOK
<1>5. Limits' /\ Spaced(Gone)' /\ EndOf(known, Gone)'
  BY <1>1, <1>2, <1>3 DEF RelayIInv, Limits, WithinLimits, Spaced, EndOf
<1>6. InPass' /\ Accounted' /\ Owned'
  BY <1>1, <1>3 DEF RelayIInv, InPass, Accounted, Owned, Own, InSeq
<1>7. QED  BY <1>4, <1>5, <1>6 DEF RelayIInv

\* An address of the copy: it has gone before, or it goes now.
LEMMA RelayAddrKeeps == ASSUME RelayIInv, RelayAddr  PROVE RelayIInv'
<1> DEFINE a == Head(copy)
           more == Append(msg, a)
<1>1. /\ locals' = locals /\ started' = started /\ told' = told /\ adv' = adv
      /\ toSend' = toSend /\ accepted' = accepted /\ replaced' = replaced /\ late' = late
      /\ overrun' = overrun /\ aborted' = aborted
      /\ left' = left /\ pass = "loop" /\ pass' = pass
      /\ copy # <<>> /\ copy' = Tail(copy)
  BY DEF RelayAddr, queueVars
<1>2. RelayTypeOK
  BY DEF RelayIInv
<1>3. /\ a \in Addrs /\ copy' \in Seq(Addrs)
      /\ \A b : InSeq(b, copy) => b = a \/ InSeq(b, copy')
  BY <1>1, <1>2, HeadTailProperties, InHeadTail DEF RelayTypeOK
<1>4. Gone \in Seq(Addrs) /\ known \in Seq(Addrs) /\ Spaced(Gone) /\ EndOf(known, Gone)
  BY <1>2, GoneIsSeq DEF RelayIInv, RelayTypeOK
<1>5. more \in Seq(Addrs) /\ Len(more) = Len(msg) + 1 /\ Len(msg) \in Nat
  BY <1>2, <1>3, AppendProperties, LenProperties DEF RelayTypeOK
<1>6. CASE InSeq(a, known)
  <2>1. known' = known /\ msg' = msg /\ sent' = sent /\ lengths' = lengths
    BY <1>6 DEF RelayAddr
  <2>2. Gone' = Gone
    BY <2>1 DEF Gone
  <2>3. InSeq(a, Gone)
    BY <1>4, <1>6, KnownHasGone
  <2>4. RelayTypeOK'
    BY <1>1, <1>2, <1>3, <2>1 DEF RelayTypeOK
  <2>5. Limits' /\ Spaced(Gone)' /\ EndOf(known, Gone)'
    BY <1>1, <2>1, <2>2 DEF RelayIInv, Limits, WithinLimits, Spaced, EndOf
  <2>6. ASSUME NEW b, InSeq(b, toSend)  PROVE InSeq(b, copy') \/ InSeq(b, Gone) \/ b \in late
    BY <1>1, <1>3, <2>3, <2>6 DEF RelayIInv, InPass
  <2>7. InPass'
    BY <1>1, <2>2, <2>6 DEF InPass, InSeq
  <2>8. Accounted' /\ Owned'
    BY <1>1, <2>2 DEF RelayIInv, Accounted, Owned, Own, InSeq
  <2>9. QED  BY <2>4, <2>5, <2>7, <2>8 DEF RelayIInv
<1>7. CASE ~InSeq(a, known)
  <2>1. /\ known' = WithKnown(a)
        /\ IF FullMsg(more) THEN Send(more) /\ msg' = <<>>
                            ELSE msg' = more /\ sent' = sent /\ lengths' = lengths
    BY <1>7 DEF RelayAddr
  <2> HIDE DEF a
  <2>2. sent \o more = Append(Gone, a)
    <3>1. <<a>> \in Seq(Addrs) /\ sent \in Seq(Addrs) /\ msg \in Seq(Addrs)
      BY <1>2, <1>3 DEF RelayTypeOK
    <3>2. more = msg \o <<a>> /\ Append(Gone, a) = Gone \o <<a>>
      BY <1>2, <1>3, <1>4, AppendIsConcat DEF RelayTypeOK
    <3>3. (sent \o msg) \o <<a>> = sent \o (msg \o <<a>>)
      BY <3>1, ConcatAssociative
    <3>4. QED  BY <3>2, <3>3 DEF Gone
  <2> HIDE DEF more
  <2>3. sent \o more \in Seq(Addrs)
    BY <1>2, <1>5, ConcatProperties DEF RelayTypeOK
  <2>4. /\ Gone' = Append(Gone, a)
        /\ sent' \in Seq(Addrs) /\ msg' \in Seq(Addrs)
        /\ lengths' \subseteq 1..MaxAddrsInMsg /\ Len(msg') < MaxAddrsInMsg
    <3>1. /\ MaxAddrsInMsg \in Nat \ {0} /\ Len(msg) < MaxAddrsInMsg
          /\ lengths \subseteq 1..MaxAddrsInMsg
      BY RelayAssumption DEF RelayIInv, Limits, WithinLimits
    <3>2. CASE FullMsg(more)
      <4>1. sent' = sent \o more /\ lengths' = lengths \cup {Len(more)} /\ msg' = <<>>
        BY <2>1, <3>2 DEF Send
      <4>2. Len(more) \in 1..MaxAddrsInMsg
        BY <1>5, <3>1
      <4>3. <<>> \in Seq(Addrs) /\ Len(<<>>) = 0
        BY EmptySeq
      <4>4. Gone' = sent \o more
        BY <2>3, <4>1, ConcatEmptySeq DEF Gone
      <4>5. sent' \in Seq(Addrs) /\ msg' \in Seq(Addrs)
        BY <2>3, <4>1, <4>3
      <4>6. lengths' \subseteq 1..MaxAddrsInMsg
        BY <3>1, <4>1, <4>2, Zenon
      <4>7. Len(msg') = 0
        BY <4>1, <4>3, Zenon
      <4>8. Len(msg') < MaxAddrsInMsg
        BY <3>1, <4>7
      <4>9. QED  BY <2>2, <4>4, <4>5, <4>6, <4>8
    <3>3. CASE ~FullMsg(more)
      <4>1. sent' = sent /\ lengths' = lengths /\ msg' = more
        BY <2>1, <3>3
      <4>2. Len(more) < MaxAddrsInMsg
        BY <1>5, <3>1, <3>3 DEF FullMsg
      <4>3. Gone' = sent \o more
        BY <4>1 DEF Gone
      <4>4. QED  BY <1>2, <1>5, <2>2, <3>1, <4>1, <4>2, <4>3 DEF RelayTypeOK
    <3>4. QED  BY <3>2, <3>3
  <2>5. /\ known' \in Seq(Addrs) /\ Len(known') <= KnownSize
        /\ Spaced(Gone') /\ EndOf(known', Gone')
    BY <1>3, <1>4, <1>7, <2>1, <2>4, OneMoreGoes
  <2>6. RelayTypeOK'
    <3>1. lengths' \subseteq Nat
      BY <2>4, RelayAssumption
    <3>2. QED  BY <1>1, <1>2, <1>3, <2>4, <2>5, <3>1 DEF RelayTypeOK
  <2>7. Limits'
    BY <1>1, <2>4 DEF RelayIInv, Limits, WithinLimits
  <2>8. \A b : InSeq(b, Gone') <=> InSeq(b, Gone) \/ b = a
    BY <1>3, <1>4, <2>4, InAppend
  <2>9. ASSUME NEW b, InSeq(b, toSend)  PROVE InSeq(b, copy') \/ InSeq(b, Gone') \/ b \in late
    BY <1>1, <1>3, <2>8, <2>9 DEF RelayIInv, InPass
  <2>10. InPass'
    BY <1>1, <2>9 DEF InPass, InSeq
  <2>11. Accounted'
    <3>1. \A b \in accepted : InSeq(b, Gone') \/ InSeq(b, toSend) \/ b \in replaced \cup late \cup overrun
      BY <2>8 DEF RelayIInv, Accounted
    <3>2. QED  BY <1>1, <3>1 DEF Accounted, InSeq
  <2>12. Owned'
    BY <1>1 DEF RelayIInv, Owned, Own, InSeq
  <2>13. Spaced(Gone)' /\ EndOf(known, Gone)'
    BY <2>5 DEF Spaced, EndOf
  <2>14. QED  BY <2>6, <2>7, <2>10, <2>11, <2>12, <2>13 DEF RelayIInv
<1>8. QED  BY <1>6, <1>7

LEMMA SendRestKeeps == ASSUME RelayIInv, SendRest  PROVE RelayIInv'
<1>1. /\ locals' = locals /\ started' = started /\ told' = told /\ adv' = adv
      /\ toSend' = toSend /\ accepted' = accepted /\ replaced' = replaced /\ late' = late
      /\ overrun' = overrun /\ aborted' = aborted
      /\ known' = known /\ left' = left /\ copy' = copy
      /\ pass = "loop" /\ pass' = "sent" /\ copy = <<>> /\ msg' = <<>>
      /\ IF msg = <<>> THEN sent' = sent /\ lengths' = lengths ELSE Send(msg)
  BY DEF SendRest, queueVars
<1>2. RelayTypeOK /\ Gone \in Seq(Addrs)
  BY GoneIsSeq DEF RelayIInv
<1>3. /\ sent \in Seq(Addrs) /\ msg \in Seq(Addrs) /\ <<>> \in Seq(Addrs) /\ Len(<<>>) = 0
      /\ MaxAddrsInMsg \in Nat \ {0} /\ Len(msg) < MaxAddrsInMsg
      /\ lengths \subseteq 1..MaxAddrsInMsg
  BY <1>2, EmptySeq, RelayAssumption DEF RelayIInv, RelayTypeOK, Limits, WithinLimits
<1>4. Gone' = Gone /\ sent' = Gone /\ lengths' \subseteq 1..MaxAddrsInMsg
  <2>1. CASE msg = <<>>
    <3>1. sent \o <<>> = sent
      BY <1>3, ConcatEmptySeq
    <3>2. QED  BY <1>1, <1>3, <2>1, <3>1 DEF Gone
  <2>2. CASE msg # <<>>
    <3>1. sent' = Gone /\ lengths' = lengths \cup {Len(msg)}
      BY <1>1, <2>2 DEF Send, Gone
    <3>2. Gone' = Gone
      BY <1>1, <1>2, <3>1, ConcatEmptySeq DEF Gone
    <3>3. Len(msg) \in 1..MaxAddrsInMsg
      BY <1>3, <2>2, EmptySeq
    <3>4. QED  BY <1>3, <3>1, <3>2, <3>3
  <2>3. QED  BY <2>1, <2>2
<1>5. RelayTypeOK'
  <2>1. lengths' \subseteq Nat
    BY <1>3, <1>4
  <2>2. QED  BY <1>1, <1>2, <1>3, <1>4, <2>1 DEF RelayTypeOK
<1>6. Limits'
  BY <1>1, <1>3, <1>4 DEF RelayIInv, Limits, WithinLimits
<1>7. Spaced(Gone)' /\ EndOf(known, Gone)'
  BY <1>1, <1>4 DEF RelayIInv, Spaced, EndOf
<1>8. ~\E b : InSeq(b, copy)
  BY <1>1 DEF InSeq
<1>9. InPass' /\ Accounted' /\ Owned'
  BY <1>1, <1>4, <1>8 DEF RelayIInv, InPass, Accounted, Owned, Own, InSeq
<1>10. QED  BY <1>5, <1>6, <1>7, <1>9 DEF RelayIInv

\* Clearing the queue loses what came late, and nothing else.
LEMMA ClearKeeps == ASSUME RelayIInv, ClearSentAddr  PROVE RelayIInv'
<1>1. /\ locals' = locals /\ started' = started /\ told' = told /\ adv' = adv
      /\ accepted' = accepted /\ replaced' = replaced /\ late' = late
      /\ overrun' = overrun /\ aborted' = aborted
      /\ known' = known /\ left' = left /\ copy' = copy /\ msg' = msg /\ sent' = sent
      /\ lengths' = lengths
      /\ pass = "sent" /\ pass' = "idle" /\ toSend' = <<>>
  BY DEF ClearSentAddr
<1>2. Gone' = Gone
  BY <1>1 DEF Gone
<1>3. <<>> \in Seq(Addrs) /\ Len(<<>>) = 0
  BY EmptySeq
<1>4. RelayTypeOK'
  BY <1>1, <1>3 DEF RelayIInv, RelayTypeOK
<1>5. Limits' /\ Spaced(Gone)' /\ EndOf(known, Gone)'
  <2>1. Spaced(Gone)' /\ EndOf(known, Gone)'
    BY <1>1, <1>2 DEF RelayIInv, Spaced, EndOf
  <2>2. Limits /\ WithinLimits
    BY DEF RelayIInv, Limits
  <2>3. Len(toSend') <= MaxAddrToSend
    BY <1>1, <1>3, RelayAssumption
  <2>4. Limits'
    BY <1>1, <2>2, <2>3 DEF Limits, WithinLimits
  <2>5. QED  BY <2>1, <2>4
<1>6. InPass'
  BY <1>1 DEF InPass
<1>7. Accounted'
  <2>1. \A b \in accepted : InSeq(b, Gone) \/ b \in replaced \cup late \cup overrun
    BY <1>1 DEF RelayIInv, Accounted, InPass
  <2>2. QED  BY <1>1, <1>2, <2>1 DEF Accounted, InSeq
<1>8. Owned'
  BY <1>1 DEF RelayIInv, Owned, Own, InSeq
<1>9. QED  BY <1>4, <1>5, <1>6, <1>7, <1>8 DEF RelayIInv

LEMMA RelayStepIInv == RelayIInv /\ [RelayNext]_relayState => RelayIInv'
<1>1. ASSUME RelayIInv, RelayNext  PROVE RelayIInv'
  BY <1>1, AddressesKeep, PushKeeps, BeginPassKeeps, RelayAddrKeeps, SendRestKeeps, ClearKeeps
     DEF RelayNext, PassStep
<1>2. ASSUME RelayIInv, UNCHANGED relayState  PROVE RelayIInv'
  <2>1. /\ locals' = locals /\ started' = started /\ told' = told /\ adv' = adv
        /\ toSend' = toSend /\ known' = known /\ pass' = pass /\ copy' = copy /\ msg' = msg
        /\ left' = left /\ sent' = sent /\ lengths' = lengths
        /\ accepted' = accepted /\ replaced' = replaced /\ late' = late
        /\ overrun' = overrun /\ aborted' = aborted
    BY <1>2 DEF relayState
  <2>2. RelayTypeOK' /\ Limits'
    BY <1>2, <2>1 DEF RelayIInv, RelayTypeOK, Limits, WithinLimits
  <2>3. Gone' = Gone
    BY <2>1 DEF Gone
  <2>4. Spaced(Gone)' /\ EndOf(known, Gone)'
    BY <1>2, <2>1, <2>3 DEF RelayIInv, Spaced, EndOf
  <2>5. InPass' /\ Accounted' /\ Owned'
    BY <1>2, <2>1, <2>3 DEF RelayIInv, InPass, Accounted, Owned, Own, InSeq
  <2>6. QED  BY <2>2, <2>4, <2>5 DEF RelayIInv
<1>3. QED  BY <1>1, <1>2

\* Whoever pushes to the queue while the relay pass is on: no message is longer than its
\* receiver takes and the queue keeps its limit; an address goes again only after as many
\* others as known_addrs_ holds; what was taken is on its way, was sent, was overwritten,
\* was written past the end of the full queue, or came during a pass; and what we advertise
\* of ourselves is our own and routable
\* (net.cpp:104-127, net.cpp:208-224, node.cpp:27-56).
THEOREM RelayIsSound == RelaySpec => []RelaySafe
<1>1. ASSUME RelayIInv  PROVE RelaySafe
  <2>1. RelayTypeOK /\ WithinLimits
    BY <1>1 DEF RelayIInv, Limits
  <2>2. \A b : InSeq(b, Gone) <=> InSeq(b, sent) \/ InSeq(b, msg)
    BY <2>1, GoneIsSeq
  <2>3. NoEarlyRepeat
    <3>1. sent \in Seq(Addrs) /\ msg \in Seq(Addrs)
      BY <2>1 DEF RelayTypeOK
    <3>2. /\ Len(sent) \in Nat /\ Len(msg) \in Nat /\ DOMAIN sent = 1..Len(sent)
          /\ Gone \in Seq(Addrs) /\ Len(Gone) = Len(sent) + Len(msg)
          /\ \A i \in 1..Len(sent) + Len(msg) :
               Gone[i] = IF i <= Len(sent) THEN sent[i] ELSE msg[i - Len(sent)]
      BY <3>1, LenProperties, ConcatProperties DEF Gone
    <3>3. DOMAIN Gone = 1..Len(sent) + Len(msg)
      BY <3>2, LenProperties
    <3>4. \A i \in DOMAIN sent : i \in DOMAIN Gone /\ Gone[i] = sent[i]
      BY <3>2, <3>3
    <3>5. QED  BY <1>1, <3>4 DEF RelayIInv, Spaced, NoEarlyRepeat
  <2>4. AcceptedIsAccountedFor
    BY <1>1, <2>2 DEF RelayIInv, Accounted, AcceptedIsAccountedFor
  <2>5. AdvertisesOwn
    BY <1>1 DEF RelayIInv, Owned, Own, AdvertisesOwn
  <2>6. QED  BY <2>1, <2>3, <2>4, <2>5 DEF RelaySafe
<1>2. QED  BY RelayInitIInv, RelayStepIInv, <1>1, PTL DEF RelaySpec
=============================================================================
