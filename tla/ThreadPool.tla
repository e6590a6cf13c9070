------------------------------ MODULE ThreadPool ------------------------------
(***************************************************************************)
(* util::ThreadPool (utility/include/thread.h, utility/src/thread.cpp):    *)
(* one queue of tasks, threads that wait for them on a condition variable, *)
(* and a destructor that lets the threads finish what was accepted.        *)
(*                                                                         *)
(* A notification is a step of its own: AddTask and the destructor notify  *)
(* after they have released queue_mutex_.                                  *)
(***************************************************************************)
EXTENDS Naturals, Sequences, FiniteSets

CONSTANTS PoolThreads, \* threads_
          PoolTasks,   \* the tasks that are ever offered to the pool
          NoTask

ASSUME PoolAssumption ==
  /\ PoolThreads # {} /\ IsFiniteSet(PoolThreads) /\ IsFiniteSet(PoolTasks)
  /\ NoTask \notin PoolTasks

VARIABLES
  pooled,    \* tasks_
  poolStop,  \* stop_
  stage,     \* where each thread is: "test" (about to lock queue_mutex_ and test the
             \* predicate), "asleep" on condition_, "run" or "exited"
  holding,   \* the task each thread runs
  notify,    \* notify_one calls to come
  notifyAll, \* the destructor's notify_all is to come
  refused,   \* tasks AddTask threw on
  done,      \* tasks that were run
  joined     \* the destructor has returned

poolState == <<pooled, poolStop, stage, holding, notify, notifyAll, refused, done, joined>>

Asleep  == {w \in PoolThreads : stage[w] = "asleep"}
Testing == {w \in PoolThreads : stage[w] = "test"}

-----------------------------------------------------------------------------

\* By any thread, one of the pool included; a task is offered once.  On a stopped
\* pool AddTask throws.
AddTask(k) ==
  /\ ~joined
  /\ k \notin refused \cup done
  /\ \A i \in DOMAIN pooled : pooled[i] # k
  /\ \A w \in PoolThreads : holding[w] # k
  /\ IF poolStop
     THEN refused' = refused \cup {k} /\ UNCHANGED <<pooled, notify>>
     ELSE pooled' = Append(pooled, k) /\ notify' = notify + 1 /\ UNCHANGED refused
  /\ UNCHANGED <<poolStop, stage, holding, notifyAll, done, joined>>

\* condition_.notify_one(): wakes one thread, or none when none is asleep.
NotifyOne ==
  /\ notify > 0
  /\ notify' = notify - 1
  /\ IF Asleep = {} THEN UNCHANGED stage
                    ELSE \E w \in Asleep : stage' = [stage EXCEPT ![w] = "test"]
  /\ UNCHANGED <<pooled, poolStop, holding, notifyAll, refused, done, joined>>

\* A condition variable may wake a thread for no reason.
WakeSpuriously(w) ==
  /\ stage[w] = "asleep"
  /\ stage' = [stage EXCEPT ![w] = "test"]
  /\ UNCHANGED <<pooled, poolStop, holding, notify, notifyAll, refused, done, joined>>

Exits_Early == poolStop
Exits == poolStop /\ pooled = <<>>

\* The thread has queue_mutex_ while it tests, and until it is asleep.
TestQueue(w) ==
  /\ stage[w] = "test"
  /\ IF Exits THEN stage' = [stage EXCEPT ![w] = "exited"] /\ UNCHANGED <<pooled, holding>>
     ELSE IF pooled = <<>>
     THEN stage' = [stage EXCEPT ![w] = "asleep"] /\ UNCHANGED <<pooled, holding>>
     ELSE /\ stage' = [stage EXCEPT ![w] = "run"]
          /\ holding' = [holding EXCEPT ![w] = Head(pooled)]
          /\ pooled' = Tail(pooled)
  /\ UNCHANGED <<poolStop, notify, notifyAll, refused, done, joined>>

\* task() returns: packaged_task keeps what it throws.
EndOfTask(w) ==
  /\ stage[w] = "run"
  /\ stage' = [stage EXCEPT ![w] = "test"]
  /\ done' = done \cup {holding[w]}
  /\ holding' = [holding EXCEPT ![w] = NoTask]
  /\ UNCHANGED <<pooled, poolStop, notify, notifyAll, refused, joined>>

\* ~ThreadPool: stop_ is set under the mutex, the notification follows.
BeginDestructor ==
  /\ ~poolStop
  /\ poolStop' = TRUE
  /\ notifyAll' = TRUE
  /\ UNCHANGED <<pooled, stage, holding, notify, refused, done, joined>>

NotifyAll_One ==
  /\ notifyAll
  /\ notifyAll' = FALSE
  /\ IF Asleep = {} THEN UNCHANGED stage
                    ELSE \E w \in Asleep : stage' = [stage EXCEPT ![w] = "test"]
  /\ UNCHANGED <<pooled, poolStop, holding, notify, refused, done, joined>>

NotifyAll ==
  /\ notifyAll
  /\ notifyAll' = FALSE
  /\ stage' = [w \in PoolThreads |-> IF w \in Asleep THEN "test" ELSE stage[w]]
  /\ UNCHANGED <<pooled, poolStop, holding, notify, refused, done, joined>>

JoinThreads ==
  /\ poolStop /\ ~notifyAll /\ ~joined
  /\ \A w \in PoolThreads : stage[w] = "exited"
  /\ joined' = TRUE
  /\ UNCHANGED <<pooled, poolStop, stage, holding, notify, notifyAll, refused, done>>

-----------------------------------------------------------------------------

PoolInit ==
  /\ pooled = <<>>
  /\ poolStop = FALSE
  /\ stage = [w \in PoolThreads |-> "test"]
  /\ holding = [w \in PoolThreads |-> NoTask]
  /\ notify = 0
  /\ notifyAll = FALSE
  /\ refused = {}
  /\ done = {}
  /\ joined = FALSE

PoolThread(w) == TestQueue(w) \/ EndOfTask(w)

PoolNext ==
  \/ \E k \in PoolTasks : AddTask(k)
  \/ NotifyOne
  \/ \E w \in PoolThreads : PoolThread(w) \/ WakeSpuriously(w)
  \/ BeginDestructor \/ NotifyAll \/ JoinThreads

PoolSpec == PoolInit /\ [][PoolNext]_poolState

-----------------------------------------------------------------------------
(* Properties. *)

PoolTypeOK ==
  /\ pooled \in Seq(PoolTasks)
  /\ stage \in [PoolThreads -> {"test", "asleep", "run", "exited"}]
  /\ holding \in [PoolThreads -> PoolTasks \cup {NoTask}]
  /\ notify \in Nat
  /\ refused \subseteq PoolTasks /\ done \subseteq PoolTasks
  /\ poolStop \in BOOLEAN /\ notifyAll \in BOOLEAN /\ joined \in BOOLEAN

\* No wakeup is lost: while a thread sleeps there is, for every task in the queue, a
\* thread on its way to the test or a notification to come (thread.h:112-121,
\* thread.cpp:127-133).
NoLostWakeup == Asleep # {} => Len(pooled) <= notify + Cardinality(Testing)

\* The same of the end: no thread sleeps through the destructor.
NoLostStop == poolStop /\ ~notifyAll => Asleep = {}

\* A task is in one place: it is queued, run by one thread, or done.
RunOnce ==
  /\ \A i, j \in DOMAIN pooled : pooled[i] = pooled[j] => i = j
  /\ \A v, w \in PoolThreads : holding[v] = holding[w] /\ v # w => holding[v] = NoTask
  /\ \A i \in DOMAIN pooled : pooled[i] \notin done /\ \A w \in PoolThreads : holding[w] # pooled[i]
  /\ \A w \in PoolThreads : holding[w] \notin done

\* The destructor returns only when every task that was accepted has been run.
DrainedWhenJoined == joined => pooled = <<>> /\ \A w \in PoolThreads : holding[w] = NoTask

\* A task in the queue is run, whatever happens to the pool meanwhile.
AcceptedIsRun == \A k \in PoolTasks : (\E i \in DOMAIN pooled : pooled[i] = k) ~> k \in done

\* The destructor returns.
DestructorEnds == poolStop ~> joined

\* No task and no thread of the pool is lost or left behind.
PoolSafe == PoolTypeOK /\ NoLostWakeup /\ NoLostStop /\ RunOnce /\ DrainedWhenJoined

\* Every task accepted is run, and the destructor comes to its end.
PoolEnds == AcceptedIsRun /\ DestructorEnds
=============================================================================
