------------------------------ MODULE TimerMng ------------------------------
(***************************************************************************)
(* util::TimerMng (utility/src/timer.cpp): a list of timers, a detached    *)
(* loop that scans it every 100 ms, and a thread pool on which the         *)
(* callbacks of the timers found due are run.                              *)
(*                                                                         *)
(* Wall-clock time is abstracted: a timer whose expire_ms_ is a real       *)
(* instant is "armed" and may be found due by any scan; a timer whose      *)
(* expire_ms_ is the maximum of uint64_t is not.  TimerDeadlines adds the  *)
(* deadlines and the clock.  StartTimer makes a new TimerCfg each time, so *)
(* a member of Timers is started at most once.                             *)
(*                                                                         *)
(* An operator named X_Y is the definition X with the programming mistake  *)
(* Y; no definition uses it.                                               *)
(***************************************************************************)
EXTENDS Naturals, Sequences, FiniteSets

CONSTANTS Timers,    \* the TimerCfg objects the clients ever create
          Workers,   \* the threads of thread_pool_
          Resettable, \* the timers some client calls Reset on
          Pausable,  \* the timers some client suspends and resumes
          MaxTasks,  \* bound on the length of the pool's task queue
          None       \* the absence of a timer in a worker

ASSUME TimerAssumption ==
  /\ None \notin Timers
  /\ Resettable \subseteq Timers
  /\ Pausable \subseteq Timers
  /\ MaxTasks \in Nat
  /\ IsFiniteSet(Timers) /\ IsFiniteSet(Workers)

VARIABLES
  created,    \* timers StartTimer has returned
  listed,     \* timers_: the timers in the manager's list
  armed,      \* expire_ms_ is a real instant, not the maximum of uint64_t
  suspended,  \* suspended_
  periodic,   \* interval_ > 0
  tasks,      \* thread_pool_.tasks_: InvokeTimerCb calls not yet taken
  worker,     \* the timer whose InvokeTimerCb each pool thread executes
  phase,      \* where in InvokeTimerCb it is
  stop,       \* stop_
  loop,       \* where TimerLoop is
  crashed,    \* list::erase(end()) was executed: the process has aborted
  raced       \* history: timers a client re-armed or stopped while a call of
              \* their callback was outstanding, or stopped when not listed

vars == <<created, listed, armed, suspended, periodic, tasks, worker, phase,
          stop, loop, crashed, raced>>

cfgVars  == <<created, suspended, periodic>>
poolVars == <<tasks, worker, phase>>
loopVars == <<stop, loop>>

-----------------------------------------------------------------------------

Queued(t)      == \E i \in DOMAIN tasks : tasks[i] = t
Running(t)     == \E w \in Workers : worker[w] = t
Outstanding(t) == Queued(t) \/ Running(t)

\* The number of calls of t's callback that are queued or running.
Calls(t) == Cardinality({i \in DOMAIN tasks : tasks[i] = t})
            + Cardinality({w \in Workers : worker[w] = t})

\* timers_.erase(std::find(timers_.begin(), timers_.end(), t)).  When t is not
\* in the list, erase is given end(): libstdc++ unhooks and frees the list's
\* own sentinel, an address that was never allocated, and free() aborts.
EraseFromList(t) ==
  /\ listed' = listed \ {t}
  /\ crashed' = (t \notin listed)

MarkRaced(t, condition) ==
  raced' = IF condition THEN raced \cup {t} ELSE raced

-----------------------------------------------------------------------------
(* The clients' calls. *)

StartTimer(t, interval) ==
  /\ t \notin created
  /\ created' = created \cup {t}
  /\ listed' = listed \cup {t}
  /\ armed' = [armed EXCEPT ![t] = TRUE]
  /\ periodic' = [periodic EXCEPT ![t] = interval]
  /\ UNCHANGED <<suspended, poolVars, loopVars, crashed, raced>>

\* if (!timer) return;
NotNull(t) == t \in created

StopTimer(t) ==
  /\ NotNull(t)
  /\ EraseFromList(t)
  /\ MarkRaced(t, t \notin listed \/ Outstanding(t))
  /\ UNCHANGED <<cfgVars, armed, poolVars, loopVars>>

\* TimerCfg::Reset with its default arguments, the only use in the program.
Reset(t) ==
  /\ t \in created \cap Resettable
  /\ armed' = [armed EXCEPT ![t] = TRUE]
  /\ MarkRaced(t, Outstanding(t))
  /\ UNCHANGED <<cfgVars, listed, poolVars, loopVars, crashed>>

Suspend(t) ==
  /\ t \in created \cap Pausable
  /\ suspended' = [suspended EXCEPT ![t] = TRUE]
  /\ UNCHANGED <<created, listed, armed, periodic, poolVars, loopVars,
                 crashed, raced>>

Resume(t) ==
  /\ t \in created \cap Pausable
  /\ suspended' = [suspended EXCEPT ![t] = FALSE]
  /\ armed' = [armed EXCEPT ![t] = @ \/ periodic[t]]
  /\ MarkRaced(t, periodic[t] /\ Outstanding(t))
  /\ UNCHANGED <<created, listed, periodic, poolVars, loopVars, crashed>>

\* set_interval with a positive interval: what AdvertiseLocalTimeoutCb and
\* RelayFloodingAddrsTimeoutCb call on their own timer from its callback.
SetInterval(t) ==
  /\ t \in created
  /\ periodic' = [periodic EXCEPT ![t] = TRUE]
  /\ UNCHANGED <<created, listed, armed, suspended, poolVars, loopVars,
                 crashed, raced>>

\* set_stop(true); the program never sets it back to false.
SetStop ==
  /\ stop' = TRUE
  /\ UNCHANGED <<cfgVars, listed, armed, poolVars, loop, crashed, raced>>

-----------------------------------------------------------------------------
(* The detached thread: while (!stop_) { CheckTimers(); sleep 100 ms }. *)

TestStop ==
  /\ loop = "test"
  /\ loop' = IF stop THEN "exited" ELSE "check"
  /\ UNCHANGED <<cfgVars, listed, armed, poolVars, stop, crashed, raced>>

\* The tasks of one scan are queued once each, in some order.
Dispatch(due) ==
  \E order \in [1..Cardinality(due) -> due] :
    /\ \A i, j \in DOMAIN order : order[i] = order[j] => i = j
    /\ tasks' = tasks \o order

MayBeDue(t) == t \in listed /\ armed[t] /\ ~suspended[t]

\* set_expire_ms(max) on each timer dispatched.
Disarm_Forgotten(due) == UNCHANGED armed
Disarm_BeforeSuspendedTest(due) ==
  armed' = [t \in Timers |-> armed[t] /\ t \notin due /\ ~suspended[t]]
Disarm(due) == armed' = [t \in Timers |-> armed[t] /\ t \notin due]

\* A scan under mutex_ dispatches the due timers: some subset of those that are
\* armed and not suspended.
CheckTimers(due) ==
  /\ loop = "check"
  /\ \A t \in due : MayBeDue(t)
  /\ Len(tasks) + Cardinality(due) <= MaxTasks
  /\ Disarm(due)
  /\ Dispatch(due)
  /\ loop' = "test"
  /\ UNCHANGED <<cfgVars, listed, worker, phase, stop, crashed, raced>>

-----------------------------------------------------------------------------
(* A pool thread executing InvokeTimerCb: the call of cb(), then re-arming   *)
(* a periodic timer or erasing a one-shot one under mutex_.                  *)

\* The wait predicate of the pool's threads.
TaskReady == tasks # <<>>

TakeTask(w) ==
  /\ worker[w] = None
  /\ TaskReady
  /\ worker' = [worker EXCEPT ![w] = Head(tasks)]
  /\ phase' = [phase EXCEPT ![w] = "cb"]
  /\ tasks' = Tail(tasks)
  /\ UNCHANGED <<cfgVars, listed, armed, loopVars, crashed, raced>>

\* cb() returns; what the callback itself calls on the manager is among the
\* clients' calls above.
ReturnFromCb(w) ==
  /\ worker[w] # None
  /\ phase[w] = "cb"
  /\ phase' = [phase EXCEPT ![w] = "after"]
  /\ UNCHANGED <<cfgVars, listed, armed, tasks, worker, loopVars, crashed,
                 raced>>

EndTask(w) ==
  worker' = [worker EXCEPT ![w] = None]

SetExpiry_Forgotten(t) == UNCHANGED armed
SetExpiry(t) == armed' = [armed EXCEPT ![t] = TRUE]

Rearm(w) ==
  /\ worker[w] # None
  /\ phase[w] = "after"
  /\ periodic[worker[w]]
  /\ SetExpiry(worker[w])
  /\ EndTask(w)
  /\ UNCHANGED <<cfgVars, listed, tasks, phase, loopVars, crashed, raced>>

EraseOneShot(w) ==
  /\ worker[w] # None
  /\ phase[w] = "after"
  /\ ~periodic[worker[w]]
  /\ EraseFromList(worker[w])
  /\ EndTask(w)
  /\ UNCHANGED <<cfgVars, armed, tasks, phase, loopVars, raced>>

-----------------------------------------------------------------------------

Init ==
  /\ created = {}
  /\ listed = {}
  /\ armed = [t \in Timers |-> FALSE]
  /\ suspended = [t \in Timers |-> FALSE]
  /\ periodic = [t \in Timers |-> FALSE]
  /\ tasks = <<>>
  /\ worker = [w \in Workers |-> None]
  /\ phase = [w \in Workers |-> "cb"]
  /\ stop = FALSE
  /\ loop = "test"
  /\ crashed = FALSE
  /\ raced = {}

Client ==
  \/ \E t \in Timers, interval \in BOOLEAN : StartTimer(t, interval)
  \/ \E t \in Timers : \/ StopTimer(t)
                       \/ Reset(t)
                       \/ Suspend(t)
                       \/ Resume(t)
                       \/ SetInterval(t)
  \/ SetStop

Loop == TestStop \/ \E due \in SUBSET Timers : CheckTimers(due)

Invoke(w) == TakeTask(w) \/ ReturnFromCb(w) \/ Rearm(w) \/ EraseOneShot(w)

\* An aborted process takes no step.
Next == ~crashed /\ (Client \/ Loop \/ \E w \in Workers : Invoke(w))

Spec == Init /\ [][Next]_vars

-----------------------------------------------------------------------------
(* Properties. *)

\* The state is well-formed (timer.h:61-64, timer.h:47-67).
TypeOK ==
  /\ created \in SUBSET Timers
  /\ listed \in SUBSET created
  /\ armed \in [Timers -> BOOLEAN]
  /\ suspended \in [Timers -> BOOLEAN]
  /\ periodic \in [Timers -> BOOLEAN]
  /\ tasks \in Seq(created)
  /\ worker \in [Workers -> created \cup {None}]
  /\ phase \in [Workers -> {"cb", "after"}]
  /\ stop \in BOOLEAN
  /\ loop \in {"test", "check", "exited"}
  /\ crashed \in BOOLEAN
  /\ raced \in SUBSET created

\* A timer's callback does not overlap itself: unless a client re-armed or
\* stopped the timer under an outstanding call, at most one call of it is
\* queued or running (CheckTimers disarms what it dispatches; InvokeTimerCb
\* re-arms only after cb() returned).  OutboundTimeOutCb and PingTimeoutCb,
\* which check and then act without a lock, rely on it.
NoOverlap == \A t \in Timers \ raced : Calls(t) <= 1

\* erase(end()) is reached only through a race: if no client re-armed a timer
\* or stopped it while a call of its callback was outstanding, and none
\* stopped an unlisted one, InvokeTimerCb always finds the one-shot timer it
\* erases.
CrashNeedsRace == crashed => raced # {}

\* The inductive invariant behind both: for a timer nobody raced with, at most
\* one queue entry or thread holds it, it is disarmed while one does, and it
\* stays in the list until InvokeTimerCb itself takes it out.
OneHolder(t) ==
  /\ \A i, j \in DOMAIN tasks : tasks[i] = t /\ tasks[j] = t => i = j
  /\ \A v, w \in Workers : worker[v] = t /\ worker[w] = t => v = w
  /\ ~(Queued(t) /\ Running(t))

HeldQuietly(t) == Outstanding(t) => ~armed[t] /\ t \in listed

IInv ==
  /\ TypeOK
  /\ \A t \in Timers \ raced : OneHolder(t) /\ HeldQuietly(t)
  /\ CrashNeedsRace

\* No timer is lost: one that is in the list can still be found due, or a call of
\* its callback is on its way and will re-arm or erase it, whatever the clients do
\* meanwhile (CheckTimers disarms what it dispatches, timer.cpp:123; only
\* InvokeTimerCb, line 136, puts a deadline back).
NoTimerLost == \A t \in listed : armed[t] \/ Outstanding(t)
=============================================================================
