--------------------------- MODULE TimerDeadlines ---------------------------
(***************************************************************************)
(* The timer manager with its clock.  In TimerMng any armed timer may be   *)
(* found due by a scan; here it is due when its deadline has passed, a     *)
(* scan takes all that are, and a client that calls Reset or Resume moves  *)
(* the deadline on, if it likes for ever (ConnReadCb does at every read).  *)
(* Every step but the clock's is one of TimerMng, by construction.         *)
(***************************************************************************)
EXTENDS TimerMng

CONSTANT Timeout   \* timeout_ and interval_, in ticks of the clock

ASSUME TimeoutAssumption == Timeout \in Nat \ {0}

VARIABLE left      \* the ticks until expire_ms_ of an armed timer, 0 once it is past

deadlineVars == <<vars, left>>

DeadlinesInit == Init /\ left = [t \in Timers |-> 0]

\* GetTimeMillis() goes on.
Tick ==
  /\ left' = [t \in Timers |-> IF left[t] = 0 THEN 0 ELSE left[t] - 1]
  /\ UNCHANGED vars

\* expire_ms_ = now + timeout_, or interval_.
Push(t) == left' = [left EXCEPT ![t] = Timeout]

Due(t) == t \in listed /\ armed[t] /\ ~suspended[t] /\ left[t] = 0

\* A client, which takes no lock, may move a deadline on after a scan found it past.
MovedOn(t) == t \in Resettable \cup Pausable /\ MayBeDue(t) /\ left[t] > 0

\* One pass of CheckTimers: the time is read once, and all that are due are taken, also
\* those of which a client has moved the deadline on since they were tested.
Scan ==
  /\ \E late \in SUBSET {t \in Timers : MovedOn(t)} :
       CheckTimers({t \in Timers : Due(t)} \cup late)
  /\ UNCHANGED left

StartWithDeadline == \E t \in Timers, interval \in BOOLEAN : StartTimer(t, interval) /\ Push(t)
ResetDeadline == \E t \in Timers : Reset(t) /\ Push(t)
ResumeDeadline ==
  \E t \in Timers : Resume(t) /\ IF periodic[t] THEN Push(t) ELSE UNCHANGED left
OtherCalls ==
  /\ (\E t \in Timers : StopTimer(t) \/ Suspend(t) \/ SetInterval(t)) \/ SetStop
  /\ UNCHANGED left

InvokeStep(w) ==
  \/ (TakeTask(w) \/ ReturnFromCb(w) \/ EraseOneShot(w)) /\ UNCHANGED left
  \/ Rearm(w) /\ Push(worker[w])

DeadlinesNext ==
  /\ ~crashed
  /\ \/ Tick
     \/ StartWithDeadline \/ ResetDeadline \/ ResumeDeadline \/ OtherCalls
     \/ (TestStop /\ UNCHANGED left) \/ Scan
     \/ \E w \in Workers : InvokeStep(w)

\* The clock goes on, the loop thread and the pool threads keep running, and a callback
\* returns (the program's do not block).  Nothing is assumed of the clients.
DeadlinesSpec ==
  /\ DeadlinesInit /\ [][DeadlinesNext]_deadlineVars
  /\ WF_deadlineVars(~crashed /\ Tick)
  /\ WF_deadlineVars(~crashed /\ TestStop /\ UNCHANGED left)
  /\ WF_deadlineVars(~crashed /\ Scan)
  /\ \A w \in Workers : WF_deadlineVars(~crashed /\ InvokeStep(w))

-----------------------------------------------------------------------------
(* Properties. *)

\* A client moves the deadline of an armed timer on.
Pushed(t) == armed[t] /\ armed'[t] /\ left'[t] > left[t]

\* A timer in the list is dispatched, again and again if it is periodic, unless it is
\* suspended or stopped, the loop has been told to stop or the process has aborted, or a
\* client pushes its deadline on for ever (timer.cpp:19,35,109-127,136).
EveryTimerFires ==
  \A t \in Timers :
    \/ (t \in listed /\ ~Outstanding(t))
          ~> (Outstanding(t) \/ suspended[t] \/ t \notin listed \/ stop \/ crashed)
    \/ []<><<Pushed(t)>>_deadlineVars

\* Every callback dispatched is run to its end, also after set_stop, unless the
\* process aborts, or a client re-arms the timer so that another call is always
\* on its way.
EveryCallEnds ==
  \A t \in Timers : Outstanding(t) ~> (~Outstanding(t) \/ t \in raced \/ crashed)

\* The timers go on: both of the above.
TimersGoOn == EveryTimerFires /\ EveryCallEnds
=============================================================================
