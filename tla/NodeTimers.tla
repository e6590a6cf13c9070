------------------------------- MODULE NodeTimers -------------------------------
(***************************************************************************)
(* The timers of one node (NodeTimers and the timeout callbacks of node.h, *)
(* node.cpp and net.cpp; who starts them in InitializeNode, ConnReadCb and *)
(* Verack::RecvHandler) on top of the timer manager: what happens when the *)
(* node is disconnected while its timers run, and when its timers fire     *)
(* while it is being disconnected.                                         *)
(*                                                                         *)
(* The node is in its list, with DisconnectNodeCb registered.  A pointer of *)
(* NodeTimers is read or written in the step of the call it is used in;    *)
(* nothing protects it from the other threads.                             *)
(***************************************************************************)
EXTENDS Naturals, Sequences, FiniteSets

CONSTANTS Kinds,     \* the timers of NodeTimers that are modelled
          Again,     \* those that may be started a second time
          Workers,   \* the timer manager's pool
          MaxTasks,  \* bound of its queue
          MaxVeracks \* bound on the veracks handled

ASSUME NodeTimersAssumption ==
  /\ Kinds \subseteq {"no_msg", "no_receiving", "shakehands", "ping", "advertise", "broadcast"}
  /\ Again \subseteq Kinds
  /\ IsFiniteSet(Workers) /\ Workers \cap {"event", "handler", "none"} = {}
  /\ MaxTasks \in Nat /\ MaxVeracks \in Nat

None == "none"
Timers == (Kinds \X {1}) \cup (Again \X {2})
KindOf(t) == t[1]
Null == <<"null">>

VARIABLES
  created, listed, armed, suspended, periodic, tasks, worker, phase, stop, loop,
  crashed, raced,  \* the timer manager's
  ptr,       \* timers_: each pointer, or Null
  conn,      \* connection_state_
  noMsg,     \* socket_no_msg_
  pinged,    \* ping_nonce_sent # 0
  member,    \* the node is in its Nodes list
  at,        \* of each manager thread, where in a timeout callback it is
  holder,    \* the thread in DisconnectNodeCb: it has cs_state_
  todo,      \* the timers StopAllTimers has still to stop
  reading,   \* the branch ConnReadCb has taken
  starting,  \* the timers the verack handler has still to start
  veracks,   \* the veracks handled
  nullCall,  \* a member function was called through a null pointer
  orphans,   \* history: timers started while, or after, the node was disconnected, and
             \* those whose pointer was overwritten
  fired      \* history: a timer was dispatched

mngVars  == <<created, listed, armed, suspended, periodic, tasks, worker, phase, stop,
              loop, crashed, raced>>
connVars == <<conn, noMsg, pinged, member>>
nodeVars == <<ptr, connVars, at, holder, todo, reading, starting, veracks, nullCall,
              orphans, fired>>
timersState == <<mngVars, nodeVars>>

Mng == INSTANCE TimerMng WITH Resettable <- Timers, Pausable <- {}, None <- Null

Threads == Workers \cup {"event", "handler"}
Disconnected == conn = "disconnected"

\* A disconnection has begun, whatever the state was set to since.
Leaving == holder # None \/ ~member

-----------------------------------------------------------------------------
(* Starting. *)

\* Bound: a timer that cannot be started again keeps its thread waiting.
Fresh(k) == {t \in Timers \ created : KindOf(t) = k}

\* StartTimer, and the assignment of what it returns.
Start(k) ==
  \E t \in Fresh(k) :
    /\ Mng!StartTimer(t, k = "ping")
    /\ ptr' = [ptr EXCEPT ![k] = t]
    /\ orphans' = orphans \cup (IF Leaving THEN {t} ELSE {})
                          \cup (IF ptr[k] = Null THEN {} ELSE {ptr[k]})

\* ConnReadCb finds the node and looks at no_receiving_timer ...
ReadTest ==
  /\ member
  /\ reading = None
  /\ holder # "event"
  /\ noMsg' = FALSE
  /\ IF "no_receiving" \in Kinds
     THEN reading' = IF ptr["no_receiving"] # Null THEN "reset" ELSE "start"
     ELSE UNCHANGED reading
  /\ UNCHANGED <<mngVars, ptr, conn, pinged, member, at, holder, todo, starting, veracks,
                 nullCall, orphans, fired>>

ReadReset ==
  /\ reading = "reset"
  /\ reading' = None
  /\ IF ptr["no_receiving"] = Null
     THEN nullCall' = TRUE /\ UNCHANGED mngVars
     ELSE nullCall' = nullCall /\ Mng!Reset(ptr["no_receiving"])
  /\ UNCHANGED <<ptr, connVars, at, holder, todo, starting, veracks, orphans, fired>>

ReadStart ==
  /\ reading = "start"
  /\ reading' = None
  /\ Start("no_receiving")
  /\ UNCHANGED <<connVars, at, holder, todo, starting, veracks, nullCall, fired>>

IfModelled(k) == IF k \in Kinds THEN <<k>> ELSE <<>>
VerackTimers == IfModelled("ping") \o IfModelled("advertise") \o IfModelled("broadcast")

\* Verack::RecvHandler: set_connection_state(kEstablished), whatever the state was, then
\* the ping and the timers.
RecvVerack ==
  /\ starting = <<>>
  /\ veracks < MaxVeracks
  /\ holder = None
  /\ veracks' = veracks + 1
  /\ conn' = "established"
  /\ pinged' = TRUE
  /\ starting' = VerackTimers
  /\ UNCHANGED <<mngVars, ptr, noMsg, member, at, holder, todo, reading, nullCall, orphans,
                 fired>>

StartOfVerack ==
  /\ starting # <<>>
  /\ holder # "handler"
  /\ Start(Head(starting))
  /\ starting' = Tail(starting)
  /\ UNCHANGED <<connVars, at, holder, todo, reading, veracks, nullCall, fired>>

Pong ==
  /\ starting = <<>> /\ holder # "handler"
  /\ pinged
  /\ pinged' = FALSE
  /\ UNCHANGED <<mngVars, ptr, conn, noMsg, member, at, holder, todo, reading, starting,
                 veracks, nullCall, orphans, fired>>

-----------------------------------------------------------------------------
(* Disconnecting. *)

StopOrder_NoPing ==
  IfModelled("no_msg") \o IfModelled("no_receiving") \o IfModelled("shakehands")
    \o IfModelled("advertise") \o IfModelled("broadcast")
StopOrder ==
  IfModelled("no_msg") \o IfModelled("no_receiving") \o IfModelled("shakehands")
    \o VerackTimers

BeginDisconnect(x) ==
  /\ holder = None
  /\ holder' = x
  /\ conn' = "disconnected"
  /\ todo' = StopOrder

\* EOF, an error, a message that is refused.
DisconnectBy(x) ==
  /\ x = "event" => member /\ reading = None /\ ~Disconnected
  /\ x = "handler" => starting = <<>>
  /\ BeginDisconnect(x)
  /\ UNCHANGED <<mngVars, ptr, noMsg, pinged, member, at, reading, starting, veracks,
                 nullCall, orphans, fired>>

Released_Kept(k) == ptr' = ptr
Released(k) == ptr' = [ptr EXCEPT ![k] = Null]

StopOne_AllAtOnce ==
  /\ todo # <<>>
  /\ todo' = <<>>
  /\ listed' = listed \ {ptr[k] : k \in Kinds}
  /\ ptr' = [k \in Kinds |-> Null]
  /\ UNCHANGED <<created, armed, suspended, periodic, tasks, worker, phase, stop, loop,
                 crashed, raced, connVars, at, holder, reading, starting, veracks,
                 nullCall, orphans, fired>>

\* if (timer) { StopTimer(timer); timer.reset(); }
StopOne ==
  /\ todo # <<>>
  /\ todo' = Tail(todo)
  /\ IF ptr[Head(todo)] = Null THEN UNCHANGED <<mngVars, ptr>>
     ELSE Mng!StopTimer(ptr[Head(todo)]) /\ Released(Head(todo))
  /\ UNCHANGED <<connVars, at, holder, reading, starting, veracks, nullCall, orphans, fired>>

\* EraseNode; set_connection_state releases the lock, a timeout callback ends.
EndDisconnect ==
  /\ holder # None
  /\ todo = <<>>
  /\ holder' = None
  /\ member' = FALSE
  /\ IF holder \in Workers
     THEN Mng!ReturnFromCb(holder) /\ at' = [at EXCEPT ![holder] = "test"]
     ELSE UNCHANGED <<mngVars, at>>
  /\ UNCHANGED <<ptr, conn, noMsg, pinged, todo, reading, starting, veracks, nullCall,
                 orphans, fired>>

-----------------------------------------------------------------------------
(* The timeout callbacks, run by InvokeTimerCb. *)

InCallback(w) == worker[w] # Null /\ phase[w] = "cb"
KindAt(w) == KindOf(worker[w])

\* What the callback of the kind goes on to do.
Verdict(k) ==
  CASE Disconnected -> "return"
    [] ~Disconnected /\ k = "no_msg" -> IF noMsg THEN "disconnect" ELSE "return"
    [] ~Disconnected /\ k = "shakehands" -> IF conn = "established" THEN "return" ELSE "disconnect"
    [] ~Disconnected /\ k = "no_receiving" -> "disconnect"
    [] ~Disconnected /\ k = "ping" -> IF pinged THEN "stop" ELSE "send"
    [] ~Disconnected /\ k \in {"advertise", "broadcast"} -> "interval"

CallbackTest(w) ==
  /\ InCallback(w)
  /\ at[w] = "test"
  /\ LET v == Verdict(KindAt(w))
     IN /\ at' = [at EXCEPT ![w] = IF v = "send" THEN "return" ELSE v]
        /\ pinged' = (pinged \/ v = "send")
  /\ UNCHANGED <<mngVars, ptr, conn, noMsg, member, holder, todo, reading, starting,
                 veracks, nullCall, orphans, fired>>

\* PingTimeoutCb stops its own timer before it disconnects.
StopOwnPing(w) ==
  /\ InCallback(w)
  /\ at[w] = "stop"
  /\ at' = [at EXCEPT ![w] = "disconnect"]
  /\ IF ptr["ping"] = Null THEN UNCHANGED mngVars ELSE Mng!StopTimer(ptr["ping"])
  /\ UNCHANGED <<ptr, connVars, holder, todo, reading, starting, veracks, nullCall, orphans,
                 fired>>

CallbackDisconnects(w) ==
  /\ InCallback(w)
  /\ at[w] = "disconnect"
  /\ BeginDisconnect(w)
  /\ at' = [at EXCEPT ![w] = "stopping"]
  /\ UNCHANGED <<mngVars, ptr, noMsg, pinged, member, reading, starting, veracks, nullCall,
                 orphans, fired>>

\* The end of AdvertiseLocalTimeoutCb and RelayFloodingAddrsTimeoutCb.
SetOwnInterval(w) ==
  /\ InCallback(w)
  /\ at[w] = "interval"
  /\ at' = [at EXCEPT ![w] = "return"]
  /\ IF ptr[KindAt(w)] = Null
     THEN nullCall' = TRUE /\ UNCHANGED mngVars
     ELSE nullCall' = nullCall /\ Mng!SetInterval(ptr[KindAt(w)])
  /\ UNCHANGED <<ptr, connVars, holder, todo, reading, starting, veracks, orphans, fired>>

CallbackReturns(w) ==
  /\ at[w] = "return"
  /\ at' = [at EXCEPT ![w] = "test"]
  /\ Mng!ReturnFromCb(w)
  /\ UNCHANGED <<ptr, connVars, holder, todo, reading, starting, veracks, nullCall, orphans,
                 fired>>

TimeoutCb(w) ==
  \/ CallbackTest(w) \/ StopOwnPing(w) \/ CallbackDisconnects(w)
  \/ SetOwnInterval(w) \/ CallbackReturns(w)

\* The timer manager's own steps around a callback.
InvokeStep(w) ==
  /\ Mng!TakeTask(w) \/ Mng!Rearm(w) \/ Mng!EraseOneShot(w)
  /\ UNCHANGED nodeVars

TimerLoopStep ==
  /\ \/ Mng!TestStop /\ UNCHANGED fired
     \/ \E due \in SUBSET Timers : Mng!CheckTimers(due) /\ fired' = (fired \/ due # {})
  /\ UNCHANGED <<ptr, connVars, at, holder, todo, reading, starting, veracks, nullCall,
                 orphans>>

-----------------------------------------------------------------------------

\* InitializeNode starts its timers before any other thread knows the node.
InitialKinds == Kinds \cap {"no_msg", "shakehands"}
InitialTimers == InitialKinds \X {1}

TimersInit ==
  /\ created = InitialTimers /\ listed = InitialTimers
  /\ armed = [t \in Timers |-> t \in InitialTimers]
  /\ suspended = [t \in Timers |-> FALSE]
  /\ periodic = [t \in Timers |-> FALSE]
  /\ tasks = <<>>
  /\ worker = [w \in Workers |-> Null]
  /\ phase = [w \in Workers |-> "cb"]
  /\ stop = FALSE /\ loop = "test" /\ crashed = FALSE /\ raced = {}
  /\ ptr = [k \in Kinds |-> IF k \in InitialKinds THEN <<k, 1>> ELSE Null]
  /\ conn = "initial" /\ noMsg = TRUE /\ pinged = FALSE /\ member = TRUE
  /\ at = [w \in Workers |-> "test"]
  /\ holder = None /\ todo = <<>> /\ reading = None /\ starting = <<>>
  /\ veracks = 0 /\ nullCall = FALSE /\ orphans = {} /\ fired = FALSE

TimersNext ==
  /\ ~crashed /\ ~nullCall
  /\ \/ ReadTest \/ ReadReset \/ ReadStart
     \/ RecvVerack \/ StartOfVerack \/ Pong
     \/ \E x \in {"event", "handler"} : DisconnectBy(x)
     \/ StopOne \/ EndDisconnect
     \/ \E w \in Workers : TimeoutCb(w) \/ InvokeStep(w)
     \/ TimerLoopStep

TimersSpec == TimersInit /\ [][TimersNext]_timersState

Alive == ~crashed /\ ~nullCall

-----------------------------------------------------------------------------
(* Properties. *)

TimersTypeOK ==
  /\ Mng!TypeOK
  /\ ptr \in [Kinds -> created \cup {Null}]
  /\ conn \in {"initial", "established", "disconnected"}
  /\ at \in [Workers -> {"test", "return", "stop", "disconnect", "stopping", "interval"}]
  /\ holder \in Threads \cup {None}
  /\ todo \in Seq(Kinds) /\ starting \in Seq(Kinds)
  /\ reading \in {None, "reset", "start"}
  /\ veracks \in 0..MaxVeracks
  /\ orphans \subseteq created
  /\ noMsg \in BOOLEAN /\ pinged \in BOOLEAN /\ member \in BOOLEAN
  /\ nullCall \in BOOLEAN /\ fired \in BOOLEAN

\* A disconnection leaves no timer of the node behind but those a thread started too
\* late to be seen, and those a second verack made unreachable (verack.cpp:47-69,
\* node.cpp StopAllTimers).
NoTimerLeft == ~member /\ holder = None => listed \subseteq orphans

\* A node whose timers never fired is disconnected without harm: list::erase(end())
\* takes a timer that had already been dispatched (node.cpp:98-135, timer.cpp:88-95).
AbortNeedsFired == crashed => fired

\* A call through a null pointer takes a disconnection between a test and the use of
\* the pointer (libevent.cpp:112, net.cpp:226).
NullCallNeedsDisconnection == nullCall => Leaving

\* The node, its callbacks and the threads that start and stop its timers use the timer
\* manager as it is specified: each of their steps is one of its steps, or none.
TimersRefineMng == [][Mng!Next]_mngVars

\* The callbacks hold the node: when it has been disconnected and nothing keeps its
\* timers running, the last of them is gone in the end, and the node with it.
NodeIsReleased ==
  ~member ~> \/ listed = {} /\ \A t \in Timers : ~Mng!Outstanding(t)
             \/ orphans # {} \/ ~Alive

\* What a disconnection in the middle of anything may do to a node's timers, and no more.
TimersSafe == TimersTypeOK /\ NoTimerLeft /\ AbortNeedsFired /\ NullCallNeedsDisconnection
=============================================================================
