------------------------------- MODULE MCNode -------------------------------
(* What runs beside the connection of a node: the relay of addresses to it   *)
(* and its timers.  One behaviour is one part's, the other stays where it    *)
(* begins.                                                                   *)
EXTENDS Relay, NodeTimers

CONSTANT NodeParts

VARIABLE part

NodeInit == part \in NodeParts /\ RelayInit /\ TimersInit

NodeNext ==
  /\ UNCHANGED part
  /\ \/ part = "relay" /\ RelayNext /\ UNCHANGED timersState
     \/ part = "timers" /\ TimersNext /\ UNCHANGED relayState

nodeState == <<relayState, timersState, part>>

\* The relay timer fires again and again, and its callback goes on to its end.
RelayFairness ==
  WF_relayState(part = "relay" /\ ~aborted /\ BeginPass) /\ WF_relayState(part = "relay" /\ ~aborted /\ PassStep)

\* Threads run on; the timer loop need not find anything due.
Runs == part = "timers" /\ Alive
TimersFairness ==
  /\ WF_timersState(Runs /\ (StopOne \/ EndDisconnect))
  /\ WF_timersState(Runs /\ (ReadReset \/ ReadStart))
  /\ WF_timersState(Runs /\ StartOfVerack)
  /\ \A w \in Workers : SF_timersState(Runs /\ (TimeoutCb(w) \/ InvokeStep(w)))

NodeSpec == NodeInit /\ [][NodeNext]_nodeState /\ RelayFairness /\ TimersFairness

\* Of the interfaces, the first is the best reachable.
Reach == [a \in Addrs |-> IF a = "x" THEN 2 ELSE 1]
=============================================================================
