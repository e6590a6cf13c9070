---------------------------- MODULE Connection -----------------------------
(***************************************************************************)
(* The life of one connection, from its node being listed to the end: the  *)
(* start-up by Connector::ConnectNode or Acceptor::AcceptConnCb, the       *)
(* version / verack handshake run by the message handlers, ping and pong,  *)
(* the misbehaviour score, the first timeouts and the disconnection.       *)
(*                                                                         *)
(* Messages arrive and are parsed as in MsgStream, whose tasks may run at  *)
(* once: each step of a handler is an action here, in the order of its     *)
(* reads and writes of the shared Node.  The node's connection state is    *)
(* kDisconnected when ~up, kEstablished when up and established, and       *)
(* kInitialState otherwise.                                                *)
(*                                                                         *)
(* An operator named X_Y is the definition X with the programming mistake  *)
(* Y; no definition uses it.                                               *)
(***************************************************************************)
EXTENDS Naturals, Sequences

CONSTANTS Frames, Size, Length, Threads, MaxPending,  \* as in MsgStream
          Kind,     \* the message in each frame of the peer's stream
          Valid,    \* the frames whose message passes its IsValid
          Inbound   \* is_inbound_

Kinds == {"version", "verack", "ping", "pong", "other"}

VARIABLES
  got, drained, listed, up, pending, pc, header, data, handled, torn, overlap,
  misread,      \* as in MsgStream
  startup,      \* how far ConnectNode or AcceptConnCb is
  leaving,      \* DisconnectNodeCb is running
  established,  \* the last state set was kEstablished
  version,      \* protocol().version # 0
  noMsg,        \* socket_no_msg
  score,        \* misbehavior().score
  pingNonce,    \* time().ping_time.ping_nonce_sent
  sent,         \* the number of messages of each kind sent to the peer
  step,         \* where in its message handler each thread is
  shakeTimer,   \* where the one-shot call of ShakeHandsTimeoutCb is
  noMsgTimer,   \* whether SocketNoMsgTimeoutCb is still to come
  accepted,     \* history: the number of version messages accepted
  final         \* history: disconnected while no ParseMsg task was in progress

streamVars == <<got, drained, listed, up, pending, pc, header, data, handled,
                torn, overlap, misread>>
timerVars  == <<shakeTimer, noMsgTimer>>
peerVars   == <<established, version, pingNonce, noMsg, score, sent>>
ending     == <<leaving, final>>
vars == <<streamVars, startup, peerVars, step, timerVars, accepted, ending>>

Stream == INSTANCE MsgStream

ASSUME ConnectionAssumption ==
  /\ Stream!StreamAssumption
  /\ Kind \in [Frames -> Kinds] /\ Inbound \in BOOLEAN
  /\ Valid \subseteq Frames
  /\ \A f \in Frames : Kind[f] = "verack" => f \in Valid  \* verack.cpp:79-82

-----------------------------------------------------------------------------
(* Operations of the node. *)

Idle == \A t \in Threads : pc[t] = "idle"

CallbackRegistered == startup # "listed"

\* set_connection_state holds a lock while it sets the state and calls what is
\* registered for it.
StateLockFree == ~leaving

\* set_connection_state(kDisconnected), with the callback DisconnectNodeCb.
DisconnectNode ==
  /\ StateLockFree
  /\ Stream!Disconnect
  /\ established' = FALSE
  /\ leaving' = (leaving \/ CallbackRegistered)
  /\ final' = (final \/ Idle)

\* DisconnectNodeCb ends by taking the node out of its list.
EraseNode ==
  /\ leaving
  /\ leaving' = FALSE
  /\ Stream!Unlist
  /\ UNCHANGED <<startup, peerVars, step, timerVars, accepted, final>>

\* SendMsg: bev_ is never null, so the message is written.
Send(messages) ==
  /\ sent' = [k \in DOMAIN sent |-> sent[k] + IF k \in messages THEN 1 ELSE 0]
  /\ noMsg' = FALSE

-----------------------------------------------------------------------------
(* Start-up. *)

\* The node is listed by InitializeNode before RegisterSetStateCb is called.
Register ==
  /\ startup = "listed"
  /\ startup' = "registered"
  /\ UNCHANGED <<streamVars, peerVars, step, timerVars, accepted, ending>>

Ready_Relisting ==
  /\ startup = "registered"
  /\ startup' = "ready"
  /\ listed' = TRUE
  /\ IF Inbound THEN UNCHANGED <<sent, noMsg>> ELSE Send({"version"})
  /\ UNCHANGED <<got, drained, up, pending, pc, header, data, handled, torn, overlap,
                 misread, established, version, pingNonce, score, step, timerVars,
                 accepted, ending>>

\* ConnectNode goes on to SendVersion; AcceptConnCb sets the bufferevent's
\* callbacks and enables reading.
Ready ==
  /\ startup = "registered"
  /\ startup' = "ready"
  /\ IF Inbound THEN UNCHANGED <<sent, noMsg>> ELSE Send({"version"})
  /\ UNCHANGED <<streamVars, established, version, pingNonce, score, step, timerVars,
                 accepted, ending>>

-----------------------------------------------------------------------------
(* The event loop's thread. *)

\* An outbound bufferevent has its callbacks from NewSocketEvent on.
EventsEnabled_Early == TRUE
EventsEnabled == startup = "ready" \/ ~Inbound

\* The peer answers an outbound connection's version.
Receive(n) ==
  /\ startup = "ready"
  /\ Stream!Receive(n)
  /\ noMsg' = (noMsg /\ ~listed)
  /\ UNCHANGED <<startup, established, version, pingNonce, score, sent, step, timerVars,
                 accepted, ending>>

\* EOF or an error: ConnEventCb disconnects a node it finds in the list.
ConnEvent ==
  /\ EventsEnabled
  /\ listed
  /\ Stream!Close
  /\ DisconnectNode
  /\ UNCHANGED <<startup, version, pingNonce, noMsg, score, sent, step, timerVars, accepted>>

-----------------------------------------------------------------------------
(* The timeout callbacks; what stopping the timers does is in NodeTimers.    *)
(* The 60 s of the first two outlast the start-up.                          *)

SocketNoMsgTimeoutCb ==
  /\ startup = "ready" /\ noMsgTimer
  /\ noMsgTimer' = FALSE
  /\ IF up /\ noMsg
     THEN Stream!Close /\ DisconnectNode
     ELSE UNCHANGED <<streamVars, established, ending>>
  /\ UNCHANGED <<startup, version, pingNonce, noMsg, score, sent, step, shakeTimer, accepted>>

HandshakePending_UntilVersion == up /\ ~version
HandshakePending == up /\ ~established

\* ShakeHandsTimeoutCb tests IsDisconnected and IsHandshakeCompleted ...
ShakeHandsTest ==
  /\ startup = "ready" /\ shakeTimer = "armed"
  /\ shakeTimer' = IF HandshakePending THEN "disconnect" ELSE "done"
  /\ UNCHANGED <<streamVars, startup, peerVars, step, noMsgTimer, accepted, ending>>

\* ... and then disconnects the node, whatever became of it meanwhile.
ShakeHandsDisconnect ==
  /\ shakeTimer = "disconnect"
  /\ shakeTimer' = "done"
  /\ Stream!Close
  /\ DisconnectNode
  /\ UNCHANGED <<startup, version, pingNonce, noMsg, score, sent, step, noMsgTimer, accepted>>

\* InactivityTimeoutCb, when nothing was received or sent for long.
InactivityTimeoutCb ==
  /\ startup = "ready"
  /\ up
  /\ Stream!Close
  /\ DisconnectNode
  /\ UNCHANGED <<startup, version, pingNonce, noMsg, score, sent, step, timerVars, accepted>>

\* PingTimeoutCb: a ping not answered when the next is due disconnects the node.
PingTimeoutCb ==
  /\ sent["ping"] = 1  \* bound: the ping timer's first call only
  /\ up
  /\ IF pingNonce # 0
     THEN Stream!Close /\ DisconnectNode /\ UNCHANGED <<noMsg, sent>>
     ELSE Send({"ping"}) /\ UNCHANGED <<streamVars, established, ending>>
  /\ UNCHANGED <<startup, version, pingNonce, score, step, timerVars, accepted>>

-----------------------------------------------------------------------------
(* A pool thread in ParseMsg.  A handler runs while its thread is at         *)
(* "handle"; step says how far it is.                                       *)

Message(t) == Kind[header[t]]
IsValid(t) == header[t] \in Valid

AtStep(t, label) ==
  /\ pc[t] = "handle"
  /\ Stream!ChecksumOK(t)
  /\ step[t] = label

GotoStep(t, label) == step' = [step EXCEPT ![t] = label]

\* Everything of ParseMsg but the handler.  Its own Disconnect, for a header
\* that is not one, is a disconnection like any other.
ParseStep(t) ==
  /\ \/ Stream!TakeTask(t)
     \/ Stream!ReadHeader(t)
     \/ Stream!DrainHeader(t)
     \/ Stream!PullPayload(t)
     \/ Stream!DrainPayload(t)
  /\ IF pc[t] = "header" /\ header[t] \notin Frames
     THEN DisconnectNode
     ELSE UNCHANGED <<established, ending>>
  /\ UNCHANGED <<startup, version, pingNonce, noMsg, score, sent, step, timerVars,
                 accepted>>

\* The handler returns, or the checksum was wrong.
Return(t) ==
  /\ Stream!Handle(t)
  /\ GotoStep(t, "check")

\* Version::RecvHandler refuses a second version, and HandleMsgData a message
\* that CheckMisbehaving does not admit at this point of the handshake.
Admitted_VerackLate(k) == k # "version" => version /\ established
Admitted_WithoutVersion(k) == k \notin {"version", "verack"} => established
Admitted(k) ==
  /\ k # "version" => version
  /\ k \notin {"version", "verack"} => established

SecondVersion_Forgotten(k) == FALSE
SecondVersion(k) == k = "version" /\ version

Refused(k) == ~Admitted(k) \/ SecondVersion(k)

Misbehave(t) ==
  /\ AtStep(t, "check") /\ IsValid(t)
  /\ Refused(Message(t))
  /\ score' = score + 1
  /\ Return(t)
  /\ UNCHANGED <<startup, established, version, pingNonce, noMsg, sent, timerVars,
                 accepted, ending>>

Admit(t) ==
  /\ AtStep(t, "check") /\ IsValid(t)
  /\ ~Refused(Message(t))
  /\ GotoStep(t, "act")
  /\ UNCHANGED <<streamVars, startup, peerVars, timerVars, accepted, ending>>

\* A version without the services an outbound peer must offer, of an obsolete
\* protocol, or from ourselves: any version may be one.
RejectVersion(t) ==
  /\ AtStep(t, "act")
  /\ Message(t) = "version"
  /\ Stream!Close
  /\ DisconnectNode
  /\ GotoStep(t, "done")
  /\ UNCHANGED <<startup, version, pingNonce, noMsg, score, sent, timerVars, accepted>>

AnswerVersion(t) ==
  /\ AtStep(t, "act")
  /\ Message(t) = "version"
  /\ Send({"verack"} \cup IF Inbound THEN {"version"} ELSE {})
  /\ GotoStep(t, "store")
  /\ UNCHANGED <<streamVars, startup, established, version, pingNonce, score,
                 timerVars, accepted, ending>>

StoreVersion(t) ==
  /\ AtStep(t, "store")
  /\ version' = TRUE
  /\ accepted' = accepted + 1
  /\ Return(t)
  /\ UNCHANGED <<startup, established, pingNonce, noMsg, score, sent, timerVars, ending>>

\* Verack::RecvHandler sends its announcements, then sets the state, then pings.
AnswerVerack(t) ==
  /\ AtStep(t, "act")
  /\ Message(t) = "verack"
  /\ Send({})
  /\ GotoStep(t, "establish")
  /\ UNCHANGED <<streamVars, startup, established, version, pingNonce, score,
                 timerVars, accepted, ending>>

EstablishConnection(t) ==
  /\ AtStep(t, "establish")
  /\ StateLockFree
  /\ Stream!Establish(t)
  /\ established' = TRUE
  /\ GotoStep(t, "ping")
  /\ UNCHANGED <<startup, version, pingNonce, noMsg, score, sent, timerVars, accepted,
                 ending>>

SendPing(t) ==
  /\ AtStep(t, "ping")
  /\ Send({"ping"})
  /\ Return(t)
  /\ UNCHANGED <<startup, established, version, pingNonce, score, timerVars, accepted,
                 ending>>

\* Ping::RecvHandler echoes a pong.
AnswerPing(t) ==
  /\ AtStep(t, "act")
  /\ Message(t) = "ping"
  /\ Send({"pong"})
  /\ Return(t)
  /\ UNCHANGED <<startup, established, version, pingNonce, score, timerVars, accepted,
                 ending>>

\* Pong::RecvHandler: a pong nobody waits for, or with another nonce, changes
\* nothing.
ReceivePong(t) ==
  /\ AtStep(t, "act")
  /\ Message(t) = "pong"
  /\ \E nonce \in {pingNonce, pingNonce + 1} :
       pingNonce' = IF pingNonce = nonce THEN 0 ELSE pingNonce
  /\ Return(t)
  /\ UNCHANGED <<startup, established, version, noMsg, score, sent, timerVars, accepted,
                 ending>>

\* The handlers of the other messages do nothing; a wrong checksum, then a
\* message that is not valid, ends the message at once and costs the peer nothing.
Ignore(t) ==
  /\ pc[t] = "handle"
  /\ \/ ~Stream!ChecksumOK(t)
     \/ AtStep(t, "check") /\ ~IsValid(t)
     \/ AtStep(t, "act") /\ Message(t) = "other"
     \/ AtStep(t, "done")
  /\ Return(t)
  /\ UNCHANGED <<startup, peerVars, timerVars, accepted, ending>>

-----------------------------------------------------------------------------

Init ==
  /\ Stream!Init
  /\ startup = "listed"
  /\ established = FALSE
  /\ version = FALSE
  /\ noMsg = TRUE
  /\ score = 0
  /\ sent = [k \in {"version", "verack", "ping", "pong"} |-> 0]
  /\ pingNonce = 0
  /\ step = [t \in Threads |-> "check"]
  /\ shakeTimer = "armed" /\ noMsgTimer = TRUE
  /\ accepted = 0
  /\ final = FALSE
  /\ leaving = FALSE

Handler(t) ==
  \/ Misbehave(t) \/ Admit(t)
  \/ RejectVersion(t) \/ AnswerVersion(t) \/ StoreVersion(t)
  \/ AnswerVerack(t) \/ EstablishConnection(t) \/ SendPing(t)
  \/ AnswerPing(t) \/ ReceivePong(t) \/ Ignore(t)

Timeouts == \/ SocketNoMsgTimeoutCb \/ ShakeHandsTest \/ ShakeHandsDisconnect
            \/ InactivityTimeoutCb \/ PingTimeoutCb

Next ==
  \/ Register \/ Ready
  \/ EraseNode
  \/ ConnEvent \/ \E n \in 0..Length : Receive(n)
  \/ Timeouts
  \/ \E t \in Threads : ParseStep(t) \/ Handler(t)

Spec == Init /\ [][Next]_vars

\* The thread that starts the connection up, the pool's threads and the timer
\* manager keep running; nothing is assumed of the peer.
Fairness ==
  /\ WF_vars(Register \/ Ready) /\ WF_vars(EraseNode)
  /\ WF_vars(ShakeHandsTest \/ ShakeHandsDisconnect)
  /\ \A t \in Threads : WF_vars(ParseStep(t) \/ Handler(t))

FairSpec == Spec /\ Fairness

-----------------------------------------------------------------------------
(* Properties. *)

TypeOK ==
  /\ Stream!TypeOK
  /\ startup \in {"listed", "registered", "ready"}
  /\ established \in BOOLEAN /\ version \in BOOLEAN /\ noMsg \in BOOLEAN
  /\ score \in Nat /\ accepted \in Nat /\ pingNonce \in Nat
  /\ sent \in [{"version", "verack", "ping", "pong"} -> Nat]
  /\ step \in [Threads -> {"check", "act", "store", "establish", "ping", "done"}]
  /\ shakeTimer \in {"armed", "disconnect", "done"}
  /\ noMsgTimer \in BOOLEAN /\ final \in BOOLEAN /\ leaving \in BOOLEAN

\* "Must have a version message before anything else" (message.cpp:167), and
\* "Must have a verack message before anything else" (message.cpp:171): a
\* connection is established only once a version was accepted and our verack
\* sent, and whatever is sent in answer to a ping comes after a verack.
VersionFirst == /\ established => version /\ sent["verack"] > 0
                /\ sent["pong"] > 0 => sent["ping"] > 0 \/ \E t \in Threads : step[t] = "ping"

\* Unless two tasks of the connection overlapped, at most one version message is
\* accepted, and so at most one verack sent (version.cpp:43-47).
VersionOnce == ~overlap => accepted <= 1 /\ sent["verack"] <= 1

\* "Each connection can only send one version message" (version.cpp:43).
VersionOnceAlways == accepted <= 1

\* A disconnection while no ParseMsg task is in progress is final: nothing marks
\* the node established again.
ClosedForGood == final => ~up

\* A disconnected node is in no node list (test DisconnectedNodeCb) once its
\* callback has returned: its slot is free and no later event finds it.
DisconnectedIsUnlisted == ~up /\ startup = "ready" /\ ~leaving => ~listed

\* The flags of a node keep their types and agree with the lists it is in.
WellFormed == TypeOK /\ DisconnectedIsUnlisted

\* "The pong reply we're expecting, or 0 if no pong expected" (node.h:341): after
\* a ping there is a nonce to wait for, until a pong comes.
PongExpected ==
  sent["ping"] > 0 => pingNonce # 0 \/ \E i \in DOMAIN handled : Kind[handled[i]] = "pong"

\* A peer that keeps to the protocol sends a valid version first, its verack
\* next, and neither again.  (After a version dropped as not valid its verack
\* would be charged.)
SecondFrame == Stream!LastCell(1) + 1

Polite == /\ 1 \in Valid
          /\ \A f \in Frames : /\ Kind[f] = "version" <=> f = 1
                               /\ Kind[f] = "verack" <=> f = SecondFrame

\* A peer that keeps to the protocol, on a stream neither torn nor read twice at
\* once, is never charged with misbehaviour, also when later messages of its are
\* dropped as not valid.
PoliteUncharged == Stream!Undisturbed /\ up => score = 0

\* Every connection completes its handshake or is disconnected for good by
\* kShakeHandsTimeout: none stays half-open.
HandshakeEnds == <>[](established \/ ~up)

\* The connection reads its stream as MsgStream does.
StreamSpec == Stream!Spec
=============================================================================
