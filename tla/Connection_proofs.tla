------------------------- MODULE Connection_proofs -------------------------
(***************************************************************************)
(* Connection for every stream, every number of pool threads and both      *)
(* directions: it implements MsgStream, and keeps the order of the         *)
(* version / verack handshake.                                             *)
(***************************************************************************)
EXTENDS Connection, SequenceTheorems, TLAPS

StreamProofs == INSTANCE MsgStream_proofs

\* What MsgStream_proofs shows holds of the stream of a connection.
LEMMA StreamAssumed == StreamProofs!StreamAssumption
  BY ConnectionAssumption
     DEF Stream!StreamAssumption, StreamProofs!StreamAssumption,
         Stream!LastCell, StreamProofs!LastCell

LEMMA SameIInv == Stream!IInv <=> StreamProofs!IInv
  BY Zenon DEF Stream!IInv, StreamProofs!IInv, 
     Stream!TypeOK, Stream!BufferOK, Stream!FlagsOK, Stream!ThreadsOK,
     Stream!HandledInOrder, Stream!MisreadNeedsDisturbance, Stream!Undisturbed,
     Stream!LastCell, Stream!NextFrame, Stream!Position, Stream!Alone, Stream!ChecksumOK,
     StreamProofs!TypeOK, StreamProofs!BufferOK, StreamProofs!FlagsOK, StreamProofs!ThreadsOK,
     StreamProofs!HandledInOrder, StreamProofs!MisreadNeedsDisturbance, StreamProofs!Undisturbed,
     StreamProofs!LastCell, StreamProofs!NextFrame, StreamProofs!Position, StreamProofs!Alone, StreamProofs!ChecksumOK

LEMMA SameNext == [Stream!Next]_(Stream!vars) <=> [StreamProofs!Next]_(StreamProofs!vars)
  BY Zenon DEF Stream!Next, StreamProofs!Next, Stream!vars, StreamProofs!vars,
     Stream!bufferVars, Stream!nodeVars, Stream!history,
     StreamProofs!bufferVars, StreamProofs!nodeVars, StreamProofs!history,
     Stream!Receive, StreamProofs!Receive, Stream!FindsNode, StreamProofs!FindsNode,
     Stream!Close, StreamProofs!Close, Stream!Disconnect, StreamProofs!Disconnect,
     Stream!Unlist, StreamProofs!Unlist,
     Stream!TakeTask, StreamProofs!TakeTask, Stream!Goto, StreamProofs!Goto, 
     Stream!StillUp, StreamProofs!StillUp, Stream!Establish, StreamProofs!Establish,
     Stream!ChecksumOK, StreamProofs!ChecksumOK,
     Stream!ParseMsg, StreamProofs!ParseMsg, Stream!ReadHeader, StreamProofs!ReadHeader,
     Stream!CanPullup, StreamProofs!CanPullup, Stream!Available, StreamProofs!Available,
     Stream!DrainHeader, StreamProofs!DrainHeader, Stream!Drain, StreamProofs!Drain,
     Stream!PullPayload, StreamProofs!PullPayload, Stream!Handle, StreamProofs!Handle,
     Stream!DrainPayload, StreamProofs!DrainPayload, 
     Stream!PayloadToDrain, StreamProofs!PayloadToDrain

LEMMA StreamKept == Stream!IInv /\ [Stream!Next]_(Stream!vars) => Stream!IInv'
<1>1. (Stream!IInv <=> StreamProofs!IInv)'
  BY SameIInv, PTL
<1>2. QED
  BY <1>1, SameIInv, SameNext, StreamAssumed, StreamProofs!NextIInv

LEMMA StreamStarts == Stream!Init => Stream!IInv
<1>1. Stream!Init <=> StreamProofs!Init
  BY Zenon DEF Stream!Init, StreamProofs!Init
<1>2. QED  BY <1>1, SameIInv, StreamAssumed, StreamProofs!InitIInv

-----------------------------------------------------------------------------

\* Every step of Connection is a step of MsgStream or leaves its state alone.
LEMMA StreamStep == [Next]_vars => [Stream!Next]_(Stream!vars)
<1>1. UNCHANGED streamVars => UNCHANGED Stream!vars
  BY DEF streamVars, Stream!vars, Stream!bufferVars, Stream!nodeVars, Stream!history
<1>2. Stream!Close \/ Stream!Unlist \/ (\E n \in 0..Length : Stream!Receive(n)) => Stream!Next
  BY Zenon DEF Stream!Next
<1>3. ASSUME NEW t \in Threads,
             Stream!TakeTask(t) \/ Stream!Establish(t) \/ Stream!ReadHeader(t)
             \/ Stream!DrainHeader(t) \/ Stream!PullPayload(t) \/ Stream!Handle(t)
             \/ Stream!DrainPayload(t)
      PROVE  Stream!Next
  BY <1>3, Zenon DEF Stream!Next, Stream!ParseMsg
<1>4. CASE Register \/ Ready \/ UNCHANGED vars
  BY <1>1, <1>4, Zenon DEF Register, Ready, vars
<1>5. CASE EraseNode \/ ConnEvent \/ ShakeHandsDisconnect \/ InactivityTimeoutCb
  BY <1>2, <1>5, Zenon DEF EraseNode, ConnEvent, ShakeHandsDisconnect, InactivityTimeoutCb
<1>6. CASE \E n \in 0..Length : Receive(n)
  BY <1>2, <1>6, Zenon DEF Receive
<1>7. CASE SocketNoMsgTimeoutCb \/ ShakeHandsTest \/ PingTimeoutCb
  BY <1>1, <1>2, <1>7, Zenon DEF SocketNoMsgTimeoutCb, ShakeHandsTest, PingTimeoutCb
<1>8. ASSUME NEW t \in Threads, ParseStep(t)  PROVE Stream!Next
  BY <1>3, <1>8, Zenon DEF ParseStep
<1>9. ASSUME NEW t \in Threads, Handler(t)  PROVE [Stream!Next]_(Stream!vars)
  <2>1. CASE Admit(t) \/ AnswerVersion(t) \/ AnswerVerack(t)
    BY <1>1, <2>1, Zenon DEF Admit, AnswerVersion, AnswerVerack
  <2>2. CASE RejectVersion(t)
    BY <1>2, <2>2, Zenon DEF RejectVersion
  <2>3. CASE Misbehave(t) \/ StoreVersion(t) \/ SendPing(t) \/ AnswerPing(t)
             \/ ReceivePong(t) \/ Ignore(t)
    BY <1>3, <2>3, Zenon
       DEF Misbehave, StoreVersion, SendPing, AnswerPing, ReceivePong, Ignore, Return
  <2>4. CASE EstablishConnection(t)
    BY <1>3, <2>4, Zenon DEF EstablishConnection
  <2>5. QED  BY <1>9, <2>1, <2>2, <2>3, <2>4, Zenon DEF Handler
<1>10. QED
  BY <1>4, <1>5, <1>6, <1>7, <1>8, <1>9, Zenon DEF Next, Timeouts

\* A connection reads its stream as MsgStream says, whatever its handlers and
\* timeouts do meanwhile.
THEOREM Implements == Spec => StreamSpec
<1>1. Init => Stream!Init
  BY Zenon DEF Init
<1>2. QED  BY <1>1, StreamStep, PTL DEF Spec, StreamSpec, Stream!Spec

-----------------------------------------------------------------------------

MessageKinds == {"version", "verack", "ping", "pong"}

\* What Send does to the counters.
LEMMA SendCounts ==
  ASSUME NEW messages, Send(messages), sent \in [MessageKinds -> Nat]
  PROVE  /\ sent' \in [MessageKinds -> Nat]
         /\ noMsg' \in BOOLEAN
         /\ \A k \in MessageKinds :
              sent'[k] = IF k \in messages THEN sent[k] + 1 ELSE sent[k]
<1>1. DOMAIN sent = MessageKinds
  OBVIOUS
<1>2. sent' = [k \in MessageKinds |-> sent[k] + IF k \in messages THEN 1 ELSE 0]
  BY <1>1, Zenon DEF Send
<1>3. \A k \in MessageKinds : sent'[k] = sent[k] + IF k \in messages THEN 1 ELSE 0
  BY <1>2
<1>4. \A k \in MessageKinds :
        sent'[k] \in Nat /\ sent'[k] = IF k \in messages THEN sent[k] + 1 ELSE sent[k]
  BY <1>3
<1>5. sent' \in [MessageKinds -> Nat]
  BY <1>2, <1>4
<1>6. noMsg' \in BOOLEAN
  BY DEF Send
<1>7. QED  BY <1>4, <1>5, <1>6

LEMMA DisconnectTypes ==
  ASSUME DisconnectNode, leaving \in BOOLEAN, final \in BOOLEAN
  PROVE  established' \in BOOLEAN /\ leaving' \in BOOLEAN /\ final' \in BOOLEAN
  BY Zenon DEF DisconnectNode, Idle, CallbackRegistered

\* The types of what Connection adds to MsgStream's state.
Labels == {"check", "act", "store", "establish", "ping", "done"}

Counts == score \in Nat /\ accepted \in Nat /\ pingNonce \in Nat
          /\ sent \in [MessageKinds -> Nat]
Flags  == /\ established \in BOOLEAN /\ version \in BOOLEAN /\ noMsg \in BOOLEAN
          /\ noMsgTimer \in BOOLEAN /\ final \in BOOLEAN /\ leaving \in BOOLEAN
Places == /\ startup \in {"listed", "registered", "ready"}
          /\ step \in [Threads -> Labels]
          /\ shakeTimer \in {"armed", "disconnect", "done"}

NodeOK == Counts /\ Flags /\ Places

LEMMA TypeParts == TypeOK <=> Stream!TypeOK /\ NodeOK
  BY Zenon DEF TypeOK, NodeOK, Counts, Flags, Places, Labels, MessageKinds

LEMMA NodeStep == NodeOK /\ [Next]_vars => NodeOK'
<1>1. SUFFICES ASSUME NodeOK, [Next]_vars  PROVE NodeOK'
  OBVIOUS
<1> USE <1>1 DEF NodeOK
<1>2. ASSUME UNCHANGED <<established, version, noMsg, noMsgTimer, leaving, final>>
      PROVE  Flags'
  BY <1>2, Zenon DEF Flags
<1>3. ASSUME UNCHANGED <<version, noMsg, noMsgTimer>>, DisconnectNode
      PROVE  Flags'
  BY <1>3, DisconnectTypes, Zenon DEF Flags
<1>4. ASSUME UNCHANGED <<score, accepted, pingNonce, sent>>  PROVE Counts'
  BY <1>4, Zenon DEF Counts
<1>5. ASSUME UNCHANGED <<score, accepted, pingNonce>>, NEW m, Send(m)
      PROVE  Counts' /\ noMsg' \in BOOLEAN
  <2>1. sent' \in [MessageKinds -> Nat] /\ noMsg' \in BOOLEAN
    BY <1>5, SendCounts, Zenon DEF Counts
  <2>2. QED  BY <1>5, <2>1, Zenon DEF Counts
<1>6. ASSUME UNCHANGED <<startup, step, shakeTimer>>  PROVE Places'
  BY <1>6, Zenon DEF Places
<1>7. ASSUME NEW t \in Threads, NEW l \in Labels, GotoStep(t, l), UNCHANGED <<startup, shakeTimer>>
      PROVE  Places'
  <2>1. step' \in [Threads -> Labels]
    BY <1>7 DEF GotoStep, Places
  <2>2. QED  BY <1>7, <2>1, Zenon DEF Places
<1>8. CASE Register \/ UNCHANGED vars \/ EraseNode
  <2>1. Counts' /\ Flags'
    BY <1>8, <1>2, <1>4, Zenon DEF Register, EraseNode, vars, peerVars, timerVars, ending, Flags
  <2>2. Places'
    BY <1>8, Zenon DEF Register, EraseNode, vars, timerVars, Places
  <2>3. QED  BY <2>1, <2>2
<1>9. CASE Ready
  <2>1. Counts' /\ noMsg' \in BOOLEAN
    <3>1. CASE Inbound
      BY <1>9, <3>1, <1>4, Zenon DEF Ready, Flags
    <3>2. CASE ~Inbound
      BY <1>9, <3>2, <1>5, Zenon DEF Ready
    <3>3. QED  BY <3>1, <3>2
  <2>2. Flags' /\ Places'
    BY <1>9, <2>1, Zenon DEF Ready, Places, Flags, timerVars, ending
  <2>3. QED  BY <2>1, <2>2
<1>10. CASE ConnEvent \/ InactivityTimeoutCb \/ ShakeHandsDisconnect
  <2>1. Counts' /\ Flags'
    BY <1>10, <1>3, <1>4, Zenon
       DEF ConnEvent, InactivityTimeoutCb, ShakeHandsDisconnect, timerVars
  <2>2. Places'
    BY <1>10, Zenon DEF ConnEvent, InactivityTimeoutCb, ShakeHandsDisconnect, timerVars, Places
  <2>3. QED  BY <2>1, <2>2
<1>11. ASSUME NEW n \in 0..Length, Receive(n)  PROVE NodeOK'
  <2>1. Counts' /\ Places'
    BY <1>11, <1>4, <1>6, Zenon DEF Receive, timerVars
  <2>2. Flags'
    BY <1>11, Zenon DEF Receive, timerVars, ending, Flags
  <2>3. QED  BY <2>1, <2>2
<1>12. CASE SocketNoMsgTimeoutCb \/ ShakeHandsTest
  <2>1. Counts' /\ Places'
    BY <1>12, <1>4, Zenon DEF SocketNoMsgTimeoutCb, ShakeHandsTest, peerVars, Places
  <2>2. Flags'
    BY <1>12, DisconnectTypes, Zenon
       DEF SocketNoMsgTimeoutCb, ShakeHandsTest, peerVars, ending, Flags
  <2>3. QED  BY <2>1, <2>2
<1>13. CASE PingTimeoutCb
  <2>1. Counts' /\ noMsg' \in BOOLEAN
    BY <1>13, <1>4, <1>5, Zenon DEF PingTimeoutCb, Flags
  <2>2. Flags' /\ Places'
    BY <1>13, <2>1, DisconnectTypes, Zenon DEF PingTimeoutCb, Flags, Places, timerVars, ending
  <2>3. QED  BY <2>1, <2>2
<1>14. ASSUME NEW t \in Threads, ParseStep(t)  PROVE NodeOK'
  <2>1. Counts' /\ Places'
    BY <1>14, <1>4, <1>6, Zenon DEF ParseStep, timerVars
  <2>2. Flags'
    BY <1>14, DisconnectTypes, Zenon DEF ParseStep, timerVars, ending, Flags
  <2>3. QED  BY <2>1, <2>2
<1>15. ASSUME NEW t \in Threads, Handler(t)  PROVE NodeOK'
  <2> "check" \in Labels /\ "act" \in Labels /\ "store" \in Labels
      /\ "establish" \in Labels /\ "ping" \in Labels /\ "done" \in Labels
    BY Zenon DEF Labels
  <2>1. Places'
    BY <1>15, <1>7, Zenon
       DEF Handler, Misbehave, Admit, RejectVersion, AnswerVersion, StoreVersion,
           AnswerVerack, EstablishConnection, SendPing, AnswerPing, ReceivePong,
           Ignore, Return, timerVars
  <2>2. CASE Admit(t) \/ Ignore(t) \/ EstablishConnection(t)
    BY <2>1, <2>2, <1>4, Zenon
       DEF Admit, Ignore, EstablishConnection, peerVars, timerVars, ending, Flags
  <2>3. CASE RejectVersion(t)
    BY <2>1, <2>3, <1>3, <1>4, Zenon DEF RejectVersion, timerVars
  <2>4. ASSUME NEW m, Send(m),
               UNCHANGED <<established, version, pingNonce, score, timerVars, accepted, ending>>
        PROVE  NodeOK'
    BY <2>1, <2>4, <1>5, Zenon DEF timerVars, ending, Flags
  <2>5. CASE AnswerVersion(t) \/ AnswerVerack(t) \/ SendPing(t) \/ AnswerPing(t)
    BY <2>4, <2>5, Zenon DEF AnswerVersion, AnswerVerack, SendPing, AnswerPing
  <2>6. CASE Misbehave(t) \/ StoreVersion(t) \/ ReceivePong(t)
    <3>1. Flags'
      BY <2>6, Zenon DEF Misbehave, StoreVersion, ReceivePong, timerVars, ending, Flags
    <3>2. Counts'
      BY <2>6 DEF Misbehave, StoreVersion, ReceivePong, Counts
    <3>3. QED  BY <2>1, <3>1, <3>2
  <2>7. QED  BY <1>15, <2>2, <2>3, <2>5, <2>6, Zenon DEF Handler
<1>16. QED
  BY <1>8, <1>9, <1>10, <1>11, <1>12, <1>13, <1>14, <1>15, Zenon DEF Next, Timeouts

-----------------------------------------------------------------------------
(* The handshake.  Where each handler is determines what was done before it. *)

\* A ping was sent, or is the next thing a verack handler does.
PingDue == sent["ping"] > 0 \/ \E t \in Threads : step[t] = "ping"

HandlerAt(t) ==
  /\ step[t] # "check" => pc[t] = "handle" /\ Stream!ChecksumOK(t)
  /\ step[t] = "act" /\ Message(t) # "version" => version
  /\ step[t] = "act" /\ Message(t) \notin {"version", "verack"} => PingDue
  /\ step[t] = "store" => Message(t) = "version" /\ sent["verack"] > 0
  /\ step[t] \in {"establish", "ping"} => Message(t) = "verack" /\ version
  /\ step[t] = "done" => Message(t) = "version"

Handshake ==
  /\ \A t \in Threads : HandlerAt(t)
  /\ version => sent["verack"] > 0
  /\ established => version /\ PingDue
  /\ sent["pong"] > 0 => PingDue

\* A thread neither parses nor handles.
Still(t) == pc'[t] = pc[t] /\ header'[t] = header[t] /\ data'[t] = data[t]

SentGrows == \A k \in MessageKinds : sent[k] > 0 => sent'[k] > 0

\* The start-up, the events, the timeouts and the parsing.
Elsewhere == \/ Register \/ Ready \/ EraseNode \/ ConnEvent
             \/ \E n \in 0..Length : Receive(n)
             \/ Timeouts \/ \E t \in Threads : ParseStep(t)
             \/ UNCHANGED vars

\* They leave the handlers where they are.
LEMMA ElsewhereQuiet ==
  ASSUME Stream!ThreadsOK, NodeOK, Handshake, Elsewhere
  PROVE  /\ step' = step /\ version' = version /\ accepted' = accepted /\ score' = score
         /\ established' => established
         /\ SentGrows /\ sent'["verack"] = sent["verack"] /\ sent'["pong"] = sent["pong"]
         /\ \A t \in Threads : step[t] # "check" => Still(t)
<1>1. sent \in [MessageKinds -> Nat]
  BY DEF NodeOK, Counts
<1>2. ASSUME UNCHANGED sent  PROVE SentGrows /\ sent'["verack"] = sent["verack"] /\ sent'["pong"] = sent["pong"]
  BY <1>2, Zenon DEF SentGrows
<1>3. ASSUME NEW m, Send(m), "verack" \notin m, "pong" \notin m
      PROVE  SentGrows /\ sent'["verack"] = sent["verack"] /\ sent'["pong"] = sent["pong"]
  <2>1. \A k \in MessageKinds :
          sent[k] \in Nat /\ sent'[k] = IF k \in m THEN sent[k] + 1 ELSE sent[k]
    BY <1>1, <1>3, SendCounts
  <2>2. SentGrows
    BY <2>1 DEF SentGrows
  <2>3. QED  BY <1>3, <2>1, <2>2 DEF MessageKinds
<1>4. SentGrows /\ sent'["verack"] = sent["verack"] /\ sent'["pong"] = sent["pong"]
  <2>1. CASE Ready \/ PingTimeoutCb
    <3>1. "verack" \notin {"version"} /\ "verack" \notin {"ping"}
          /\ "pong" \notin {"version"} /\ "pong" \notin {"ping"}
      OBVIOUS
    <3>2. QED  BY <2>1, <3>1, <1>2, <1>3, Zenon DEF Ready, PingTimeoutCb
  <2>2. CASE ~(Ready \/ PingTimeoutCb)
    BY <2>2, <1>2, Zenon
       DEF Elsewhere, Timeouts, Register, EraseNode, ConnEvent, Receive,
           SocketNoMsgTimeoutCb, ShakeHandsTest, ShakeHandsDisconnect, InactivityTimeoutCb,
           ParseStep, vars, peerVars
  <2>3. QED  BY <2>1, <2>2
<1>5. step' = step /\ version' = version /\ accepted' = accepted /\ score' = score
  BY Zenon
     DEF Elsewhere, Timeouts, Register, Ready, EraseNode, ConnEvent, Receive,
         SocketNoMsgTimeoutCb, ShakeHandsTest, ShakeHandsDisconnect, InactivityTimeoutCb,
         PingTimeoutCb, ParseStep, vars, peerVars
<1>6. established' => established
  BY Zenon
     DEF Elsewhere, Timeouts, Register, Ready, EraseNode, ConnEvent, Receive,
         SocketNoMsgTimeoutCb, ShakeHandsTest, ShakeHandsDisconnect, InactivityTimeoutCb,
         PingTimeoutCb, ParseStep, vars, peerVars, DisconnectNode
<1>7. ASSUME NEW t \in Threads, step[t] # "check"  PROVE Still(t)
  <2>1. pc[t] = "handle"
    BY <1>7 DEF Handshake, HandlerAt
  <2>2. ASSUME UNCHANGED <<pc, header, data>>  PROVE Still(t)
    BY <2>2, Zenon DEF Still
  <2>3. ASSUME NEW u \in Threads, ParseStep(u)  PROVE Still(t)
    <3>1. pc[u] # "handle"
      BY <2>3, Zenon
         DEF ParseStep, Stream!TakeTask, Stream!ReadHeader, Stream!DrainHeader,
             Stream!PullPayload, Stream!DrainPayload
    <3>2. u # t
      BY <2>1, <3>1
    <3>3. QED
      BY <2>3, <3>2
         DEF ParseStep, Stream!TakeTask, Stream!ReadHeader, Stream!DrainHeader,
             Stream!PullPayload, Stream!DrainPayload, Stream!Goto, Stream!ThreadsOK, Still
  <2>4. CASE ~ \E u \in Threads : ParseStep(u)
    BY <2>2, <2>4, Zenon
       DEF Elsewhere, Timeouts, Register, Ready, EraseNode, ConnEvent, Receive,
           SocketNoMsgTimeoutCb, ShakeHandsTest, ShakeHandsDisconnect, InactivityTimeoutCb,
           PingTimeoutCb, vars, streamVars, Stream!Receive, Stream!Close, Stream!Unlist
  <2>5. QED  BY <2>3, <2>4
<1>8. QED  BY <1>4, <1>5, <1>6, <1>7

\* What HandlerAt says of a handler outlives the steps of others.
LEMMA HandlerKept ==
  ASSUME NEW t \in Threads, HandlerAt(t), step'[t] = step[t],
         step[t] # "check" => Still(t),
         version => version', SentGrows, PingDue => PingDue'
  PROVE  HandlerAt(t)'
<1>1. sent["verack"] > 0 => sent'["verack"] > 0
  BY Zenon DEF SentGrows, MessageKinds
<1>2. CASE step[t] = "check"
  BY <1>2 DEF HandlerAt
<1>3. CASE step[t] # "check"
  <2>1. pc'[t] = pc[t] /\ header'[t] = header[t] /\ data'[t] = data[t]
    BY <1>3 DEF Still
  <2>2. Message(t)' = Message(t)
    BY <2>1 DEF Message
  <2>3. Stream!ChecksumOK(t) => Stream!ChecksumOK(t)'
    BY <2>1 DEF Stream!ChecksumOK
  <2>4. QED  BY <1>1, <2>1, <2>2, <2>3, Zenon DEF HandlerAt
<1>4. QED  BY <1>2, <1>3

LEMMA PingDueKept ==
  ASSUME SentGrows, PingDue,
         \A t \in Threads : step[t] = "ping" => step'[t] = "ping" \/ sent'["ping"] > 0
  PROVE  PingDue'
  BY Zenon DEF PingDue, SentGrows, MessageKinds

LEMMA HandshakeElsewhere ==
  ASSUME Stream!ThreadsOK, NodeOK, Handshake, Elsewhere
  PROVE  Handshake'
<1>1. /\ step' = step /\ version' = version
      /\ established' => established
      /\ SentGrows /\ sent'["verack"] = sent["verack"] /\ sent'["pong"] = sent["pong"]
      /\ \A t \in Threads : step[t] # "check" => Still(t)
  BY ElsewhereQuiet
<1>2. PingDue => PingDue'
  BY <1>1, PingDueKept, Zenon
<1>3. \A t \in Threads : HandlerAt(t)'
  BY <1>1, <1>2, HandlerKept, Zenon DEF Handshake
<1>4. QED  BY <1>1, <1>2, <1>3, Zenon DEF Handshake

\* A step of one handler leaves the others where they are.
LEMMA HandlerShape ==
  ASSUME Stream!ThreadsOK, NodeOK, NEW t \in Threads, Handler(t)
  PROVE  /\ pc[t] = "handle" /\ header' = header /\ data' = data
         /\ \A u \in Threads \ {t} : Still(u) /\ step'[u] = step[u]
         /\ SentGrows
         /\ version => version'
<1>1. pc[t] = "handle"
  BY Zenon
     DEF Handler, Misbehave, Admit, RejectVersion, AnswerVersion, StoreVersion,
         AnswerVerack, EstablishConnection, SendPing, AnswerPing, ReceivePong,
         Ignore, Return, AtStep
<1>2. header' = header /\ data' = data
  BY Zenon
     DEF Handler, Misbehave, Admit, RejectVersion, AnswerVersion, StoreVersion,
         AnswerVerack, EstablishConnection, SendPing, AnswerPing, ReceivePong,
         Ignore, Return, streamVars, Stream!Handle, Stream!Close, Stream!Establish
<1>3. \E l \in Labels : GotoStep(t, l)
  BY Zenon
     DEF Handler, Misbehave, Admit, RejectVersion, AnswerVersion, StoreVersion,
         AnswerVerack, EstablishConnection, SendPing, AnswerPing, ReceivePong,
         Ignore, Return, Labels
<1>4. pc' = pc \/ pc' = [pc EXCEPT ![t] = "drain"]
  BY Zenon
     DEF Handler, Misbehave, Admit, RejectVersion, AnswerVersion, StoreVersion,
         AnswerVerack, EstablishConnection, SendPing, AnswerPing, ReceivePong,
         Ignore, Return, streamVars, Stream!Handle, Stream!Close, Stream!Establish,
         Stream!Goto
<1>5. \A u \in Threads \ {t} : pc'[u] = pc[u]
  BY <1>4 DEF Stream!ThreadsOK
<1>6. \A u \in Threads \ {t} : step'[u] = step[u]
  BY <1>3 DEF GotoStep, NodeOK, Places
<1>7. SentGrows
  <2>1. sent \in [MessageKinds -> Nat]
    BY DEF NodeOK, Counts
  <2>2. ASSUME NEW m, Send(m)  PROVE SentGrows
    <3>1. \A k \in MessageKinds :
            sent[k] \in Nat /\ sent'[k] = IF k \in m THEN sent[k] + 1 ELSE sent[k]
      BY <2>1, <2>2, SendCounts
    <3>2. QED  BY <3>1 DEF SentGrows
  <2>3. UNCHANGED sent \/ \E m : Send(m)
    BY Zenon
       DEF Handler, Misbehave, Admit, RejectVersion, AnswerVersion, StoreVersion,
           AnswerVerack, EstablishConnection, SendPing, AnswerPing, ReceivePong,
           Ignore, peerVars
  <2>4. QED  BY <2>2, <2>3, Zenon DEF SentGrows
<1>8. version => version'
  BY Zenon
     DEF Handler, Misbehave, Admit, RejectVersion, AnswerVersion, StoreVersion,
         AnswerVerack, EstablishConnection, SendPing, AnswerPing, ReceivePong,
         Ignore, peerVars
<1>9. QED  BY <1>2, <1>1, <1>5, <1>6, <1>7, <1>8, Zenon DEF Still

\* SendPing leaves "ping" with a ping sent; the other steps of a handler do not
\* leave it.
LEMMA PingDueHandler ==
  ASSUME Stream!ThreadsOK, NodeOK, Handshake, NEW t \in Threads, Handler(t), PingDue
  PROVE  PingDue'
<1>1. /\ SentGrows
      /\ \A u \in Threads \ {t} : step'[u] = step[u]
  BY HandlerShape
<1>2. ASSUME step[t] = "ping"  PROVE sent'["ping"] > 0
  <2>1. Stream!ChecksumOK(t) /\ Message(t) = "verack"
    BY <1>2, Zenon DEF Handshake, HandlerAt
  <2>2. SendPing(t)
    BY <1>2, <2>1
       DEF Handler, Misbehave, Admit, RejectVersion, AnswerVersion, StoreVersion,
           AnswerVerack, EstablishConnection, AnswerPing, ReceivePong, Ignore, AtStep
  <2>3. \A k \in MessageKinds :
          sent[k] \in Nat /\ sent'[k] = IF k \in {"ping"} THEN sent[k] + 1 ELSE sent[k]
    BY <2>2, SendCounts DEF SendPing, NodeOK, Counts
  <2>4. sent["ping"] \in Nat /\ sent'["ping"] = sent["ping"] + 1
    BY <2>3 DEF MessageKinds
  <2>5. QED  BY <2>4
<1>3. \A u \in Threads : step[u] = "ping" => step'[u] = "ping" \/ sent'["ping"] > 0
  BY <1>1, <1>2, Zenon
<1>4. QED  BY <1>1, <1>3, PingDueKept

\* What is at stake for the acting thread alone.
LEMMA HandlerAfter ==
  ASSUME Stream!ThreadsOK, NodeOK, Handshake, NEW t \in Threads, Handler(t)
  PROVE  HandlerAt(t)'
<1>1. /\ pc[t] = "handle" /\ header' = header /\ data' = data
      /\ SentGrows
      /\ version => version'
  BY HandlerShape
<1>2. HandlerAt(t) /\ step \in [Threads -> Labels] /\ sent \in [MessageKinds -> Nat]
  BY DEF Handshake, NodeOK, Places, Counts
<1>3. \A l : GotoStep(t, l) => step'[t] = l
  BY <1>2, Zenon DEF GotoStep
<1>4. Message(t)' = Message(t)
  BY <1>1, Zenon DEF Message
<1>5. Stream!ChecksumOK(t) => Stream!ChecksumOK(t)'
  BY <1>1, Zenon DEF Stream!ChecksumOK
<1>6. CASE \/ Misbehave(t) \/ StoreVersion(t) \/ SendPing(t) \/ AnswerPing(t)
           \/ ReceivePong(t) \/ Ignore(t)
  <2>1. step'[t] = "check"
    BY <1>3, <1>6, Zenon
       DEF Misbehave, StoreVersion, SendPing, AnswerPing, ReceivePong, Ignore, Return
  <2>2. QED  BY <2>1 DEF HandlerAt
<1>7. CASE Admit(t)
  <2>1. step'[t] = "act" /\ Stream!ChecksumOK(t)
    BY <1>3, <1>7, Zenon DEF Admit, AtStep
  <2>2. UNCHANGED <<pc, version>>
    BY <1>7, Zenon DEF Admit, streamVars, peerVars
  <2>3. /\ Message(t) # "version" => version
        /\ Message(t) \notin {"version", "verack"} => established
    BY <1>7, Zenon DEF Admit, Refused, Admitted
  <2>4. Message(t) \notin {"version", "verack"} => PingDue'
    BY <2>3, PingDueHandler DEF Handshake
  <2>5. QED  BY <1>1, <1>4, <1>5, <2>1, <2>2, <2>3, <2>4 DEF HandlerAt
<1>8. CASE RejectVersion(t)
  <2>1. /\ step'[t] = "done" /\ Stream!ChecksumOK(t)
        /\ Message(t) = "version" /\ pc' = pc
    BY <1>3, <1>8, Zenon DEF RejectVersion, AtStep, Stream!Close
  <2>2. QED  BY <1>1, <1>4, <1>5, <2>1 DEF HandlerAt
<1>9. CASE AnswerVersion(t)
  <2>1. /\ step'[t] = "store" /\ Stream!ChecksumOK(t)
        /\ Message(t) = "version" /\ pc' = pc
    BY <1>3, <1>9, Zenon DEF AnswerVersion, AtStep, streamVars
  <2>2. PICK m : Send(m) /\ "verack" \in m
    <3> DEFINE answer == {"verack"} \cup IF Inbound THEN {"version"} ELSE {}
    <3>1. Send(answer)
      BY <1>9, Zenon DEF AnswerVersion
    <3>2. "verack" \in answer
      OBVIOUS
    <3>3. QED  BY <3>1, <3>2, Zenon
  <2>3. \A k \in MessageKinds :
          sent[k] \in Nat /\ sent'[k] = IF k \in m THEN sent[k] + 1 ELSE sent[k]
    BY <1>2, <2>2, SendCounts
  <2>4. sent["verack"] \in Nat /\ sent'["verack"] = sent["verack"] + 1
    BY <2>2, <2>3 DEF MessageKinds
  <2>5. sent'["verack"] > 0
    BY <2>4
  <2>6. QED  BY <1>1, <1>4, <1>5, <2>1, <2>5 DEF HandlerAt
<1>10. CASE AnswerVerack(t)
  <2>1. /\ step'[t] = "establish" /\ Stream!ChecksumOK(t)
        /\ Message(t) = "verack" /\ step[t] = "act" /\ UNCHANGED <<pc, version>>
    BY <1>3, <1>10, Zenon DEF AnswerVerack, AtStep, streamVars
  <2>2. QED  BY <1>1, <1>2, <1>4, <1>5, <2>1 DEF HandlerAt
<1>11. CASE EstablishConnection(t)
  <2>1. /\ step'[t] = "ping" /\ Stream!ChecksumOK(t)
        /\ step[t] = "establish" /\ UNCHANGED <<pc, version>>
    BY <1>3, <1>11, Zenon DEF EstablishConnection, AtStep, Stream!Establish
  <2>2. QED  BY <1>1, <1>2, <1>4, <1>5, <2>1 DEF HandlerAt
<1>12. QED
  BY <1>6, <1>7, <1>8, <1>9, <1>10, <1>11, Zenon DEF Handler

LEMMA HandshakeHandler ==
  ASSUME Stream!ThreadsOK, NodeOK, Handshake, NEW t \in Threads, Handler(t)
  PROVE  Handshake'
<1>1. /\ \A u \in Threads \ {t} : Still(u) /\ step'[u] = step[u]
      /\ SentGrows
      /\ version => version'
  BY HandlerShape
<1>2. /\ PingDue => PingDue'
      /\ HandlerAt(t)'
  BY PingDueHandler, HandlerAfter
<1>3. \A u \in Threads : HandlerAt(u)'
  <2>1. ASSUME NEW u \in Threads \ {t}  PROVE HandlerAt(u)'
    BY <1>1, <1>2, HandlerKept DEF Handshake
  <2>2. QED  BY <1>2, <2>1
<1>4. version' => sent'["verack"] > 0
  <2>1. CASE StoreVersion(t)
    <3>1. sent["verack"] > 0
      BY <2>1, Zenon DEF StoreVersion, AtStep, Handshake, HandlerAt
    <3>2. QED  BY <3>1, <1>1, Zenon DEF SentGrows, MessageKinds
  <2>2. CASE ~StoreVersion(t)
    <3>1. version' = version
      BY <2>2, Zenon
         DEF Handler, Misbehave, Admit, RejectVersion, AnswerVersion, AnswerVerack,
             EstablishConnection, SendPing, AnswerPing, ReceivePong, Ignore, peerVars
    <3>2. QED  BY <3>1, <1>1, Zenon DEF SentGrows, MessageKinds, Handshake
  <2>3. QED  BY <2>1, <2>2
<1>5. established' => version' /\ PingDue'
  <2>1. CASE EstablishConnection(t)
    <3>1. version /\ step'[t] = "ping"
      BY <2>1 DEF EstablishConnection, AtStep, GotoStep, Handshake, HandlerAt, NodeOK, Places
    <3>2. QED  BY <3>1, <1>1, Zenon DEF PingDue
  <2>2. CASE ~EstablishConnection(t)
    <3>1. established' => established
      BY <2>2, Zenon
         DEF Handler, Misbehave, Admit, RejectVersion, AnswerVersion, AnswerVerack,
             StoreVersion, SendPing, AnswerPing, ReceivePong, Ignore, peerVars,
             DisconnectNode
    <3>2. QED  BY <3>1, <1>1, <1>2, Zenon DEF Handshake
  <2>3. QED  BY <2>1, <2>2
<1>6. sent'["pong"] > 0 => PingDue'
  <2>1. CASE AnswerPing(t)
    <3>1. Message(t) \notin {"version", "verack"} /\ step[t] = "act"
      BY <2>1 DEF AnswerPing, AtStep
    <3>2. QED  BY <3>1, <1>2, Zenon DEF Handshake, HandlerAt
  <2>2. CASE ~AnswerPing(t)
    <3>1. UNCHANGED sent \/ \E m : Send(m) /\ "pong" \notin m
      <4>1. CASE AnswerVersion(t)
        <5>1. "pong" \notin {"verack"} \cup IF Inbound THEN {"version"} ELSE {}
          OBVIOUS
        <5>2. QED  BY <4>1, <5>1, Zenon DEF AnswerVersion
      <4>2. "pong" \notin {} /\ "pong" \notin {"ping"}
        OBVIOUS
      <4>3. CASE AnswerVerack(t)
        <5>1. Send({})
          BY <4>3, Zenon DEF AnswerVerack
        <5>2. QED  BY <4>2, <5>1
      <4>4. CASE SendPing(t)
        <5>1. Send({"ping"})
          BY <4>4, Zenon DEF SendPing
        <5>2. QED  BY <4>2, <5>1
      <4>5. CASE ~(AnswerVersion(t) \/ AnswerVerack(t) \/ SendPing(t))
        BY <2>2, <4>5, Zenon
           DEF Handler, Misbehave, Admit, RejectVersion, StoreVersion,
               EstablishConnection, ReceivePong, Ignore, peerVars
      <4>6. QED  BY <4>1, <4>3, <4>4, <4>5
    <3>2. ASSUME NEW m, Send(m), "pong" \notin m  PROVE sent'["pong"] = sent["pong"]
      <4>1. \A k \in MessageKinds :
              sent'[k] = IF k \in m THEN sent[k] + 1 ELSE sent[k]
        BY <3>2, SendCounts DEF NodeOK, Counts
      <4>2. QED  BY <3>2, <4>1 DEF MessageKinds
    <3>3. sent'["pong"] = sent["pong"]
      BY <3>1, <3>2, Zenon
    <3>4. QED  BY <3>3, <1>2, Zenon DEF Handshake
  <2>3. QED  BY <2>1, <2>2
<1>7. QED  BY <1>3, <1>4, <1>5, <1>6, Zenon DEF Handshake

LEMMA NextCases ==
  [Next]_vars => Elsewhere \/ \E t \in Threads : Handler(t)
  BY Zenon DEF Next, Elsewhere

LEMMA HandshakeStep ==
  Stream!ThreadsOK /\ NodeOK /\ Handshake /\ [Next]_vars => Handshake'
  BY NextCases, HandshakeElsewhere, HandshakeHandler, Zenon

-----------------------------------------------------------------------------
(* One version.  The flag that refuses a second version is set only when the *)
(* first was answered: with one task at a time, no other looks at it between. *)

OneTask == \A t, u \in Threads : pc[t] # "idle" /\ pc[u] # "idle" => t = u

Storing == \E t \in Threads : step[t] = "store"

Accepting(t) == step[t] \in {"act", "store"} /\ Message(t) = "version"

OneVersion ==
  /\ OneTask
  /\ accepted = IF version THEN 1 ELSE 0
  /\ sent["verack"] = IF version \/ Storing THEN 1 ELSE 0
  /\ \A t \in Threads : Accepting(t) => ~version

LEMMA OneTaskKept ==
  ASSUME Stream!ThreadsOK, [Stream!Next]_(Stream!vars), ~overlap', ~overlap => OneTask
  PROVE  ~overlap /\ OneTask'
<1>1. ASSUME UNCHANGED overlap, \A t \in Threads : pc'[t] # "idle" => pc[t] # "idle"
      PROVE  ~overlap /\ OneTask'
  BY <1>1, Zenon DEF OneTask
<1>2. ASSUME UNCHANGED <<overlap, pc>>  PROVE ~overlap /\ OneTask'
  BY <1>2, Zenon DEF OneTask
<1>3. CASE UNCHANGED Stream!vars \/ Stream!Close \/ Stream!Unlist
           \/ (\E n \in 0..Length : Stream!Receive(n))
           \/ (\E t \in Threads : Stream!Establish(t))
  BY <1>2, <1>3, Zenon
     DEF Stream!vars, Stream!history, Stream!Close, Stream!Unlist, Stream!Receive,
         Stream!Establish
<1>4. ASSUME NEW t \in Threads, Stream!ParseMsg(t)  PROVE ~overlap /\ OneTask'
  <2>1. overlap' = overlap /\ pc[t] # "idle"
    BY <1>4, Zenon
       DEF Stream!ParseMsg, Stream!ReadHeader, Stream!DrainHeader, Stream!PullPayload,
           Stream!Handle, Stream!DrainPayload, Stream!history
  <2>2. \A u \in Threads \ {t} : pc'[u] = pc[u]
    BY <1>4
       DEF Stream!ParseMsg, Stream!ReadHeader, Stream!DrainHeader, Stream!PullPayload,
           Stream!Handle, Stream!DrainPayload, Stream!Goto, Stream!ThreadsOK
  <2>3. QED  BY <1>1, <2>1, <2>2
<1>5. ASSUME NEW t \in Threads, Stream!TakeTask(t)  PROVE ~overlap /\ OneTask'
  <2>1. ~overlap /\ (up => \A u \in Threads : pc[u] = "idle")
    BY <1>5, Zenon DEF Stream!TakeTask, Stream!StillUp
  <2>2. \A u \in Threads \ {t} : pc'[u] = pc[u]
    BY <1>5 DEF Stream!TakeTask, Stream!Goto, Stream!ThreadsOK
  <2>3. ~up => pc'[t] = "idle"
    BY <1>5 DEF Stream!TakeTask, Stream!StillUp, Stream!Goto, Stream!ThreadsOK
  <2>4. CASE up
    BY <2>1, <2>2, <2>4 DEF OneTask
  <2>5. CASE ~up
    BY <2>1, <2>2, <2>3, <2>5 DEF OneTask
  <2>6. QED  BY <2>4, <2>5
<1>6. QED  BY <1>3, <1>4, <1>5, Zenon DEF Stream!Next

LEMMA OneVersionElsewhere ==
  ASSUME Stream!ThreadsOK, NodeOK, Handshake, Elsewhere, OneVersion, OneTask'
  PROVE  OneVersion'
<1>1. /\ step' = step /\ version' = version /\ accepted' = accepted
      /\ sent'["verack"] = sent["verack"]
      /\ \A t \in Threads : step[t] # "check" => Still(t)
  BY ElsewhereQuiet
<1>2. ASSUME NEW t \in Threads, Accepting(t)'  PROVE ~version'
  <2>1. Accepting(t)
    BY <1>1, <1>2 DEF Accepting, Message, Still
  <2>2. QED  BY <1>1, <2>1 DEF OneVersion
<1>3. Storing' = Storing
  BY <1>1, Zenon DEF Storing
<1>4. QED  BY <1>1, <1>2, <1>3, Zenon DEF OneVersion

LEMMA OneVersionHandler ==
  ASSUME Stream!ThreadsOK, NodeOK, Handshake, NEW t \in Threads, Handler(t),
         OneVersion, OneTask'
  PROVE  OneVersion'
<1>1. /\ pc[t] = "handle" /\ header' = header
      /\ \A u \in Threads \ {t} : step'[u] = step[u]
  BY HandlerShape
<1>2. \A u \in Threads \ {t} : step[u] = "check"
  <2>1. \A u \in Threads \ {t} : pc[u] = "idle"
    BY <1>1 DEF OneVersion, OneTask
  <2>2. QED  BY <2>1 DEF Handshake, HandlerAt
<1>3. (Storing <=> step[t] = "store") /\ (Storing' <=> step'[t] = "store")
  BY <1>1, <1>2 DEF Storing
<1>4. Message(t)' = Message(t)
  BY <1>1, Zenon DEF Message
<1>5. ASSUME Accepting(t)' => ~version'
      PROVE  \A u \in Threads : Accepting(u)' => ~version'
  BY <1>1, <1>2, <1>5 DEF Accepting
<1>6. \A l : GotoStep(t, l) => step'[t] = l
  BY DEF GotoStep, NodeOK, Places
<1>7. HandlerAt(t) /\ sent \in [MessageKinds -> Nat]
  BY DEF Handshake, NodeOK, Counts
<1>8. ASSUME NEW m, Send(m)
      PROVE  sent'["verack"] = IF "verack" \in m THEN sent["verack"] + 1 ELSE sent["verack"]
  <2>1. \A k \in MessageKinds : sent'[k] = IF k \in m THEN sent[k] + 1 ELSE sent[k]
    BY <1>7, <1>8, SendCounts
  <2>2. QED  BY <2>1 DEF MessageKinds
<1>9. CASE StoreVersion(t)
  <2>1. /\ step[t] = "store" /\ step'[t] = "check" /\ version' = TRUE
        /\ accepted' = accepted + 1 /\ sent' = sent
    BY <1>6, <1>9, Zenon DEF StoreVersion, AtStep, Return
  <2>2. Accepting(t)
    BY <1>7, <2>1 DEF HandlerAt, Accepting
  <2>3. ~version /\ accepted = 0 /\ sent["verack"] = 1
    BY <1>3, <2>1, <2>2 DEF OneVersion
  <2>4. accepted' = 1 /\ sent'["verack"] = 1
    BY <2>1, <2>3
  <2>5. ~Accepting(t)'
    BY <2>1 DEF Accepting
  <2>6. QED  BY <1>5, <2>1, <2>4, <2>5, Zenon DEF OneVersion
<1>10. CASE AnswerVersion(t)
  <2>1. /\ step[t] = "act" /\ step'[t] = "store" /\ version' = version
        /\ accepted' = accepted /\ Message(t) = "version"
    BY <1>6, <1>10, Zenon DEF AnswerVersion, AtStep
  <2>2. Accepting(t)
    BY <2>1 DEF Accepting
  <2>3. ~version /\ accepted = 0 /\ sent["verack"] = 0
    BY <1>3, <2>1, <2>2 DEF OneVersion
  <2>4. sent'["verack"] = 1
    <3> DEFINE answer == {"verack"} \cup IF Inbound THEN {"version"} ELSE {}
    <3>1. Send(answer)
      BY <1>10, Zenon DEF AnswerVersion
    <3>2. "verack" \in answer
      OBVIOUS
    <3> HIDE DEF answer
    <3>3. sent'["verack"] = sent["verack"] + 1
      BY <3>1, <3>2, <1>8
    <3>4. QED  BY <2>3, <3>3
  <2>5. QED  BY <1>3, <1>5, <2>1, <2>3, <2>4, Zenon DEF OneVersion
<1>11. CASE Admit(t)
  <2>1. /\ step[t] = "check" /\ step'[t] = "act" /\ version' = version
        /\ accepted' = accepted /\ sent' = sent
        /\ Message(t) = "version" => ~version
    BY <1>6, <1>11, Zenon DEF Admit, AtStep, Refused, SecondVersion, peerVars
  <2>2. ~Storing /\ ~Storing'
    BY <1>3, <2>1
  <2>3. Accepting(t)' => ~version'
    BY <1>4, <2>1 DEF Accepting
  <2>4. QED  BY <1>5, <2>1, <2>2, <2>3, Zenon DEF OneVersion
<1>12. CASE ~(StoreVersion(t) \/ AnswerVersion(t) \/ Admit(t))
  <2>1. version' = version /\ accepted' = accepted
    BY <1>12, Zenon
       DEF Handler, Misbehave, RejectVersion, AnswerVerack, EstablishConnection,
           SendPing, AnswerPing, ReceivePong, Ignore, peerVars
  <2>2. step'[t] \notin {"act", "store"}
    BY <1>6, <1>12
       DEF Handler, Misbehave, RejectVersion, AnswerVerack, EstablishConnection,
           SendPing, AnswerPing, ReceivePong, Ignore, Return
  <2>3. step[t] # "store"
    <3>1. step[t] = "store" => Stream!ChecksumOK(t)
      BY <1>7 DEF HandlerAt
    <3>2. QED
      BY <1>12, <3>1
         DEF Handler, Misbehave, RejectVersion, AnswerVerack, EstablishConnection,
             SendPing, AnswerPing, ReceivePong, Ignore, AtStep
  <2>4. sent'["verack"] = sent["verack"]
    <3>1. CASE AnswerVerack(t) \/ SendPing(t) \/ AnswerPing(t)
      <4>1. "verack" \notin {} /\ "verack" \notin {"ping"} /\ "verack" \notin {"pong"}
        OBVIOUS
      <4>2. Send({}) \/ Send({"ping"}) \/ Send({"pong"})
        BY <3>1, Zenon DEF AnswerVerack, SendPing, AnswerPing
      <4>3. QED  BY <1>8, <4>1, <4>2
    <3>2. CASE ~(AnswerVerack(t) \/ SendPing(t) \/ AnswerPing(t))
      BY <1>12, <3>2, Zenon
         DEF Handler, Misbehave, RejectVersion, EstablishConnection, ReceivePong,
             Ignore, peerVars
    <3>3. QED  BY <3>1, <3>2
  <2>5. ~Storing /\ ~Storing' /\ ~Accepting(t)'
    BY <1>3, <2>2, <2>3 DEF Accepting
  <2>6. QED  BY <1>5, <2>1, <2>4, <2>5, Zenon DEF OneVersion
<1>13. QED  BY <1>9, <1>10, <1>11, <1>12

LEMMA OneVersionStep ==
  ASSUME Stream!ThreadsOK, NodeOK, Handshake, [Next]_vars, ~overlap => OneVersion
  PROVE  ~overlap' => OneVersion'
<1>1. SUFFICES ASSUME ~overlap'  PROVE OneVersion'
  OBVIOUS
<1>2. (~overlap => OneTask) /\ [Stream!Next]_(Stream!vars)
  BY StreamStep DEF OneVersion
<1>3. ~overlap /\ OneTask'
  BY <1>1, <1>2, OneTaskKept
<1>4. QED
  BY <1>3, NextCases, OneVersionElsewhere, OneVersionHandler, Zenon

-----------------------------------------------------------------------------
(* The end of a connection. *)

Closed == final => ~up /\ Idle

\* Before the start-up ends nothing was received, parsed or timed out.
Starting == startup # "ready" => /\ pending = 0 /\ Idle /\ shakeTimer = "armed"
                                 /\ sent["ping"] = 0

\* An accepted connection has its callback registered before its first event.
Unlisted == Inbound => /\ startup # "ready" => up
                       /\ ~up => leaving \/ ~listed

LEMMA ClosedElsewhere ==
  ASSUME Stream!ThreadsOK, Closed, Elsewhere
  PROVE  Closed'
<1>1. ASSUME NEW t \in Threads, ParseStep(t)  PROVE Closed'
  <2>1. CASE final
    <3>1. ~up /\ Idle
      BY <2>1 DEF Closed
    <3>2. pc[t] = "idle"
      BY <3>1 DEF Idle
    <3>3. Stream!TakeTask(t)
      BY <1>1, <3>2
         DEF ParseStep, Stream!ReadHeader, Stream!DrainHeader, Stream!PullPayload,
             Stream!DrainPayload
    <3>4. up' = up
      BY <3>3, Zenon DEF Stream!TakeTask, Stream!nodeVars
    <3>5. Idle'
      BY <3>1, <3>3 DEF Idle, Stream!TakeTask, Stream!StillUp, Stream!Goto, Stream!ThreadsOK
    <3>6. QED  BY <3>1, <3>4, <3>5 DEF Closed
  <2>2. CASE ~final
    <3>1. CASE pc[t] = "header"
      BY <1>1, <2>2, <3>1 DEF ParseStep, DisconnectNode, Closed, Idle, ending
    <3>2. CASE pc[t] # "header"
      BY <1>1, <2>2, <3>2, Zenon DEF ParseStep, Closed, ending
    <3>3. QED  BY <3>1, <3>2
  <2>3. QED  BY <2>1, <2>2
<1>2. ASSUME pc' = pc, DisconnectNode  PROVE Closed'
  BY <1>2, Zenon DEF Closed, Idle, DisconnectNode, Stream!Disconnect
<1>3. ASSUME UNCHANGED <<pc, up, final>>  PROVE Closed'
  BY <1>3, Zenon DEF Closed, Idle
<1>4. CASE ConnEvent \/ ShakeHandsDisconnect \/ InactivityTimeoutCb
  BY <1>2, <1>4, Zenon
     DEF ConnEvent, ShakeHandsDisconnect, InactivityTimeoutCb, Stream!Close
<1>5. CASE SocketNoMsgTimeoutCb \/ PingTimeoutCb
  BY <1>2, <1>3, <1>5, Zenon
     DEF SocketNoMsgTimeoutCb, PingTimeoutCb, Stream!Close, streamVars, ending
<1>6. CASE Register \/ Ready \/ EraseNode \/ ShakeHandsTest \/ UNCHANGED vars
           \/ (\E n \in 0..Length : Receive(n))
  BY <1>3, <1>6, Zenon
     DEF Register, Ready, EraseNode, ShakeHandsTest, Receive, vars, streamVars, ending,
         Stream!Unlist, Stream!Receive, Stream!nodeVars
<1>7. QED  BY <1>1, <1>4, <1>5, <1>6, Zenon DEF Elsewhere, Timeouts

LEMMA ClosedHandler ==
  ASSUME Stream!ThreadsOK, NodeOK, Closed, NEW t \in Threads, Handler(t)
  PROVE  Closed'
<1>1. pc[t] = "handle"
  BY HandlerShape
<1>2. ~Idle
  BY <1>1 DEF Idle
<1>3. ~final
  BY <1>2 DEF Closed
<1>4. ~final'
  BY <1>2, <1>3, Zenon
     DEF Handler, Misbehave, Admit, RejectVersion, AnswerVersion, StoreVersion,
         AnswerVerack, EstablishConnection, SendPing, AnswerPing, ReceivePong,
         Ignore, ending, DisconnectNode
<1>5. QED  BY <1>4 DEF Closed

LEMMA ClosedStep ==
  Stream!ThreadsOK /\ NodeOK /\ Closed /\ [Next]_vars => Closed'
  BY NextCases, ClosedElsewhere, ClosedHandler, Zenon

LEMMA StartingSteps ==
  ASSUME Stream!ThreadsOK, NodeOK, Starting, startup # "ready", [Next]_vars
  PROVE  Register \/ Ready \/ EraseNode \/ (ConnEvent /\ ~Inbound) \/ UNCHANGED vars
<1>1. pending = 0 /\ Idle /\ shakeTimer = "armed" /\ sent["ping"] = 0
  BY DEF Starting
<1>2. \A t \in Threads : ~Handler(t)
  <2>1. \A t \in Threads : Handler(t) => pc[t] = "handle"
    BY HandlerShape
  <2>2. QED  BY <1>1, <2>1 DEF Idle
<1>3. \A t \in Threads : ~ParseStep(t)
  BY <1>1
     DEF Idle, ParseStep, Stream!TakeTask, Stream!ReadHeader, Stream!DrainHeader,
         Stream!PullPayload, Stream!DrainPayload
<1>4. ~Timeouts
  BY <1>1
     DEF Timeouts, SocketNoMsgTimeoutCb, ShakeHandsTest, ShakeHandsDisconnect,
         InactivityTimeoutCb, PingTimeoutCb
<1>5. \A n \in 0..Length : ~Receive(n)
  BY Zenon DEF Receive
<1>6. ConnEvent => ~Inbound
  BY Zenon DEF ConnEvent, EventsEnabled
<1>7. QED  BY <1>2, <1>3, <1>4, <1>5, <1>6, Zenon DEF Next

LEMMA StartingStep ==
  Stream!ThreadsOK /\ NodeOK /\ Starting /\ [Next]_vars => Starting'
<1>1. SUFFICES ASSUME Stream!ThreadsOK, NodeOK, Starting, [Next]_vars, startup' # "ready"
               PROVE  Starting'
  BY DEF Starting
<1>2. startup # "ready"
  BY <1>1, Zenon
     DEF Next, Timeouts, Register, Ready, EraseNode, ConnEvent, Receive,
         SocketNoMsgTimeoutCb, ShakeHandsTest, ShakeHandsDisconnect, InactivityTimeoutCb,
         PingTimeoutCb, ParseStep, vars, Handler, Misbehave, Admit, RejectVersion,
         AnswerVersion, StoreVersion, AnswerVerack, EstablishConnection, SendPing,
         AnswerPing, ReceivePong, Ignore
<1>3. Register \/ Ready \/ EraseNode \/ ConnEvent \/ UNCHANGED vars
  BY <1>1, <1>2, StartingSteps, Zenon
<1>4. ~Ready
  BY <1>1, Zenon DEF Ready
<1>5. UNCHANGED <<pending, pc, shakeTimer, sent>>
  BY <1>3, <1>4, Zenon
     DEF Register, EraseNode, ConnEvent, vars, streamVars, peerVars, timerVars,
         Stream!Unlist, Stream!Close
<1>6. QED  BY <1>1, <1>2, <1>5, Zenon DEF Starting, Idle

LEMMA NeverRelisted == [Stream!Next]_(Stream!vars) => (listed' => listed)
  BY Zenon
     DEF Stream!Next, Stream!vars, Stream!nodeVars, Stream!Receive, Stream!Close,
         Stream!Disconnect, Stream!Unlist, Stream!TakeTask, Stream!Establish,
         Stream!ParseMsg, Stream!ReadHeader, Stream!DrainHeader, Stream!PullPayload,
         Stream!Handle, Stream!DrainPayload

LEMMA UnlistedStep ==
  Stream!ThreadsOK /\ NodeOK /\ Starting /\ Unlisted /\ [Next]_vars => Unlisted'
<1>1. SUFFICES ASSUME Stream!ThreadsOK, NodeOK, Starting, Unlisted, [Next]_vars, Inbound
               PROVE  (startup' # "ready" => up') /\ (~up' => leaving' \/ ~listed')
  BY Zenon DEF Unlisted
<1>2. (startup # "ready" => up) /\ (~up => leaving \/ ~listed)
  BY <1>1, Zenon DEF Unlisted
<1>3. CASE startup # "ready"
  <2>1. Register \/ Ready \/ EraseNode \/ UNCHANGED vars
    BY <1>1, <1>3, StartingSteps, Zenon
  <2>2. up' = up
    BY <2>1, Zenon DEF Register, Ready, EraseNode, vars, streamVars, Stream!Unlist
  <2>3. QED  BY <1>2, <1>3, <2>2
<1>4. CASE startup = "ready"
  <2>1. startup' = "ready"
    BY <1>1, <1>4
       DEF Next, Timeouts, Register, Ready, EraseNode, ConnEvent, Receive,
           SocketNoMsgTimeoutCb, ShakeHandsTest, ShakeHandsDisconnect, InactivityTimeoutCb,
           PingTimeoutCb, ParseStep, vars, Handler, Misbehave, Admit, RejectVersion,
           AnswerVersion, StoreVersion, AnswerVerack, EstablishConnection, SendPing,
           AnswerPing, ReceivePong, Ignore
  <2>2. CASE DisconnectNode
    BY <1>4, <2>1, <2>2 DEF DisconnectNode, CallbackRegistered
  <2>3. CASE EraseNode
    BY <2>1, <2>3 DEF EraseNode, Stream!Unlist
  <2>4. CASE \E t \in Threads : EstablishConnection(t)
    BY <2>1, <2>4 DEF EstablishConnection, Stream!Establish
  <2>5. CASE ~(DisconnectNode \/ EraseNode \/ \E t \in Threads : EstablishConnection(t))
    <3>1. UNCHANGED <<up, leaving>>
      <4>1. ASSUME NEW t \in Threads, ParseStep(t)  PROVE UNCHANGED <<up, leaving>>
        <5>1. ~(pc[t] = "header" /\ header[t] \notin Frames) /\ leaving' = leaving
          BY <2>5, <4>1, Zenon DEF ParseStep, ending
        <5>2. QED
          BY <4>1, <5>1, Zenon
             DEF ParseStep, Stream!TakeTask, Stream!ReadHeader, Stream!DrainHeader,
                 Stream!PullPayload, Stream!DrainPayload, Stream!nodeVars
      <4>2. CASE ~ \E t \in Threads : ParseStep(t)
        BY <1>1, <2>5, <4>2, Zenon
           DEF Next, Timeouts, Register, Ready, ConnEvent, Receive,
               SocketNoMsgTimeoutCb, ShakeHandsTest, ShakeHandsDisconnect,
               InactivityTimeoutCb, PingTimeoutCb, vars, Handler, Misbehave,
               Admit, RejectVersion, AnswerVersion, StoreVersion, AnswerVerack,
               SendPing, AnswerPing, ReceivePong, Ignore, Return, streamVars, ending,
               Stream!Receive, Stream!Handle, Stream!nodeVars
      <4>3. QED  BY <4>1, <4>2
    <3>2. listed' => listed
      BY <1>1, StreamStep, NeverRelisted
    <3>3. QED  BY <1>2, <1>4, <2>1, <3>1, <3>2
  <2>6. QED  BY <2>2, <2>3, <2>4, <2>5
<1>5. QED  BY <1>3, <1>4

-----------------------------------------------------------------------------
(* A polite peer.  The frame that is next in the stream tells how far the    *)
(* handshake is, unless the node was disconnected.                           *)

Next1 == Stream!NextFrame = 1
Beyond == Stream!NextFrame > SecondFrame

PoliteAt(t) ==
  /\ step[t] = "done" => ~up
  /\ step[t] = "ping" /\ up => established

Charged ==
  /\ \A t \in Threads : PoliteAt(t)
  /\ Next1 \/ Stream!NextFrame = SecondFrame \/ Beyond
  /\ version => ~Next1
  /\ up /\ ~Next1 => version
  /\ up /\ Beyond => established
  /\ score > 0 => ~up /\ ~Next1 /\ (version => Beyond)

LEMMA FramesAreCells ==
  /\ Length \in Nat
  /\ \A f \in Frames : /\ f \in Nat /\ f > 0
                       /\ Stream!LastCell(f) \in Nat /\ Stream!LastCell(f) >= f
  BY ConnectionAssumption DEF Stream!StreamAssumption, Stream!LastCell

LEMMA SecondFrameIsNat == Polite => SecondFrame \in Nat /\ SecondFrame > 1
  BY FramesAreCells, ConnectionAssumption DEF Polite, SecondFrame

\* What MsgStream's invariant says of a thread in a handler.
LEMMA HandlerPosition ==
  ASSUME Stream!IInv, Stream!Undisturbed, NEW t \in Threads, pc[t] = "handle"
  PROVE  /\ Stream!Alone(t) /\ header[t] \in Frames /\ header[t] = Stream!NextFrame
         /\ Stream!ChecksumOK(t) /\ handled \in Seq(Frames)
<1>1. Stream!Position(t) /\ handled \in Seq(Frames)
  BY Zenon DEF Stream!IInv, Stream!TypeOK
<1>2. QED  BY <1>1 DEF Stream!Position

LEMMA FrameAdvances ==
  ASSUME NEW t \in Threads, Stream!Handle(t), Stream!ChecksumOK(t),
         header[t] \in Frames, header[t] = Stream!NextFrame, handled \in Seq(Frames)
  PROVE  Stream!NextFrame' = Stream!LastCell(Stream!NextFrame) + 1
<1>1. handled' = Append(handled, header[t])
  BY Zenon DEF Stream!Handle
<1>2. /\ Len(handled) \in Nat /\ Len(handled') = Len(handled) + 1
      /\ DOMAIN handled' = 1..Len(handled) + 1
      /\ handled'[Len(handled')] = header[t]
  BY <1>1, AppendProperties, LenProperties
<1>3. handled' # <<>>
  BY <1>2
<1>4. QED  BY <1>2, <1>3 DEF Stream!NextFrame, Stream!LastCell

\* Handling a frame goes from the first to the second, and from there beyond.
LEMMA TurnTaken ==
  ASSUME Polite, NEW n \in Frames, n = 1 \/ n >= SecondFrame,
         Stream!NextFrame = n, Stream!NextFrame' = Stream!LastCell(n) + 1
  PROVE  IF Next1 THEN ~Next1' /\ Stream!NextFrame' = SecondFrame
                  ELSE ~Next1' /\ Beyond'
<1>1. /\ n \in Nat /\ Stream!LastCell(n) \in Nat /\ Stream!LastCell(n) >= n
      /\ SecondFrame \in Nat /\ SecondFrame > 1
  BY FramesAreCells, SecondFrameIsNat
<1>2. CASE n = 1
  BY <1>1, <1>2 DEF Next1, SecondFrame
<1>3. CASE n # 1
  BY <1>1, <1>3 DEF Next1, Beyond, SecondFrame
<1>4. QED  BY <1>2, <1>3

LEMMA HistoryGrows ==
  [Stream!Next]_(Stream!vars) => (Stream!Undisturbed' => Stream!Undisturbed)
<1>1. SUFFICES ASSUME [Stream!Next]_(Stream!vars)
               PROVE  (torn => torn') /\ (overlap => overlap')
  BY Zenon DEF Stream!Undisturbed
<1>2. ASSUME UNCHANGED <<torn, overlap>>  PROVE (torn => torn') /\ (overlap => overlap')
  BY <1>2, Zenon
<1>3. ASSUME NEW t \in Threads, Stream!TakeTask(t)
      PROVE  (torn => torn') /\ (overlap => overlap')
  BY <1>3, Zenon DEF Stream!TakeTask
<1>4. ASSUME NEW t \in Threads, Stream!PullPayload(t)
      PROVE  (torn => torn') /\ (overlap => overlap')
  BY <1>4, Zenon DEF Stream!PullPayload
<1>5. ASSUME NEW t \in Threads, Stream!ParseMsg(t), ~Stream!PullPayload(t)
      PROVE  (torn => torn') /\ (overlap => overlap')
  BY <1>2, <1>5, Zenon
     DEF Stream!ParseMsg, Stream!ReadHeader, Stream!DrainHeader, Stream!Handle,
         Stream!DrainPayload, Stream!history
<1>6. CASE UNCHANGED Stream!vars \/ Stream!Close \/ Stream!Unlist
           \/ (\E n \in 0..Length : Stream!Receive(n))
           \/ (\E t \in Threads : Stream!Establish(t))
  BY <1>2, <1>6, Zenon
     DEF Stream!vars, Stream!history, Stream!Close, Stream!Unlist, Stream!Receive,
         Stream!Establish
<1>7. QED  BY <1>1, <1>3, <1>4, <1>5, <1>6, Zenon DEF Stream!Next

LEMMA ChargedElsewhere ==
  ASSUME Stream!ThreadsOK, NodeOK, Handshake, Elsewhere, Charged
  PROVE  Charged'
<1>1. step' = step /\ version' = version /\ score' = score
  BY ElsewhereQuiet
<1>2. up' => up /\ established' = established
  <2>1. ASSUME NEW t \in Threads, ParseStep(t)
        PROVE  up' => up /\ established' = established
    BY <2>1, Zenon
       DEF ParseStep, DisconnectNode, Stream!Disconnect, Stream!TakeTask, Stream!ReadHeader,
           Stream!DrainHeader, Stream!PullPayload, Stream!DrainPayload, Stream!nodeVars
  <2>2. CASE ~ \E t \in Threads : ParseStep(t)
    BY <2>2, Zenon
       DEF Elsewhere, Timeouts, Register, Ready, EraseNode, ConnEvent, Receive,
           SocketNoMsgTimeoutCb, ShakeHandsTest, ShakeHandsDisconnect,
           InactivityTimeoutCb, PingTimeoutCb, vars, streamVars, peerVars, DisconnectNode,
           Stream!Disconnect, Stream!Receive, Stream!nodeVars, Stream!Unlist
  <2>3. QED  BY <2>1, <2>2
<1>3. handled' = handled
  BY Zenon
     DEF Elsewhere, Timeouts, Register, Ready, EraseNode, ConnEvent, Receive,
         SocketNoMsgTimeoutCb, ShakeHandsTest, ShakeHandsDisconnect,
         InactivityTimeoutCb, PingTimeoutCb, ParseStep, vars, streamVars,
         Stream!Receive, Stream!Unlist, Stream!Close, Stream!TakeTask, Stream!ReadHeader,
         Stream!DrainHeader, Stream!PullPayload, Stream!DrainPayload, Stream!history
<1>4. (Stream!NextFrame)' = Stream!NextFrame
  BY <1>3, Zenon DEF Stream!NextFrame, Stream!LastCell
<1>5. Next1' = Next1 /\ Beyond' = Beyond
  BY <1>4 DEF Next1, Beyond, SecondFrame, Stream!LastCell
<1>6. \A t \in Threads : PoliteAt(t)'
  BY <1>1, <1>2, Zenon DEF Charged, PoliteAt
<1>7. Next1' \/ Stream!NextFrame' = SecondFrame \/ Beyond'
  BY <1>4, <1>5, Zenon DEF Charged
<1>8. QED  BY <1>1, <1>2, <1>4, <1>5, <1>6, <1>7, Zenon DEF Charged, SecondFrame, Stream!LastCell

\* The last steps of the handlers: the frame they handled decides.
Returning(t) == \/ Misbehave(t) \/ StoreVersion(t) \/ SendPing(t)
                \/ AnswerPing(t) \/ ReceivePong(t) \/ Ignore(t)

LEMMA ChargedReturn ==
  ASSUME Polite, Stream!IInv, NodeOK, Handshake, Charged, Stream!Undisturbed,
         NEW t \in Threads, Returning(t)
  PROVE  Charged'
<1> Return(t)
  BY Zenon
     DEF Returning, Misbehave, StoreVersion, SendPing, AnswerPing, ReceivePong, Ignore
<1>1. /\ Stream!Alone(t) /\ header[t] \in Frames /\ header[t] = Stream!NextFrame
      /\ Stream!ChecksumOK(t) /\ handled \in Seq(Frames) /\ pc[t] = "handle"
  BY HandlerPosition DEF Return, Stream!Handle
<1>2. HandlerAt(t) /\ PoliteAt(t) /\ step \in [Threads -> Labels] /\ score \in Nat
  BY DEF Handshake, Charged, NodeOK, Places, Counts
<1>3. SecondFrame \in Nat /\ SecondFrame > 1 /\ header[t] \in Nat
  BY <1>1, FramesAreCells, SecondFrameIsNat
<1>4. IF Next1 THEN ~Next1' /\ Stream!NextFrame' = SecondFrame
               ELSE ~Next1' /\ Beyond'
  <2>1. Stream!NextFrame' = Stream!LastCell(header[t]) + 1
    BY <1>1, FrameAdvances DEF Return
  <2>2. header[t] = 1 \/ header[t] >= SecondFrame
    BY <1>1, <1>3 DEF Charged, Next1, Beyond
  <2>3. QED  BY <1>1, <2>1, <2>2, TurnTaken
<1>5. /\ Message(t) = "version" <=> Next1
      /\ Message(t) = "verack" <=> Stream!NextFrame = SecondFrame
      /\ ~Next1 /\ Stream!NextFrame # SecondFrame => Beyond
  BY <1>1 DEF Polite, Message, Next1, Charged
<1>6. \A u \in Threads : PoliteAt(u)'
  <2>1. step'[t] = "check"
    BY <1>2 DEF Return, GotoStep
  <2>2. ASSUME NEW u \in Threads, u # t  PROVE step'[u] = "check"
    <3>1. step[u] = "check"
      BY <1>1, <2>2 DEF Stream!Alone, Handshake, HandlerAt
    <3>2. QED  BY <1>2, <2>2, <3>1 DEF Return, GotoStep
  <2>3. QED  BY <2>1, <2>2 DEF PoliteAt
<1>7. up' = up
  BY Zenon DEF Return, Stream!Handle, Stream!nodeVars
<1>7a. Message(t) \in {"version", "verack"} => IsValid(t)
  BY <1>1, ConnectionAssumption DEF Polite, Message, IsValid
<1>8. CASE Misbehave(t)
  <2>1. UNCHANGED <<version, established>> /\ Refused(Message(t))
    BY <1>8, Zenon DEF Misbehave
  <2>2. ~up
    BY <1>5, <2>1 DEF Charged, Refused, Admitted, SecondVersion
  <2>3. ~up' /\ ~Next1' /\ (version' => Beyond')
    BY <1>4, <1>7, <2>1, <2>2, Zenon DEF Charged
  <2>4. QED  BY <1>4, <1>6, <2>3, Zenon DEF Charged, SecondFrame, Stream!LastCell
<1>9. CASE StoreVersion(t)
  <2>1. Next1 /\ version' = TRUE /\ score' = score
    BY <1>2, <1>5, <1>9 DEF StoreVersion, AtStep, HandlerAt
  <2>2. ~Next1' /\ Stream!NextFrame' = SecondFrame /\ ~(score' > 0)
    BY <1>4, <2>1, Zenon DEF Charged
  <2>3. ~Beyond'
    BY <2>2, <1>3 DEF Beyond, SecondFrame, Stream!LastCell
  <2>4. QED
    BY <1>6, <2>1, <2>2, <2>3, Zenon DEF Charged, SecondFrame, Stream!LastCell
<1>10. CASE SendPing(t) \/ AnswerPing(t) \/ ReceivePong(t) \/ Ignore(t)
  <2>1. UNCHANGED <<version, established, score>>
    BY <1>10, Zenon DEF SendPing, AnswerPing, ReceivePong, Ignore, peerVars
  <2>2. CASE Next1
    <3>1. Message(t) = "version"
      BY <1>5, <2>2
    <3>2. step[t] = "done"
      BY <1>1, <1>2, <1>7a, <1>10, <3>1
         DEF SendPing, AnswerPing, ReceivePong, Ignore, AtStep, HandlerAt
    <3>3. ~up' /\ ~(score' > 0) /\ ~version'
      BY <1>2, <1>7, <2>1, <2>2, <3>2, Zenon DEF Charged, PoliteAt
    <3>4. QED
      BY <1>4, <1>6, <2>2, <3>3, Zenon DEF Charged, SecondFrame, Stream!LastCell
  <2>3. CASE Stream!NextFrame = SecondFrame
    <3>1. ~Next1 /\ ~Beyond
      BY <1>3, <2>3 DEF Next1, Beyond
    <3>2. Message(t) = "verack"
      BY <1>5, <2>3
    <3>3. SendPing(t)
      BY <1>1, <1>2, <1>7a, <1>10, <3>2
         DEF AnswerPing, ReceivePong, Ignore, AtStep, HandlerAt
    <3>4. version /\ (up => established)
      BY <1>2, <3>3 DEF SendPing, AtStep, HandlerAt, PoliteAt
    <3>5. ~(score > 0)
      BY <3>1, <3>4, Zenon DEF Charged
    <3>6. version' /\ (up' => established') /\ ~(score' > 0)
      BY <1>7, <2>1, <3>4, <3>5
    <3>7. QED
      BY <1>4, <1>6, <3>1, <3>6, Zenon DEF Charged, SecondFrame, Stream!LastCell
  <2>4. CASE Beyond /\ ~Next1
    <3>1. ~Next1' /\ Beyond'
      BY <1>4, <2>4
    <3>2. /\ up' => version' /\ established'
          /\ score' > 0 => ~up'
      BY <1>7, <2>1, <2>4, Zenon DEF Charged
    <3>3. QED  BY <1>6, <3>1, <3>2, Zenon DEF Charged
  <2>5. QED  BY <1>5, <2>2, <2>3, <2>4
<1>11. QED  BY <1>8, <1>9, <1>10, Zenon DEF Returning

\* The steps before: the frame is not handled yet.
LEMMA ChargedDuring ==
  ASSUME Polite, Stream!IInv, NodeOK, Handshake, Charged, Stream!Undisturbed,
         NEW t \in Threads, Handler(t), ~Returning(t)
  PROVE  Charged'
<1>1. /\ pc[t] = "handle"
      /\ \A u \in Threads \ {t} : step'[u] = step[u]
  BY HandlerShape DEF Stream!IInv, Stream!TypeOK
<1>2. /\ Stream!Alone(t) /\ header[t] \in Frames /\ header[t] = Stream!NextFrame
  BY <1>1, HandlerPosition
<1>3. HandlerAt(t) /\ PoliteAt(t) /\ step \in [Threads -> Labels] /\ score \in Nat
  BY DEF Handshake, Charged, NodeOK, Places, Counts
<1>4. \A l : GotoStep(t, l) => step'[t] = l
  BY <1>3, Zenon DEF GotoStep
<1>5. handled' = handled /\ version' = version /\ score' = score
  BY Zenon
     DEF Handler, Returning, Admit, RejectVersion, AnswerVersion, AnswerVerack,
         EstablishConnection, streamVars, peerVars, Stream!Close, Stream!Establish,
         Stream!history
<1>6. (Stream!NextFrame)' = Stream!NextFrame
  BY <1>5, Zenon DEF Stream!NextFrame, Stream!LastCell
<1>7. Next1' = Next1 /\ Beyond' = Beyond
  BY <1>6 DEF Next1, Beyond, SecondFrame, Stream!LastCell
<1>8. \A u \in Threads : u # t => PoliteAt(u)'
  <2>1. ASSUME NEW u \in Threads, u # t  PROVE step'[u] = "check"
    BY <1>1, <1>2, <2>1 DEF Stream!Alone, Handshake, HandlerAt
  <2>2. QED  BY <2>1 DEF PoliteAt
<1>9. Next1' \/ Stream!NextFrame' = SecondFrame \/ Beyond'
  BY <1>6, <1>7, Zenon DEF Charged
<1>10. CASE Admit(t) \/ AnswerVersion(t) \/ AnswerVerack(t)
  <2>1. UNCHANGED <<up, established>> /\ step'[t] \in {"act", "store", "establish"}
    BY <1>4, <1>10 DEF Admit, AnswerVersion, AnswerVerack, streamVars, peerVars
  <2>2. \A u \in Threads : PoliteAt(u)'
    BY <1>8, <2>1 DEF PoliteAt
  <2>3. QED
    BY <1>5, <1>7, <1>9, <2>1, <2>2, Zenon DEF Charged, SecondFrame, Stream!LastCell
<1>11. CASE RejectVersion(t)
  <2>1. ~up' /\ step'[t] = "done"
    BY <1>4, <1>11, Zenon DEF RejectVersion, Stream!Close, Stream!Disconnect
  <2>2. \A u \in Threads : PoliteAt(u)'
    BY <1>8, <2>1 DEF PoliteAt
  <2>3. QED
    BY <1>5, <1>7, <1>9, <2>1, <2>2, Zenon DEF Charged, SecondFrame, Stream!LastCell
<1>12. CASE EstablishConnection(t)
  <2>1. /\ step[t] = "establish" /\ step'[t] = "ping"
        /\ up' = TRUE /\ established' = TRUE
    BY <1>4, <1>12, Zenon DEF EstablishConnection, AtStep, Stream!Establish
  <2>2. version /\ Message(t) = "verack"
    BY <1>3, <2>1 DEF HandlerAt
  <2>3. Stream!NextFrame = SecondFrame
    BY <1>2, <2>2 DEF Polite, Message
  <2>4. ~Beyond
    BY <2>3, SecondFrameIsNat DEF Beyond
  <2>5. ~(score > 0)
    BY <2>2, <2>4, Zenon DEF Charged
  <2>6. \A u \in Threads : PoliteAt(u)'
    BY <1>8, <2>1 DEF PoliteAt
  <2>7. QED
    BY <1>5, <1>7, <1>9, <2>1, <2>2, <2>4, <2>5, <2>6, Zenon
       DEF Charged, SecondFrame, Stream!LastCell
<1>13. QED
  BY <1>10, <1>11, <1>12, Zenon DEF Handler, Returning

PoliteInv == Polite /\ Stream!Undisturbed => Charged

LEMMA PoliteStep ==
  ASSUME Stream!IInv, NodeOK, Handshake, PoliteInv, [Next]_vars
  PROVE  PoliteInv'
<1>1. SUFFICES ASSUME Polite, Stream!Undisturbed'  PROVE Charged'
  BY DEF PoliteInv, Polite, SecondFrame, Stream!LastCell
<1>2. Stream!ThreadsOK /\ Stream!Undisturbed
  BY <1>1, StreamStep, HistoryGrows DEF Stream!IInv, Stream!TypeOK
<1>3. Charged
  BY <1>1, <1>2 DEF PoliteInv
<1>4. CASE Elsewhere
  BY <1>2, <1>3, <1>4, ChargedElsewhere
<1>5. ASSUME NEW t \in Threads, Handler(t)  PROVE Charged'
  BY <1>1, <1>2, <1>3, <1>5, ChargedReturn, ChargedDuring, Zenon
<1>6. QED  BY <1>4, <1>5, NextCases

-----------------------------------------------------------------------------

IInv ==
  /\ Stream!IInv /\ NodeOK
  /\ Handshake
  /\ ~overlap => OneVersion
  /\ Closed /\ Starting /\ Unlisted
  /\ PoliteInv

LEMMA InitIInv == Init => IInv
<1>1. SUFFICES ASSUME Init  PROVE IInv
  OBVIOUS
<1>2. Stream!IInv
  BY <1>1, StreamStarts, Zenon DEF Init
<1>3. /\ up = TRUE /\ pending = 0 /\ pc = [t \in Threads |-> "idle"] /\ handled = <<>>
      /\ listed = TRUE
  BY <1>1, Zenon DEF Init, Stream!Init
<1>4. NodeOK
  <2>1. Counts
    BY <1>1 DEF Init, Counts, MessageKinds
  <2>2. Flags
    BY <1>1, Zenon DEF Init, Flags
  <2>3. Places
    BY <1>1 DEF Init, Places, Labels
  <2>4. QED  BY <2>1, <2>2, <2>3 DEF NodeOK
<1>5. \A t \in Threads : step[t] = "check" /\ pc[t] = "idle"
  BY <1>1, <1>3 DEF Init
<1>6. \A k \in MessageKinds : sent[k] = 0
  BY <1>1 DEF Init, MessageKinds
<1>7. sent["verack"] = 0 /\ sent["pong"] = 0 /\ sent["ping"] = 0
  BY <1>6 DEF MessageKinds
<1>8. Handshake
  BY <1>1, <1>5, <1>7 DEF Init, Handshake, HandlerAt
<1>9. OneVersion
  BY <1>1, <1>5, <1>7 DEF Init, OneVersion, OneTask, Storing, Accepting
<1>10. Closed /\ Starting /\ Unlisted
  BY <1>1, <1>3, <1>5, <1>7 DEF Init, Closed, Starting, Unlisted, Idle
<1>11. PoliteInv
  <2>1. Stream!NextFrame = 1
    BY <1>3 DEF Stream!NextFrame
  <2>2. Polite => Next1 /\ ~Beyond
    BY <2>1, SecondFrameIsNat DEF Next1, Beyond
  <2>3. QED  BY <1>1, <1>5, <2>2 DEF Init, PoliteInv, Charged, PoliteAt
<1>12. QED  BY <1>2, <1>4, <1>8, <1>9, <1>10, <1>11 DEF IInv

LEMMA NextIInv == IInv /\ [Next]_vars => IInv'
<1>1. SUFFICES ASSUME IInv, [Next]_vars  PROVE IInv'
  OBVIOUS
<1>2. /\ Stream!IInv /\ NodeOK /\ Handshake /\ Closed /\ Starting /\ Unlisted
      /\ PoliteInv /\ Stream!ThreadsOK
  BY <1>1, Zenon DEF IInv, Stream!IInv, Stream!TypeOK
<1>3. ~overlap => OneVersion
  BY <1>1, Zenon DEF IInv
<1>4. Stream!IInv' /\ NodeOK' /\ Handshake'
  BY <1>1, <1>2, StreamStep, StreamKept, NodeStep, HandshakeStep, Zenon
<1>5. ~overlap' => OneVersion'
  BY <1>1, <1>2, <1>3, OneVersionStep
<1>6. Closed' /\ Starting' /\ Unlisted'
  BY <1>1, <1>2, ClosedStep, StartingStep, UnlistedStep, Zenon
<1>7. PoliteInv'
  BY <1>1, <1>2, PoliteStep
<1>8. QED  BY <1>4, <1>5, <1>6, <1>7, Zenon DEF IInv

THEOREM Invariance == Spec => []IInv
  BY InitIInv, NextIInv, PTL DEF Spec

\* The state of the node and of its handlers keeps its types.
THEOREM TypeCorrect == Spec => []TypeOK
<1>1. IInv => TypeOK
  BY TypeParts, Zenon DEF IInv, Stream!IInv
<1>2. QED  BY <1>1, Invariance, PTL

\* A connection is established only after a version was accepted and our verack
\* sent, and no ping is answered before a verack came.
THEOREM HandshakeInOrder == Spec => []VersionFirst
<1>1. IInv => VersionFirst
  BY Zenon DEF IInv, Handshake, VersionFirst, PingDue
<1>2. QED  BY <1>1, Invariance, PTL

\* While no two tasks of the connection overlap, it accepts one version at most
\* and sends one verack at most.
THEOREM OneVersionAccepted == Spec => []VersionOnce
<1>1. ASSUME OneVersion  PROVE accepted <= 1 /\ sent["verack"] <= 1
  BY <1>1 DEF OneVersion
<1>2. IInv => VersionOnce
  BY <1>1, Zenon DEF IInv, VersionOnce
<1>3. QED  BY <1>2, Invariance, PTL

\* A node disconnected while nothing of it is in ParseMsg is not marked
\* established again.
THEOREM DisconnectionIsFinal == Spec => []ClosedForGood
<1>1. IInv => ClosedForGood
  BY Zenon DEF IInv, Closed, ClosedForGood
<1>2. QED  BY <1>1, Invariance, PTL

\* A disconnected node that was accepted is out of its list once its callback has
\* returned.  (An outbound one may be disconnected before the callback is
\* registered, and then stays listed.)
THEOREM AcceptedIsUnlisted ==
  ASSUME Inbound
  PROVE  Spec => []WellFormed
<1>1. IInv => WellFormed
  BY TypeParts, Zenon DEF IInv, Stream!IInv, Unlisted, WellFormed, DisconnectedIsUnlisted
<1>2. QED  BY <1>1, Invariance, PTL

\* A peer that keeps to the protocol is not charged with misbehaviour, as long as
\* no payload is torn and no two tasks overlap.
THEOREM PoliteIsNotCharged ==
  ASSUME Polite
  PROVE  Spec => []PoliteUncharged
<1>1. IInv => PoliteUncharged
  <2>1. ASSUME Charged, NodeOK, up  PROVE score = 0
    BY <2>1 DEF Charged, NodeOK, Counts
  <2>2. QED  BY <2>1, Zenon DEF IInv, PoliteInv, PoliteUncharged
<1>2. QED  BY <1>1, Invariance, PTL
=============================================================================
