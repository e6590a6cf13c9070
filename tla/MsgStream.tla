----------------------------- MODULE MsgStream -----------------------------
(***************************************************************************)
(* ParseMsg (network/src/msg_process.cpp) taking messages out of a         *)
(* connection's input evbuffer.  Every read event queues one ParseMsg task *)
(* on the thread pool (ConnReadCb, network/src/libevent.cpp), so several   *)
(* tasks of one connection may run at once; each evbuffer call is atomic   *)
(* (BEV_OPT_THREADSAFE), the sequence of calls is not.                     *)
(*                                                                         *)
(* The peer is well-behaved: its stream is a sequence of frames, each a    *)
(* valid header and its payload.  The stream is cut into cells of the size *)
(* of a header: a frame is named by the position of its header cell, and   *)
(* its payload is the Size[f] cells that follow.  The evbuffer holds the   *)
(* cells drained + 1 .. got.                                               *)
(*                                                                         *)
(* An operator named X_Y is the definition X with the programming mistake  *)
(* Y; no definition uses it.                                               *)
(***************************************************************************)
EXTENDS Naturals, Sequences

CONSTANTS Frames,     \* the positions of the header cells
          Size,       \* the number of payload cells of each frame
          Length,     \* the number of cells of the stream
          Threads,    \* the threads of the pool
          MaxPending  \* bound on the number of queued ParseMsg tasks

LastCell(f) == f + Size[f]

ASSUME StreamAssumption ==
  /\ Length \in Nat /\ MaxPending \in Nat
  /\ Frames \subseteq 1..Length
  /\ Size \in [Frames -> Nat]
  /\ \A f \in Frames : LastCell(f) <= Length
  /\ \A f, g \in Frames : f < g => LastCell(f) < g
  /\ \A i \in 1..Length : \E f \in Frames : i \in f..LastCell(f)

VARIABLES
  got,      \* cells received so far
  drained,  \* cells drained from the evbuffer
  listed,   \* the connection's node is in its Nodes list
  up,       \* ~IsDisconnected()
  pending,  \* ParseMsg tasks queued and not started
  pc,       \* where in ParseMsg each thread is
  header,   \* the cell the thread's MessageHeader was constructed from
  data,     \* the first cell of the payload the thread copied
  handled,  \* history: the frames whose checksum was right, in handling order
  torn,     \* history: a task gave up because a payload was not all there yet
  overlap,  \* history: two ParseMsg tasks of the connection ran at once
  misread   \* history: a cell of a payload was parsed as a header

bufferVars == <<got, drained>>
nodeVars   == <<listed, up>>
history    == <<handled, torn, overlap, misread>>
vars == <<bufferVars, nodeVars, pending, pc, header, data, history>>

-----------------------------------------------------------------------------
(* The evbuffer. *)

Available == got - drained

\* evbuffer_pullup(buf, n) # nullptr
CanPullup_Strict(n) == Available > n
CanPullup(n) == Available >= n

\* evbuffer_drain(buf, n) drains what there is when that is less than n.
Drain(n) == drained' = IF n <= Available THEN drained + n ELSE got

-----------------------------------------------------------------------------
(* The event loop's thread. *)

\* Disconnect() sets the state; the registered callback then takes the node out
\* of its list.
Disconnect == up' = FALSE /\ UNCHANGED listed

\* GetNode(bev) finds the node.
FindsNode == listed

\* libevent appends bytes that complete n cells to the evbuffer (none, when they
\* end inside a cell), and ConnReadCb queues a task when the node is still
\* listed.
Receive(n) ==
  /\ got < Length /\ got + n <= Length
  /\ got' = got + n
  /\ pending < MaxPending
  /\ pending' = pending + IF FindsNode THEN 1 ELSE 0
  /\ UNCHANGED <<drained, nodeVars, pc, header, data, history>>

\* ConnEventCb, a timeout callback or a message handler disconnects the node.
Close ==
  /\ Disconnect
  /\ UNCHANGED <<bufferVars, pending, pc, header, data, history>>

\* EraseNode, at the end of the callback.
Unlist ==
  /\ listed' = FALSE
  /\ UNCHANGED <<bufferVars, up, pending, pc, header, data, history>>

-----------------------------------------------------------------------------
(* A pool thread executing ParseMsg. *)

Goto(t, label) == pc' = [pc EXCEPT ![t] = label]

StillUp_Unchecked == TRUE
StillUp == up

\* The early return for a disconnected node precedes the loop.
TakeTask(t) ==
  /\ pc[t] = "idle"
  /\ pending > 0
  /\ pending' = pending - 1
  /\ Goto(t, IF StillUp THEN "pullup" ELSE "idle")
  /\ overlap' = (overlap \/ (StillUp /\ \E u \in Threads : pc[u] # "idle"))
  /\ UNCHANGED <<bufferVars, nodeVars, header, data, handled, torn, misread>>

\* evbuffer_pullup(buf, kSize) and MessageHeader header(raw).
ReadHeader(t) ==
  /\ pc[t] = "pullup"
  /\ IF CanPullup(1)
     THEN header' = [header EXCEPT ![t] = drained + 1] /\ Goto(t, "header")
     ELSE UNCHANGED header /\ Goto(t, "idle")
  /\ UNCHANGED <<bufferVars, nodeVars, pending, data, history>>

\* Draining the header, then the length and magic checks: bytes of a payload
\* fail them.
DrainHeader(t) ==
  /\ pc[t] = "header"
  /\ Drain(1)
  /\ IF header[t] \in Frames
     THEN /\ Goto(t, IF Size[header[t]] = 0 THEN "handle" ELSE "payload")
          /\ UNCHANGED <<nodeVars, misread>>
     ELSE /\ Disconnect
          /\ misread' = TRUE
          /\ Goto(t, "idle")
  /\ UNCHANGED <<got, pending, header, data, handled, torn, overlap>>

\* evbuffer_pullup(buf, header.payload_length()); a null result returns with
\* the header already drained.
PullPayload(t) ==
  /\ pc[t] = "payload"
  /\ IF CanPullup(Size[header[t]])
     THEN /\ data' = [data EXCEPT ![t] = drained + 1]
          /\ Goto(t, "handle")
          /\ UNCHANGED torn
     ELSE /\ torn' = TRUE
          /\ Goto(t, "idle")
          /\ UNCHANGED data
  /\ UNCHANGED <<bufferVars, nodeVars, pending, header, handled, overlap, misread>>

\* The checksum matches the payload the frame was sent with, and no other.
ChecksumOK(t) == Size[header[t]] = 0 \/ data[t] = header[t] + 1

\* A message whose checksum is right reaches its handler, and that of a verack
\* sets the connection's state to kEstablished, whatever it was.
Establish(t) ==
  /\ pc[t] = "handle"
  /\ ChecksumOK(t)
  /\ up' = TRUE
  /\ UNCHANGED <<bufferVars, listed, pending, pc, header, data, history>>

\* ParseMsgData returns.
Handle(t) ==
  /\ pc[t] = "handle"
  /\ Goto(t, "drain")
  /\ handled' = IF ChecksumOK(t) THEN Append(handled, header[t]) ELSE handled
  /\ UNCHANGED <<bufferVars, nodeVars, pending, header, data, torn, overlap, misread>>

PayloadToDrain_Forgotten(t) == 0
PayloadToDrain_WithHeader(t) == Size[header[t]] + 1
PayloadToDrain(t) == Size[header[t]]

DrainPayload(t) ==
  /\ pc[t] = "drain"
  /\ Drain(PayloadToDrain(t))
  /\ Goto(t, "pullup")
  /\ UNCHANGED <<got, nodeVars, pending, header, data, history>>

-----------------------------------------------------------------------------

Init ==
  /\ got = 0 /\ drained = 0
  /\ listed = TRUE /\ up = TRUE
  /\ pending = 0
  /\ pc = [t \in Threads |-> "idle"]
  /\ header = [t \in Threads |-> 0]
  /\ data = [t \in Threads |-> 0]
  /\ handled = <<>>
  /\ torn = FALSE /\ overlap = FALSE /\ misread = FALSE

ParseMsg(t) == ReadHeader(t) \/ DrainHeader(t) \/ PullPayload(t)
               \/ Handle(t) \/ DrainPayload(t)

Next == \/ \E n \in 0..Length : Receive(n)
        \/ Close \/ Unlist
        \/ \E t \in Threads : TakeTask(t) \/ Establish(t) \/ ParseMsg(t)

Spec == Init /\ [][Next]_vars

\* The peer sends its stream to the end; the pool's threads keep running.
Fairness == /\ WF_vars(\E n \in 1..Length : Receive(n))
            /\ \A t \in Threads : WF_vars(TakeTask(t)) /\ WF_vars(ParseMsg(t))

FairSpec == Spec /\ Fairness

-----------------------------------------------------------------------------
(* Properties. *)

BufferOK == got \in 0..Length /\ drained \in 0..got /\ pending \in 0..MaxPending

FlagsOK == /\ listed \in BOOLEAN /\ up \in BOOLEAN
           /\ torn \in BOOLEAN /\ overlap \in BOOLEAN /\ misread \in BOOLEAN

ThreadsOK ==
  /\ pc \in [Threads -> {"idle", "pullup", "header", "payload", "handle", "drain"}]
  /\ header \in [Threads -> 0..Length]
  /\ data \in [Threads -> 0..Length + 1]
  /\ \A t \in Threads : pc[t] \in {"payload", "handle", "drain"} => header[t] \in Frames

TypeOK == BufferOK /\ FlagsOK /\ ThreadsOK /\ handled \in Seq(Frames)

\* What ParseMsg relies on without checking it: no payload was torn by the
\* network and no second task of the connection ran beside it.
Undisturbed == ~torn /\ ~overlap

\* An undisturbed stream is handled in order, each frame once and none skipped.
HandledInOrder ==
  Undisturbed => \A i \in DOMAIN handled :
    handled[i] = IF i = 1 THEN 1 ELSE LastCell(handled[i - 1]) + 1

\* ParseMsg disconnects a well-behaved peer (a payload taken for a header) only
\* after one of the two disturbances.
MisreadNeedsDisturbance == misread => ~Undisturbed

\* The inductive invariant behind both.  While the stream is undisturbed one
\* thread at most is in ParseMsg; at the head of its loop, and when there is
\* none, the evbuffer starts with the header that follows the frames handled.
NextFrame == IF handled = <<>> THEN 1 ELSE LastCell(handled[Len(handled)]) + 1

Alone(t) == \A u \in Threads : u # t => pc[u] = "idle"

Position(t) ==
  CASE pc[t] = "idle"    -> (\A u \in Threads : pc[u] = "idle")
                              => drained + 1 = NextFrame
    [] pc[t] = "pullup"  -> Alone(t) /\ drained + 1 = NextFrame
    [] pc[t] = "header"  -> /\ Alone(t) /\ drained < got
                            /\ drained + 1 = NextFrame /\ header[t] = NextFrame
    [] pc[t] = "payload" -> /\ Alone(t) /\ header[t] \in Frames
                            /\ drained = header[t] /\ header[t] = NextFrame
    [] pc[t] = "handle"  -> /\ Alone(t) /\ header[t] \in Frames
                            /\ drained = header[t] /\ header[t] = NextFrame
                            /\ ChecksumOK(t) /\ LastCell(header[t]) <= got
    [] pc[t] = "drain"   -> /\ Alone(t) /\ header[t] \in Frames
                            /\ drained = header[t] /\ LastCell(header[t]) <= got
                            /\ NextFrame = LastCell(header[t]) + 1

IInv ==
  /\ TypeOK
  /\ HandledInOrder
  /\ MisreadNeedsDisturbance
  /\ Undisturbed => /\ NextFrame \in Frames \cup {Length + 1}
                    /\ \A t \in Threads : Position(t)

\* In an undisturbed stream every frame received entirely is handled in the end,
\* unless the node was disconnected: once out of its list it is not read again,
\* even if a late verack handler marks it established.
EveryFrameHandled ==
  \A f \in Frames :
    (got >= LastCell(f)) ~> ((\E i \in DOMAIN handled : handled[i] = f)
                             \/ ~Undisturbed \/ ~listed \/ ~up)
=============================================================================
