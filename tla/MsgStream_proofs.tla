-------------------------- MODULE MsgStream_proofs --------------------------
(***************************************************************************)
(* MsgStream for every stream and every number of pool threads: a stream   *)
(* that is neither torn nor read by two tasks at once is handled in order, *)
(* and its peer is not disconnected by ParseMsg.                           *)
(***************************************************************************)
EXTENDS MsgStream, SequenceTheorems, TLAPS

\* The cell after a frame is the header of the next, or past the end.
LEMMA AfterFrame ==
  ASSUME NEW f \in Frames
  PROVE  LastCell(f) + 1 \in Frames \cup {Length + 1}
<1>1. f \in Nat /\ Length \in Nat /\ LastCell(f) \in Nat /\ LastCell(f) <= Length
  BY StreamAssumption DEF LastCell
<1>2. CASE LastCell(f) = Length
  BY <1>1, <1>2
<1>3. CASE LastCell(f) < Length
  <2>1. LastCell(f) + 1 \in 1..Length
    BY <1>1, <1>3
  <2>2. PICK g \in Frames : LastCell(f) + 1 \in g..LastCell(g)
    BY <2>1, StreamAssumption
  <2>3. g \in Nat /\ LastCell(g) \in Nat
    BY StreamAssumption DEF LastCell
  <2>4. f < g
    <3>1. CASE g < f
      <4>1. LastCell(g) < f
        BY <3>1, StreamAssumption
      <4>2. f <= LastCell(f)
        BY StreamAssumption DEF LastCell
      <4>3. QED  BY <1>1, <2>2, <2>3, <4>1, <4>2
    <3>2. CASE g = f
      BY <1>1, <2>2, <3>2
    <3>3. QED  BY <1>1, <2>3, <3>1, <3>2
  <2>5. LastCell(f) < g
    BY <2>4, StreamAssumption
  <2>6. g = LastCell(f) + 1
    BY <1>1, <2>2, <2>3, <2>5
  <2>7. QED  BY <2>6
<1>4. QED  BY <1>1, <1>2, <1>3

\* The first cell is a header, or the stream is empty.
LEMMA FirstFrame == 1 \in Frames \cup {Length + 1}
<1>1. CASE Length = 0
  BY <1>1
<1>2. CASE Length # 0
  <2>1. 1 \in 1..Length
    BY <1>2, StreamAssumption
  <2>2. PICK f \in Frames : 1 \in f..LastCell(f)
    BY <2>1, StreamAssumption
  <2>3. f = 1
    BY <2>2, StreamAssumption
  <2>4. QED  BY <2>3
<1>3. QED  BY <1>1, <1>2

LEMMA InitIInv == Init => IInv
<1>1. SUFFICES ASSUME Init  PROVE IInv
  OBVIOUS
<1>2. NextFrame = 1
  BY <1>1 DEF Init, NextFrame
<1>3. \A t \in Threads : Position(t)
  BY <1>1, <1>2 DEF Init, Position, Alone
<1>4. TypeOK /\ HandledInOrder /\ MisreadNeedsDisturbance
  <2>1. handled \in Seq(Frames) /\ DOMAIN handled = {}
    BY <1>1 DEF Init
  <2>2. TypeOK
    <3>1. BufferOK /\ ThreadsOK
      BY <1>1, StreamAssumption DEF Init, BufferOK, ThreadsOK
    <3>2. FlagsOK
      BY <1>1, Zenon DEF Init, FlagsOK
    <3>3. QED  BY <2>1, <3>1, <3>2 DEF TypeOK
  <2>3. HandledInOrder
    BY <2>1 DEF HandledInOrder
  <2>4. QED
    BY <1>1, <2>2, <2>3 DEF Init, MisreadNeedsDisturbance
<1>5. QED
  BY <1>2, <1>3, <1>4, FirstFrame DEF IInv

-----------------------------------------------------------------------------

\* The numbers in a well-typed state.
LEMMA Numbers ==
  ASSUME BufferOK
  PROVE  /\ got \in Nat /\ drained \in Nat /\ Length \in Nat
         /\ drained <= got /\ got <= Length
         /\ \A f \in Frames : f \in 1..Length /\ Size[f] \in Nat
  BY StreamAssumption DEF BufferOK

LEMMA TypeStep == TypeOK /\ [Next]_vars => TypeOK'
<1>1. SUFFICES ASSUME TypeOK, [Next]_vars  PROVE TypeOK'
  OBVIOUS
<1>2. BufferOK /\ FlagsOK /\ ThreadsOK /\ handled \in Seq(Frames)
  BY <1>1 DEF TypeOK
<1>3. ASSUME NEW n \in 0..Length, Receive(n)  PROVE TypeOK'
  <2>1. BufferOK'
    BY <1>2, <1>3, Numbers, StreamAssumption DEF BufferOK, Receive, FindsNode
  <2>2. FlagsOK' /\ ThreadsOK' /\ handled' \in Seq(Frames)
    BY <1>2, <1>3, Zenon DEF FlagsOK, ThreadsOK, Receive, nodeVars, history
  <2>3. QED  BY <2>1, <2>2 DEF TypeOK
<1>4. ASSUME Close \/ Unlist  PROVE TypeOK'
  <2>1. BufferOK' /\ ThreadsOK' /\ handled' \in Seq(Frames)
    BY <1>2, <1>4, Zenon DEF BufferOK, ThreadsOK, Close, Unlist, bufferVars, history
  <2>2. FlagsOK'
    BY <1>2, <1>4, Zenon DEF FlagsOK, Close, Unlist, Disconnect, history
  <2>3. QED  BY <2>1, <2>2 DEF TypeOK
<1>5. ASSUME NEW t \in Threads, TakeTask(t)  PROVE TypeOK'
  <2>1. BufferOK'
    BY <1>2, <1>5, StreamAssumption DEF BufferOK, TakeTask, bufferVars
  <2>2. ThreadsOK'
    BY <1>2, <1>5 DEF ThreadsOK, TakeTask, Goto
  <2>3. FlagsOK' /\ handled' \in Seq(Frames)
    BY <1>2, <1>5, Zenon DEF FlagsOK, TakeTask, nodeVars
  <2>4. QED  BY <2>1, <2>2, <2>3 DEF TypeOK
<1>6. ASSUME NEW t \in Threads, ReadHeader(t)  PROVE TypeOK'
  <2>1. BufferOK' /\ FlagsOK' /\ handled' \in Seq(Frames)
    BY <1>2, <1>6, Zenon DEF BufferOK, FlagsOK, ReadHeader, bufferVars, nodeVars, history
  <2>2. ThreadsOK'
    <3>1. CASE CanPullup(1)
      <4>1. drained + 1 \in 0..Length
        BY <1>2, <3>1, Numbers DEF CanPullup, Available
      <4>2. QED  BY <1>2, <1>6, <3>1, <4>1 DEF ThreadsOK, ReadHeader, Goto
    <3>2. CASE ~CanPullup(1)
      BY <1>2, <1>6, <3>2 DEF ThreadsOK, ReadHeader, Goto
    <3>3. QED  BY <3>1, <3>2
  <2>3. QED  BY <2>1, <2>2 DEF TypeOK
<1>7. ASSUME NEW t \in Threads, DrainHeader(t)  PROVE TypeOK'
  <2>1. BufferOK'
    BY <1>2, <1>7, Numbers DEF BufferOK, DrainHeader, Drain, Available
  <2>2. ThreadsOK'
    BY <1>2, <1>7 DEF ThreadsOK, DrainHeader, Goto
  <2>3. FlagsOK' /\ handled' \in Seq(Frames)
    BY <1>2, <1>7, Zenon DEF FlagsOK, DrainHeader, Disconnect, nodeVars
  <2>4. QED  BY <2>1, <2>2, <2>3 DEF TypeOK
<1>8. ASSUME NEW t \in Threads, PullPayload(t)  PROVE TypeOK'
  <2>1. BufferOK' /\ FlagsOK' /\ handled' \in Seq(Frames)
    BY <1>2, <1>8, Zenon DEF BufferOK, FlagsOK, PullPayload, bufferVars, nodeVars
  <2>2. ThreadsOK'
    <3>1. drained + 1 \in 0..Length + 1
      BY <1>2, Numbers
    <3>2. QED  BY <1>2, <1>8, <3>1 DEF ThreadsOK, PullPayload, Goto
  <2>3. QED  BY <2>1, <2>2 DEF TypeOK
<1>9. ASSUME NEW t \in Threads, Handle(t)  PROVE TypeOK'
  <2>1. header[t] \in Frames
    BY <1>2, <1>9 DEF ThreadsOK, Handle
  <2>2. handled' \in Seq(Frames)
    BY <1>2, <1>9, <2>1 DEF Handle
  <2>3. BufferOK' /\ FlagsOK'
    BY <1>2, <1>9, Zenon DEF BufferOK, FlagsOK, Handle, bufferVars, nodeVars
  <2>4. ThreadsOK'
    BY <1>2, <1>9, <2>1 DEF ThreadsOK, Handle, Goto
  <2>5. QED  BY <2>2, <2>3, <2>4 DEF TypeOK
<1>10. ASSUME NEW t \in Threads, DrainPayload(t)  PROVE TypeOK'
  <2>1. header[t] \in Frames
    BY <1>2, <1>10 DEF ThreadsOK, DrainPayload
  <2>2. BufferOK'
    BY <1>2, <1>10, <2>1, Numbers
       DEF BufferOK, DrainPayload, Drain, PayloadToDrain, Available
  <2>3. ThreadsOK'
    BY <1>2, <1>10 DEF ThreadsOK, DrainPayload, Goto
  <2>4. FlagsOK' /\ handled' \in Seq(Frames)
    BY <1>2, <1>10, Zenon DEF FlagsOK, DrainPayload, nodeVars, history
  <2>5. QED  BY <2>2, <2>3, <2>4 DEF TypeOK
<1>11. ASSUME UNCHANGED vars  PROVE TypeOK'
  BY <1>2, <1>11, Zenon
     DEF TypeOK, BufferOK, FlagsOK, ThreadsOK, vars, bufferVars, nodeVars, history
<1>12. ASSUME NEW t \in Threads, Establish(t)  PROVE TypeOK'
  BY <1>2, <1>12, Zenon
     DEF TypeOK, BufferOK, FlagsOK, ThreadsOK, Establish, bufferVars, history
<1>13. QED
  BY <1>1, <1>3, <1>4, <1>5, <1>6, <1>7, <1>8, <1>9, <1>10, <1>11, <1>12
     DEF Next, ParseMsg

-----------------------------------------------------------------------------

\* A step of the only thread in ParseMsg: its own position is all there is to
\* show.
LEMMA LoneStep ==
  ASSUME NEW t \in Threads, Alone(t), ThreadsOK, ThreadsOK',
         \A u \in Threads : u # t => pc'[u] = pc[u],
         Position(t)'
  PROVE  \A u \in Threads : Position(u)'
<1>1. ASSUME NEW u \in Threads, u # t  PROVE Position(u)'
  <2>1. pc'[u] = "idle"
    BY <1>1 DEF Alone
  <2>2. (\A v \in Threads : pc'[v] = "idle") => drained' + 1 = NextFrame'
    BY DEF Position
  <2>3. QED  BY <2>1, <2>2 DEF Position
<1>2. QED  BY <1>1

\* What IInv says of an undisturbed stream.
Order == \A i \in DOMAIN handled :
           handled[i] = IF i = 1 THEN 1 ELSE LastCell(handled[i - 1]) + 1

Settled == /\ Order /\ ~misread
           /\ NextFrame \in Frames \cup {Length + 1}
           /\ \A t \in Threads : Position(t)

LEMMA ReadHeaderSettled ==
  ASSUME TypeOK, TypeOK', Settled, NEW t \in Threads, ReadHeader(t)
  PROVE  Settled'
<1>1. ThreadsOK /\ ThreadsOK' /\ BufferOK
  BY DEF TypeOK
<1>2. Alone(t) /\ drained + 1 = NextFrame
  BY DEF Settled, Position, ReadHeader
<1>3. UNCHANGED <<got, drained, handled, misread>>
  BY DEF ReadHeader, bufferVars, history
<1>4. NextFrame' = NextFrame /\ Order' /\ ~misread'
  BY <1>3 DEF Settled, Order, NextFrame
<1>5. \A u \in Threads : u # t => pc'[u] = pc[u]
  BY <1>1 DEF ReadHeader, Goto, ThreadsOK
<1>6. Alone(t)'
  BY <1>2, <1>5 DEF Alone
<1>7. Position(t)'
  <2>1. CASE CanPullup(1)
    <3>1. pc'[t] = "header" /\ header'[t] = drained + 1 /\ drained < got
      BY <1>1, <2>1, Numbers DEF ReadHeader, Goto, ThreadsOK, CanPullup, Available
    <3>2. QED  BY <1>2, <1>3, <1>4, <1>6, <3>1 DEF Position
  <2>2. CASE ~CanPullup(1)
    <3>1. pc'[t] = "idle"
      BY <1>1, <2>2 DEF ReadHeader, Goto, ThreadsOK
    <3>2. QED  BY <1>2, <1>3, <1>4, <3>1 DEF Position
  <2>3. QED  BY <2>1, <2>2
<1>8. QED
  BY <1>1, <1>2, <1>4, <1>5, <1>7, LoneStep DEF Settled

\* The header of an undisturbed thread is a frame: the checks pass.
LEMMA DrainHeaderSettled ==
  ASSUME TypeOK, TypeOK', Settled, NEW t \in Threads, DrainHeader(t)
  PROVE  Settled'
<1>1. ThreadsOK /\ ThreadsOK' /\ BufferOK
  BY DEF TypeOK
<1>2. /\ Alone(t) /\ drained < got
      /\ drained + 1 = NextFrame /\ header[t] = NextFrame
  BY DEF Settled, Position, DrainHeader
<1>3. header[t] \in Frames
  BY <1>1, <1>2, Numbers DEF Settled
<1>4. drained' = drained + 1
  BY <1>1, <1>2, Numbers DEF DrainHeader, Drain, Available
<1>5. UNCHANGED <<got, header, handled, misread>>
  BY <1>3 DEF DrainHeader
<1>6. NextFrame' = NextFrame /\ Order' /\ ~misread'
  BY <1>5 DEF Settled, Order, NextFrame
<1>7. /\ \A u \in Threads : u # t => pc'[u] = pc[u]
      /\ pc'[t] = IF Size[header[t]] = 0 THEN "handle" ELSE "payload"
  BY <1>1, <1>3 DEF DrainHeader, Goto, ThreadsOK
<1>8. Alone(t)'
  BY <1>2, <1>7 DEF Alone
<1>9. Position(t)'
  <2>1. CASE Size[header[t]] = 0
    <3>1. ChecksumOK(t)'
      BY <1>5, <2>1 DEF ChecksumOK
    <3>2. LastCell(header'[t]) <= got'
      BY <1>1, <1>2, <1>3, <1>5, <2>1, Numbers DEF LastCell
    <3>3. QED
      BY <1>2, <1>3, <1>4, <1>5, <1>6, <1>7, <1>8, <2>1, <3>1, <3>2 DEF Position
  <2>2. CASE Size[header[t]] # 0
    BY <1>2, <1>3, <1>4, <1>5, <1>6, <1>7, <1>8, <2>2 DEF Position
  <2>3. QED  BY <2>1, <2>2
<1>10. QED
  BY <1>1, <1>2, <1>6, <1>7, <1>9, LoneStep DEF Settled

LEMMA PullPayloadSettled ==
  ASSUME TypeOK, TypeOK', Settled, NEW t \in Threads, PullPayload(t), ~torn'
  PROVE  Settled'
<1>1. ThreadsOK /\ ThreadsOK' /\ BufferOK
  BY DEF TypeOK
<1>2. /\ Alone(t) /\ header[t] \in Frames
      /\ drained = header[t] /\ header[t] = NextFrame
  BY DEF Settled, Position, PullPayload
<1>3. CanPullup(Size[header[t]])
  BY DEF PullPayload
<1>4. /\ pc'[t] = "handle" /\ data'[t] = drained + 1
      /\ \A u \in Threads : u # t => pc'[u] = pc[u]
      /\ UNCHANGED <<got, drained, header, handled, misread>>
  BY <1>1, <1>3 DEF PullPayload, Goto, ThreadsOK, bufferVars
<1>5. NextFrame' = NextFrame /\ Order' /\ ~misread'
  BY <1>4 DEF Settled, Order, NextFrame
<1>6. Alone(t)'
  BY <1>2, <1>4 DEF Alone
<1>7. ChecksumOK(t)'
  BY <1>2, <1>4 DEF ChecksumOK
<1>8. LastCell(header[t]) <= got
  BY <1>1, <1>2, <1>3, Numbers DEF LastCell, CanPullup, Available
<1>9. Position(t)'
  BY <1>2, <1>4, <1>5, <1>6, <1>7, <1>8 DEF Position
<1>10. QED
  BY <1>1, <1>2, <1>4, <1>5, <1>9, LoneStep DEF Settled

LEMMA HandleSettled ==
  ASSUME TypeOK, TypeOK', Settled, NEW t \in Threads, Handle(t)
  PROVE  Settled'
<1>1. ThreadsOK /\ ThreadsOK' /\ BufferOK /\ handled \in Seq(Frames)
  BY DEF TypeOK
<1>2. /\ Alone(t) /\ header[t] \in Frames /\ ChecksumOK(t)
      /\ drained = header[t] /\ header[t] = NextFrame /\ LastCell(header[t]) <= got
  BY DEF Settled, Position, Handle
<1>3. /\ pc'[t] = "drain" /\ handled' = Append(handled, header[t])
      /\ \A u \in Threads : u # t => pc'[u] = pc[u]
      /\ UNCHANGED <<got, drained, header, misread>>
  BY <1>1, <1>2 DEF Handle, Goto, ThreadsOK, bufferVars
<1>4. /\ Len(handled) \in Nat /\ Len(handled') = Len(handled) + 1
      /\ DOMAIN handled = 1..Len(handled)
      /\ DOMAIN handled' = 1..Len(handled) + 1
      /\ handled'[Len(handled')] = header[t]
      /\ \A i \in DOMAIN handled : handled'[i] = handled[i]
  BY <1>1, <1>2, <1>3, AppendProperties, LenProperties
<1>5. handled' # <<>>
  BY <1>4
<1>6. NextFrame' = LastCell(header[t]) + 1
  BY <1>4, <1>5 DEF NextFrame
<1>7. NextFrame' \in Frames \cup {Length + 1} /\ ~misread'
  BY <1>2, <1>3, <1>6, AfterFrame DEF Settled
<1>8. Order'
  <2>1. SUFFICES ASSUME NEW i \in DOMAIN handled'
                 PROVE  handled'[i] = IF i = 1 THEN 1 ELSE LastCell(handled'[i - 1]) + 1
    BY DEF Order
  <2>2. CASE i \in DOMAIN handled
    <3>1. i # 1 => i - 1 \in DOMAIN handled
      BY <1>4, <2>2
    <3>2. QED  BY <1>4, <2>2, <3>1 DEF Settled, Order
  <2>3. CASE i = Len(handled) + 1
    <3>1. handled'[i] = NextFrame
      BY <1>2, <1>4, <2>3
    <3>2. CASE handled = <<>>
      BY <1>4, <2>3, <3>1, <3>2 DEF NextFrame
    <3>3. CASE handled # <<>>
      <4>1. Len(handled) # 0
        BY <1>1, <3>3, EmptySeq
      <4>2. i # 1 /\ i - 1 = Len(handled) /\ handled'[i - 1] = handled[Len(handled)]
        BY <1>4, <2>3, <4>1
      <4>3. QED  BY <3>1, <3>3, <4>2 DEF NextFrame
    <3>4. QED  BY <3>2, <3>3
  <2>4. QED  BY <1>4, <2>1, <2>2, <2>3
<1>9. Alone(t)'
  BY <1>2, <1>3 DEF Alone
<1>10. Position(t)'
  BY <1>2, <1>3, <1>6, <1>9 DEF Position
<1>11. QED
  BY <1>1, <1>2, <1>3, <1>7, <1>8, <1>10, LoneStep DEF Settled

LEMMA DrainPayloadSettled ==
  ASSUME TypeOK, TypeOK', Settled, NEW t \in Threads, DrainPayload(t)
  PROVE  Settled'
<1>1. ThreadsOK /\ ThreadsOK' /\ BufferOK
  BY DEF TypeOK
<1>2. /\ Alone(t) /\ header[t] \in Frames /\ drained = header[t]
      /\ LastCell(header[t]) <= got /\ NextFrame = LastCell(header[t]) + 1
  BY DEF Settled, Position, DrainPayload
<1>3. /\ pc'[t] = "pullup"
      /\ \A u \in Threads : u # t => pc'[u] = pc[u]
      /\ UNCHANGED <<got, handled, misread>>
  BY <1>1 DEF DrainPayload, Goto, ThreadsOK, history
<1>4. drained' = LastCell(header[t])
  BY <1>1, <1>2, Numbers DEF DrainPayload, Drain, PayloadToDrain, Available, LastCell
<1>5. NextFrame' = NextFrame /\ Order' /\ ~misread'
  BY <1>3 DEF Settled, Order, NextFrame
<1>6. Alone(t)'
  BY <1>2, <1>3 DEF Alone
<1>7. Position(t)'
  BY <1>2, <1>3, <1>4, <1>5, <1>6 DEF Position
<1>8. QED
  BY <1>1, <1>2, <1>3, <1>5, <1>7, LoneStep DEF Settled

\* A task that starts without overlapping another finds no thread in ParseMsg.
LEMMA TakeTaskSettled ==
  ASSUME TypeOK, TypeOK', Settled, NEW t \in Threads, TakeTask(t), ~overlap'
  PROVE  Settled'
<1>1. ThreadsOK /\ ThreadsOK'
  BY DEF TypeOK
<1>2. UNCHANGED <<got, drained, header, data, handled, misread>>
  BY DEF TakeTask, bufferVars
<1>3. NextFrame' = NextFrame /\ Order' /\ ~misread'
  BY <1>2 DEF Settled, Order, NextFrame
<1>4. pc[t] = "idle" /\ \A u \in Threads : u # t => pc'[u] = pc[u]
  BY <1>1 DEF TakeTask, StillUp, Goto, ThreadsOK
<1>5. CASE up
  <2>1. pc'[t] = "pullup" /\ \A u \in Threads : pc[u] = "idle"
    BY <1>1, <1>5 DEF TakeTask, StillUp, Goto, ThreadsOK
  <2>2. drained + 1 = NextFrame
    BY <2>1 DEF Settled, Position
  <2>3. Alone(t) /\ Alone(t)'
    BY <1>4, <2>1 DEF Alone
  <2>4. Position(t)'
    BY <1>2, <1>3, <2>1, <2>2, <2>3 DEF Position
  <2>5. QED
    BY <1>1, <1>3, <1>4, <2>3, <2>4, LoneStep DEF Settled
<1>6. CASE ~up
  <2>1. pc' = pc
    BY <1>1, <1>4, <1>6 DEF TakeTask, StillUp, Goto, ThreadsOK
  <2>2. \A u \in Threads : Position(u)'
    BY <1>2, <1>3, <2>1 DEF Settled, Position, Alone, ChecksumOK
  <2>3. QED  BY <1>3, <2>2 DEF Settled
<1>7. QED  BY <1>5, <1>6

\* The event loop's thread only adds to the evbuffer.
LEMMA EventSettled ==
  ASSUME TypeOK, Settled,
         UNCHANGED <<drained, pc, header, data, handled, misread>>,
         got' \in Nat, got <= got'
  PROVE  Settled'
<1>1. BufferOK
  BY DEF TypeOK
<1>2. NextFrame' = NextFrame /\ Order' /\ ~misread'
  BY DEF Settled, Order, NextFrame
<1>3. ASSUME NEW u \in Threads  PROVE Position(u)'
  <2>1. Position(u) /\ (Alone(u) => Alone(u)') /\ (ChecksumOK(u) => ChecksumOK(u)')
    BY DEF Settled, Alone, ChecksumOK
  <2>2. drained < got => drained < got'
    BY <1>1, Numbers
  <2>3. header[u] \in Frames /\ LastCell(header[u]) <= got => LastCell(header[u]) <= got'
    BY <1>1, Numbers DEF LastCell
  <2>4. CASE pc[u] \in {"idle", "pullup", "header"}
    BY <1>2, <2>1, <2>2, <2>4 DEF Position
  <2>5. CASE pc[u] \in {"payload", "drain"}
    BY <1>2, <2>1, <2>3, <2>5 DEF Position
  <2>6. CASE pc[u] = "handle"
    BY <1>2, <2>1, <2>3, <2>6 DEF Position
  <2>7. QED
    BY <2>4, <2>5, <2>6 DEF TypeOK, ThreadsOK
<1>4. QED  BY <1>2, <1>3 DEF Settled

-----------------------------------------------------------------------------

LEMMA NextIInv == IInv /\ [Next]_vars => IInv'
<1>1. SUFFICES ASSUME IInv, [Next]_vars  PROVE IInv'
  OBVIOUS
<1>2. TypeOK /\ TypeOK'
  BY <1>1, TypeStep DEF IInv
<1>3. ASSUME Undisturbed'  PROVE Settled'
  <2>1. Undisturbed
    <3>1. torn => torn'
      BY <1>1, Zenon DEF Next, Receive, Close, Unlist, TakeTask, ParseMsg, ReadHeader, DrainHeader,
                  Establish, PullPayload, Handle, DrainPayload, vars, history
    <3>2. overlap => overlap'
      BY <1>1, Zenon DEF Next, Receive, Close, Unlist, TakeTask, ParseMsg, ReadHeader, DrainHeader,
                  Establish, PullPayload, Handle, DrainPayload, vars, history
    <3>3. QED  BY <1>3, <3>1, <3>2 DEF Undisturbed
  <2>2. Settled
    BY <1>1, <2>1 DEF IInv, HandledInOrder, MisreadNeedsDisturbance, Settled, Order
  <2>3. ASSUME NEW n \in 0..Length, Receive(n)  PROVE Settled'
    <3>1. got' \in Nat /\ got <= got'
      BY <1>2, <2>3, Numbers DEF TypeOK, Receive
    <3>2. QED  BY <1>2, <2>2, <2>3, <3>1, EventSettled DEF Receive, history
  <2>4. ASSUME Close \/ Unlist  PROVE Settled'
    <3>1. got' \in Nat /\ got <= got'
      BY <1>2, <2>4, Numbers DEF TypeOK, Close, Unlist, bufferVars
    <3>2. QED  BY <1>2, <2>2, <2>4, <3>1, EventSettled DEF Close, Unlist, bufferVars, history
  <2>5. ASSUME NEW t \in Threads, TakeTask(t)  PROVE Settled'
    BY <1>2, <1>3, <2>2, <2>5, TakeTaskSettled DEF Undisturbed
  <2>6. ASSUME NEW t \in Threads, ReadHeader(t)  PROVE Settled'
    BY <1>2, <2>2, <2>6, ReadHeaderSettled
  <2>7. ASSUME NEW t \in Threads, DrainHeader(t)  PROVE Settled'
    BY <1>2, <2>2, <2>7, DrainHeaderSettled
  <2>8. ASSUME NEW t \in Threads, PullPayload(t)  PROVE Settled'
    BY <1>2, <1>3, <2>2, <2>8, PullPayloadSettled DEF Undisturbed
  <2>9. ASSUME NEW t \in Threads, Handle(t)  PROVE Settled'
    BY <1>2, <2>2, <2>9, HandleSettled
  <2>10. ASSUME NEW t \in Threads, DrainPayload(t)  PROVE Settled'
    BY <1>2, <2>2, <2>10, DrainPayloadSettled
  <2>11. ASSUME UNCHANGED vars  PROVE Settled'
    <3>1. got' \in Nat /\ got <= got'
      BY <1>2, <2>11, Numbers DEF TypeOK, vars, bufferVars
    <3>2. QED  BY <1>2, <2>2, <2>11, <3>1, EventSettled DEF vars, bufferVars, history
  <2>12. ASSUME NEW t \in Threads, Establish(t)  PROVE Settled'
    <3>1. got' \in Nat /\ got <= got'
      BY <1>2, <2>12, Numbers DEF TypeOK, Establish, bufferVars
    <3>2. QED
      BY <1>2, <2>2, <2>12, <3>1, EventSettled DEF Establish, bufferVars, history
  <2>13. QED
    BY <1>1, <2>3, <2>4, <2>5, <2>6, <2>7, <2>8, <2>9, <2>10, <2>11, <2>12
       DEF Next, ParseMsg
<1>4. QED
  BY <1>2, <1>3
     DEF IInv, HandledInOrder, MisreadNeedsDisturbance, Settled, Order, Undisturbed

\* IInv holds in every state, whatever the stream, the pool and the way the
\* network cuts the stream up.
THEOREM Invariance == Spec => []IInv
<1>1. Init => IInv
  BY InitIInv
<1>2. IInv /\ [Next]_vars => IInv'
  BY NextIInv
<1>3. QED  BY <1>1, <1>2, PTL DEF Spec

\* The state of ParseMsg and its evbuffer is well-formed.
THEOREM TypeCorrect == Spec => []TypeOK
<1>1. IInv => TypeOK
  BY DEF IInv
<1>2. QED  BY <1>1, Invariance, PTL

\* ParseMsg hands an undisturbed stream to the handlers in order, nothing
\* skipped and nothing twice.
THEOREM OrderKept == Spec => []HandledInOrder
<1>1. IInv => HandledInOrder
  BY DEF IInv
<1>2. QED  BY <1>1, Invariance, PTL

\* ParseMsg disconnects a well-behaved peer only after a torn payload or two
\* tasks at once.
THEOREM DisconnectedOnlyByDisturbance == Spec => []MisreadNeedsDisturbance
<1>1. IInv => MisreadNeedsDisturbance
  BY DEF IInv
<1>2. QED  BY <1>1, Invariance, PTL
=============================================================================
