--------------------------- MODULE CircularBuffer ---------------------------
(***************************************************************************)
(* CircularBuffer of circular_buffer.h: the cells of an array from head_   *)
(* on, the oldest of which a full buffer overwrites.                       *)
(***************************************************************************)
EXTENDS Integers, Sequences

CONSTANTS
  Items,
  MaxSize, \* max_size_
  NoItem   \* what new T[] and T() leave

ASSUME BufferAssumption == MaxSize \in Nat \ {0}

VARIABLES
  cells, head, tail, full,
  queue \* (history) what is to be in it

bufferState == <<cells, head, tail, full, queue>>

Size ==
  CASE full -> MaxSize
    [] ~full /\ head <= tail -> tail - head
    [] OTHER -> tail + MaxSize - head
Empty == ~full /\ head = tail

\* operator[] for n < size().
Cell(n) == cells[(head + n) % MaxSize]

\* The first size() cells, wherever the buffer begins.
Exist(item) == \E n \in 0..Size - 1 : cells[n] = item

-----------------------------------------------------------------------------
BufferInit ==
  /\ cells = [n \in 0..MaxSize - 1 |-> NoItem]
  /\ head = 0 /\ tail = 0 /\ full = FALSE
  /\ queue = << >>

Successor(n) == (n + 1) % MaxSize
NewHead_Kept == head
NewHead == IF full THEN Successor(head) ELSE head

PushBack(item) ==
  /\ cells' = [cells EXCEPT ![tail] = item]
  /\ head' = NewHead
  /\ tail' = Successor(tail)
  /\ full' = (head' = tail')
  /\ queue' = Append(IF Len(queue) = MaxSize THEN Tail(queue) ELSE queue, item)

\* An empty buffer gives T() and is left as it is.
PopFront ==
  /\ ~Empty
  /\ head' = Successor(head)
  /\ full' = FALSE
  /\ queue' = Tail(queue)
  /\ UNCHANGED <<cells, tail>>

Clear ==
  /\ head' = tail
  /\ full' = FALSE
  /\ queue' = << >>
  /\ UNCHANGED <<cells, tail>>

BufferNext == (\E item \in Items : PushBack(item)) \/ PopFront \/ Clear

BufferSpec == BufferInit /\ [][BufferNext]_bufferState

-----------------------------------------------------------------------------
\* The buffer is the queue of the last MaxSize items pushed and not taken, whatever
\* push_back, pop_front and clear did before; exist agrees with it where the buffer
\* begins at cell 0 or is full, which is all it can be relied on for.
BufferIsQueue ==
  /\ Size = Len(queue) /\ Empty = (queue = << >>)
  /\ \A n \in 0..Size - 1 : Cell(n) = queue[n + 1]
  /\ head = 0 \/ full => \A item \in Items : Exist(item) = \E i \in 1..Len(queue) : queue[i] = item
=============================================================================
