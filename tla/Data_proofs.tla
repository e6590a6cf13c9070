----------------------------- MODULE Data_proofs -----------------------------
(***************************************************************************)
(* What the data of the program is trusted for, for any values of the      *)
(* constants: the remembered hash of transactions, the circular buffer,    *)
(* the adjusted time, the index of blocks and the chain, addresses, and    *)
(* what is written of a block and read again.                              *)
(***************************************************************************)
EXTENDS ConsensusData, CircularBuffer, TimeData, BlockTree, NetAddress,
        FiniteSetTheorems, FunctionTheorems, SequenceTheorems, WellFoundedInduction, TLAPS

(***************************************************************************)
(* Transactions.                                                           *)
(***************************************************************************)

\* Objects are records of a content and a hash.
Objects(f) == f = [s \in Slots |-> [tx |-> f[s].tx, hash |-> f[s].hash]]

\* An object whose hash is not that of its content is on record as such.
Recorded(f, out) == \A s \in Slots : HashOf(f[s]) # f[s].tx => s \in out

TxIInv == Objects(held) /\ Recorded(held, outdated)

-----------------------------------------------------------------------------
(* What becomes of one object. *)

\* A fresh object, and one hashed over clean memory, has the hash of its content.
LEMMA FreshHash == \A tx : HashOf(Fresh(tx)) = tx /\ HashOf(Hashed(Fresh(tx))) = tx
  BY DEF HashOf, Fresh, Hashed

\* Remembering the hash changes neither the hash nor the content.
LEMMA HashedKeeps ==
  ASSUME NEW o, o = [tx |-> o.tx, hash |-> o.hash]
  PROVE  /\ Hashed(o) = [tx |-> o.tx, hash |-> HashOf(o)]
         /\ HashOf(Hashed(o)) = HashOf(o)
<1>1. Hashed(o) = [tx |-> o.tx, hash |-> HashOf(o)]
  BY DEF Hashed
<1>2. QED
  BY <1>1 DEF HashOf

\* An object that was moved from keeps its hash.
LEMMA MovedKeeps ==
  ASSUME NEW o, o = [tx |-> o.tx, hash |-> o.hash]
  PROVE  /\ MovedFrom(o) = [tx |-> MovedFrom(o).tx, hash |-> o.hash]
         /\ o.hash = NullHash => HashOf(MovedFrom(o)) = MovedFrom(o).tx
<1> DEFINE x == [o.tx EXCEPT !.inputs = <<>>, !.outputs = <<>>]
<1>1. MovedFrom(o) = [o EXCEPT !.tx = x]
  BY DEF MovedFrom
<1> HIDE DEF x
<1>2. MovedFrom(o) = [tx |-> x, hash |-> o.hash]
  BY <1>1
<1>3. QED
  BY <1>2 DEF HashOf

-----------------------------------------------------------------------------
(* The invariant: one lemma per kind of step. *)

LEMMA TxInitIInv == TransactionsInit => TxIInv
<1>1. SUFFICES ASSUME TransactionsInit PROVE TxIInv
  OBVIOUS
<1>2. \A s \in Slots : held[s] = Fresh(Content(DefaultVersion, <<>>, <<>>))
  BY <1>1 DEF TransactionsInit, DefaultTransaction
<1>3. Objects(held)
  BY <1>1 DEF TransactionsInit, DefaultTransaction, Fresh, Objects
<1>4. \A s \in Slots : HashOf(held[s]) = held[s].tx
  <2>1. ASSUME NEW s \in Slots  PROVE HashOf(held[s]) = held[s].tx
    <3>1. PICK tx : held[s] = Fresh(tx)
      BY <1>2
    <3>2. held[s].tx = tx
      BY <3>1 DEF Fresh
    <3>3. QED  BY <3>1, <3>2, FreshHash
  <2>2. QED  BY <2>1
<1>5. QED
  BY <1>3, <1>4 DEF TxIInv, Recorded

\* The object a constructor leaves: recorded unless its memory was clean.
LEMMA Constructed ==
  ASSUME NEW tx, NEW memory
  PROVE  LET o == Hashed([tx |-> tx, hash |-> memory])
         IN /\ o = [tx |-> tx, hash |-> o.hash]
            /\ memory = NullHash => HashOf(o) = tx
  BY DEF Hashed, HashOf

LEMMA ConstructKeeps ==
  ASSUME TxIInv, NEW s \in Slots, NEW tx, Construct(s, tx) PROVE TxIInv'
<1>1. PICK memory \in {NullHash, MemoryHash} :
        /\ held' = [held EXCEPT ![s] = Hashed([tx |-> tx, hash |-> memory])]
        /\ outdated' = IF memory = NullHash THEN outdated \ {s} ELSE outdated \cup {s}
  BY DEF Construct
<1> DEFINE o == Hashed([tx |-> tx, hash |-> memory])
<1>2. o = [tx |-> tx, hash |-> o.hash] /\ (memory = NullHash => HashOf(o) = tx)
  BY Constructed
<1>3. o.tx = tx
  BY <1>2
<1> HIDE DEF o
<1>4. \A t \in Slots : held'[t] = IF t = s THEN o ELSE held[t]
  BY <1>1 DEF TxIInv, Objects, o
<1>5. Objects(held')
  BY <1>1, <1>2, <1>3 DEF TxIInv, Objects, o
<1>6. Recorded(held', outdated')
  BY <1>1, <1>2, <1>3, <1>4 DEF TxIInv, Recorded
<1>7. QED
  BY <1>5, <1>6 DEF TxIInv

LEMMA MoveConstructKeeps ==
  ASSUME TxIInv, NEW s \in Slots, NEW from \in Slots, MoveConstruct(s, from) PROVE TxIInv'
<1>1. PICK memory \in {NullHash, MemoryHash} :
        /\ held' = [held EXCEPT ![s] = Hashed([tx |-> held[from].tx, hash |-> memory]),
                               ![from] = MovedFrom(held[from])]
        /\ outdated' = (IF memory = NullHash THEN outdated \ {s} ELSE outdated \cup {s})
                       \cup (IF held[from].hash = NullHash THEN {} ELSE {from})
  BY DEF MoveConstruct
<1>2. s # from
  BY DEF MoveConstruct
<1> DEFINE o == Hashed([tx |-> held[from].tx, hash |-> memory])
           moved == MovedFrom(held[from])
<1>3. /\ o = [tx |-> held[from].tx, hash |-> o.hash]
      /\ memory = NullHash => HashOf(o) = held[from].tx
  BY Constructed
<1>4. held[from] = [tx |-> held[from].tx, hash |-> held[from].hash]
  BY DEF TxIInv, Objects
<1>5. /\ moved = [tx |-> moved.tx, hash |-> held[from].hash]
      /\ held[from].hash = NullHash => HashOf(moved) = moved.tx
  BY <1>4, MovedKeeps
<1>6. held' = [held EXCEPT ![s] = o, ![from] = moved]
  BY <1>1
<1> HIDE DEF o, moved
<1>7. \A t \in Slots : held'[t] = IF t = from THEN moved ELSE IF t = s THEN o ELSE held[t]
  BY <1>6 DEF TxIInv, Objects
<1>8. Objects(held')
  BY <1>3, <1>5, <1>6, <1>7 DEF TxIInv, Objects
<1>9. o.tx = held[from].tx
  BY <1>3
<1>10. Recorded(held', outdated')
  BY <1>1, <1>2, <1>3, <1>5, <1>7, <1>9 DEF TxIInv, Recorded
<1>11. QED
  BY <1>8, <1>10 DEF TxIInv

\* Assignments and setters leave a fresh object.
LEMMA FreshKeeps ==
  ASSUME TxIInv, NEW s \in Slots, NEW tx,
         held' = [held EXCEPT ![s] = Fresh(tx)], outdated' = outdated \ {s}
  PROVE  TxIInv'
<1>1. Fresh(tx) = [tx |-> tx, hash |-> NullHash]
  BY DEF Fresh
<1>2. \A t \in Slots : held'[t] = IF t = s THEN Fresh(tx) ELSE held[t]
  BY DEF TxIInv, Objects
<1>3. Objects(held')
  BY <1>1, <1>2 DEF TxIInv, Objects
<1>4. Recorded(held', outdated')
  BY <1>1, <1>2, FreshHash DEF TxIInv, Recorded
<1>5. QED
  BY <1>3, <1>4 DEF TxIInv

LEMMA AssignMovedKeeps ==
  ASSUME TxIInv, NEW s \in Slots, NEW from \in Slots, AssignMoved(s, from) PROVE TxIInv'
<1>1. /\ s # from
      /\ held' = [held EXCEPT ![s] = Fresh(held[from].tx), ![from] = MovedFrom(held[from])]
      /\ outdated' = (outdated \ {s}) \cup (IF held[from].hash = NullHash THEN {} ELSE {from})
  BY DEF AssignMoved
<1> DEFINE moved == MovedFrom(held[from])
           new == Fresh(held[from].tx)
<1>2. held[from] = [tx |-> held[from].tx, hash |-> held[from].hash]
  BY DEF TxIInv, Objects
<1>3. /\ moved = [tx |-> moved.tx, hash |-> held[from].hash]
      /\ held[from].hash = NullHash => HashOf(moved) = moved.tx
  BY <1>2, MovedKeeps
<1>4. new = [tx |-> held[from].tx, hash |-> NullHash] /\ HashOf(new) = held[from].tx
  BY FreshHash DEF Fresh
<1>5. held' = [held EXCEPT ![s] = new, ![from] = moved]
  BY <1>1
<1> HIDE DEF moved, new
<1>6. \A t \in Slots : held'[t] = IF t = from THEN moved ELSE IF t = s THEN new ELSE held[t]
  BY <1>5 DEF TxIInv, Objects
<1>7. Objects(held')
  BY <1>3, <1>4, <1>5, <1>6 DEF TxIInv, Objects
<1>8. new.tx = held[from].tx
  BY <1>4
<1>9. Recorded(held', outdated')
  BY <1>1, <1>3, <1>4, <1>6, <1>8 DEF TxIInv, Recorded
<1>10. QED
  BY <1>7, <1>9 DEF TxIInv

LEMMA DeserializeKeeps == ASSUME TxIInv, NEW s \in Slots, DeserializeInto(s) PROVE TxIInv'
<1>1. PICK tx \in Contents : held' = [held EXCEPT ![s].tx = tx]
  BY DEF DeserializeInto
<1>2. outdated' = IF held[s].hash = NullHash THEN outdated ELSE outdated \cup {s}
  BY DEF DeserializeInto
<1>3. held[s] = [tx |-> held[s].tx, hash |-> held[s].hash]
  BY DEF TxIInv, Objects
<1> DEFINE o == [tx |-> tx, hash |-> held[s].hash]
<1>4. \A t \in Slots : held'[t] = IF t = s THEN o ELSE held[t]
  BY <1>1, <1>3 DEF TxIInv, Objects
<1>5. Objects(held')
  BY <1>1, <1>4 DEF TxIInv, Objects
<1>6. held[s].hash = NullHash => HashOf(o) = tx
  BY DEF HashOf
<1>7. Recorded(held', outdated')
  BY <1>2, <1>4, <1>6 DEF TxIInv, Recorded
<1>8. QED
  BY <1>5, <1>7 DEF TxIInv

\* GetHash, by itself and twice in operator==.
LEMMA HashedObjectsKeep ==
  ASSUME TxIInv, NEW S \in SUBSET Slots, UNCHANGED outdated,
         held' = [t \in Slots |-> IF t \in S THEN Hashed(held[t]) ELSE held[t]]
  PROVE  TxIInv'
<1>1. \A t \in Slots :
        /\ Hashed(held[t]) = [tx |-> held[t].tx, hash |-> HashOf(held[t])]
        /\ HashOf(Hashed(held[t])) = HashOf(held[t])
  BY HashedKeeps DEF TxIInv, Objects
<1>2. ASSUME NEW t \in Slots
      PROVE  /\ held'[t] = [tx |-> held[t].tx, hash |-> held'[t].hash]
             /\ held'[t].tx = held[t].tx
             /\ HashOf(held'[t]) = HashOf(held[t])
  <2>1. CASE t \in S
    <3>1. held'[t] = Hashed(held[t])
      BY <2>1
    <3>2. held'[t] = [tx |-> held[t].tx, hash |-> HashOf(held[t])]
      BY <1>1, <3>1
    <3>3. HashOf(held'[t]) = HashOf(held[t])
      BY <1>1, <3>1
    <3>4. QED  BY <3>2, <3>3
  <2>2. CASE t \notin S
    <3>1. held'[t] = held[t]
      BY <2>2
    <3>2. held[t] = [tx |-> held[t].tx, hash |-> held[t].hash]
      BY DEF TxIInv, Objects
    <3>3. QED  BY <3>1, <3>2
  <2>3. QED  BY <2>1, <2>2
<1>3. Objects(held')
  BY <1>2 DEF Objects
<1>4. QED
  BY <1>2, <1>3 DEF TxIInv, Recorded

LEMMA TxStepIInv == TxIInv /\ [TransactionsNext]_transactionState => TxIInv'
<1>1. SUFFICES ASSUME TxIInv, [TransactionsNext]_transactionState PROVE TxIInv'
  OBVIOUS
<1>2. held = [s \in Slots |-> held[s]]
  BY <1>1 DEF TxIInv, Objects
<1>3. ASSUME NEW s \in Slots, ConstructOf(s) PROVE TxIInv'
  BY <1>1, <1>3, ConstructKeeps DEF ConstructOf
<1>4. ASSUME NEW s \in Slots, SetVersionOf(s) \/ SetInputsOf(s) \/ SetOutputsOf(s) PROVE TxIInv'
  <2>1. PICK tx : SetTo(s, tx)
    BY <1>4 DEF SetVersionOf, SetInputsOf, SetOutputsOf
  <2>2. QED
    BY <1>1, <2>1, FreshKeeps DEF SetTo
<1>5. ASSUME NEW s \in Slots, DeserializeInto(s) PROVE TxIInv'
  BY <1>1, <1>5, DeserializeKeeps
<1>6. ASSUME NEW s \in Slots, GetHashOf(s) PROVE TxIInv'
  <2>1. held' = [t \in Slots |-> IF t \in {s} THEN Hashed(held[t]) ELSE held[t]]
    BY <1>2, <1>6 DEF GetHashOf
  <2>2. QED
    BY <1>1, <1>6, <2>1, HashedObjectsKeep DEF GetHashOf
<1>7. ASSUME NEW s \in Slots, NEW t \in Slots, Compare(s, t) PROVE TxIInv'
  <2>1. CASE s # t
    <3>1. held' = [u \in Slots |-> IF u \in {s, t} THEN Hashed(held[u]) ELSE held[u]]
      BY <1>2, <1>7, <2>1 DEF Compare
    <3>2. QED
      BY <1>1, <1>7, <3>1, HashedObjectsKeep DEF Compare
  <2>2. CASE s = t
    <3>1. held[s] = [tx |-> held[s].tx, hash |-> held[s].hash]
      BY <1>1 DEF TxIInv, Objects
    <3>2. Hashed(held[s]) = [tx |-> held[s].tx, hash |-> HashOf(held[s])]
      BY <3>1, HashedKeeps
    <3>3. HashOf(Hashed(held[s])) = HashOf(held[s])
      BY <3>1, HashedKeeps
    <3>4. Hashed(Hashed(held[s])) = Hashed(held[s])
      BY <3>2, <3>3 DEF Hashed
    <3>5. held' = [u \in Slots |-> IF u \in {s} THEN Hashed(held[u]) ELSE held[u]]
      BY <1>2, <1>7, <2>2, <3>4 DEF Compare
    <3>6. QED
      BY <1>1, <1>7, <3>5, HashedObjectsKeep DEF Compare
  <2>3. QED  BY <2>1, <2>2
<1>8. ASSUME NEW s \in Slots, NEW t \in Slots,
             CopyConstruct(s, t) \/ MoveConstruct(s, t) \/ AssignFrom(s, t) \/ AssignMoved(s, t)
      PROVE  TxIInv'
  <2>1. CASE CopyConstruct(s, t)
    BY <1>1, <2>1, ConstructKeeps DEF CopyConstruct
  <2>2. CASE MoveConstruct(s, t)
    BY <1>1, <2>2, MoveConstructKeeps
  <2>3. CASE AssignFrom(s, t)
    BY <1>1, <2>3, FreshKeeps DEF AssignFrom
  <2>4. CASE AssignMoved(s, t)
    BY <1>1, <2>4, AssignMovedKeeps
  <2>5. QED  BY <1>8, <2>1, <2>2, <2>3, <2>4
<1>9. CASE UNCHANGED transactionState
  BY <1>1, <1>9 DEF transactionState, TxIInv, Objects, Recorded
<1>10. QED
  BY <1>1, <1>3, <1>4, <1>5, <1>6, <1>7, <1>8, <1>9 DEF TransactionsNext

-----------------------------------------------------------------------------

\* Whatever is done with transactions (transaction.cpp:354-572), a hash that is not that of
\* the content belongs to one on record, and the others are equal exactly when their
\* contents are.
THEOREM HashesAreOfContent == TransactionsSpec => []HashIsOfContent
<1>1. TxIInv => HashIsOfContent
  BY DEF TxIInv, Recorded, HashIsOfContent, Equal
<1>2. QED
  BY TxInitIInv, TxStepIInv, <1>1, PTL DEF TransactionsSpec

-----------------------------------------------------------------------------
(***************************************************************************)
(* The circular buffer.                                                    *)
(***************************************************************************)

\* The representation: where head_, tail_ and full_ can be, and what the cells hold.
Shape ==
  /\ cells \in [0..MaxSize - 1 -> Items \cup {NoItem}]
  /\ head \in 0..MaxSize - 1 /\ tail \in 0..MaxSize - 1
  /\ full \in BOOLEAN /\ (full => head = tail)
  /\ queue \in Seq(Items)

\* From the head on, the cells hold the queue.
Holds ==
  /\ Len(queue) = Size
  /\ \A n \in 0..Size - 1 : Cell(n) = queue[n + 1]

BufferIInv == Shape /\ Holds

\* Going round once at most, % is a subtraction.
LEMMA GoingRound ==
  ASSUME NEW a \in Nat, a < MaxSize + MaxSize
  PROVE  a % MaxSize = IF a < MaxSize THEN a ELSE a - MaxSize
<1>1. MaxSize \in Nat \ {0}
  BY BufferAssumption
<1>2. CASE a < MaxSize
  BY <1>1, <1>2
<1>3. CASE a >= MaxSize
  BY <1>1, <1>3
<1>4. QED  BY <1>1, <1>2, <1>3

LEMMA NextCell ==
  ASSUME NEW n \in 0..MaxSize - 1
  PROVE  /\ Successor(n) = IF n + 1 < MaxSize THEN n + 1 ELSE 0
         /\ Successor(n) \in 0..MaxSize - 1
<1>1. n + 1 \in Nat /\ n + 1 < MaxSize + MaxSize /\ MaxSize \in Nat \ {0}
  BY BufferAssumption
<1>2. Successor(n) = IF n + 1 < MaxSize THEN n + 1 ELSE n + 1 - MaxSize
  BY <1>1, GoingRound DEF Successor
<1>3. QED  BY <1>1, <1>2

\* Where the n-th element from the head on is.
Place(n) == IF head + n < MaxSize THEN head + n ELSE head + n - MaxSize

LEMMA PlaceOfCell ==
  ASSUME Shape, NEW n \in 0..MaxSize - 1
  PROVE  Cell(n) = cells[Place(n)] /\ Place(n) \in 0..MaxSize - 1
<1>1. head + n \in Nat /\ head + n < MaxSize + MaxSize /\ MaxSize \in Nat \ {0}
  BY BufferAssumption DEF Shape
<1>2. (head + n) % MaxSize = Place(n)
  <2>1. PICK a \in Nat : a = head + n
    BY <1>1
  <2>2. a % MaxSize = IF a < MaxSize THEN a ELSE a - MaxSize
    BY <1>1, <2>1, GoingRound
  <2>3. QED  BY <1>1, <2>1, <2>2 DEF Place, Shape
<1>3. Place(n) \in 0..MaxSize - 1
  BY BufferAssumption DEF Shape, Place
<1>4. QED  BY <1>2, <1>3 DEF Cell

\* The size, and where the first free cell is.
LEMMA SizeFacts ==
  ASSUME Shape
  PROVE  /\ Size \in 0..MaxSize
         /\ full <=> Size = MaxSize
         /\ Empty <=> Size = 0
         /\ ~full => tail = Place(Size)
<1>1. MaxSize \in Nat \ {0}
  BY BufferAssumption
<1>2. CASE full
  BY <1>1, <1>2 DEF Shape, Size, Empty
<1>3. CASE ~full /\ head <= tail
  <2>1. Size = tail - head
    BY <1>3 DEF Size
  <2>2. QED  BY <1>1, <1>3, <2>1 DEF Shape, Empty, Place
<1>4. CASE ~full /\ ~(head <= tail)
  <2>1. Size = tail + MaxSize - head
    BY <1>4 DEF Size
  <2>2. QED  BY <1>1, <1>4, <2>1 DEF Shape, Empty, Place
<1>5. QED  BY <1>2, <1>3, <1>4

LEMMA BufferInitIInv == BufferInit => BufferIInv
<1> SUFFICES ASSUME BufferInit PROVE BufferIInv
  OBVIOUS
<1>1. Shape
  <2>1. queue \in Seq(Items)
    BY EmptySeq DEF BufferInit
  <2>2. /\ cells \in [0..MaxSize - 1 -> Items \cup {NoItem}]
        /\ head \in 0..MaxSize - 1 /\ tail \in 0..MaxSize - 1 /\ head = tail
    BY BufferAssumption DEF BufferInit
  <2>3. full \in BOOLEAN
    BY DEF BufferInit
  <2>4. QED  BY <2>1, <2>2, <2>3 DEF Shape
<1>2. Size = 0 /\ Len(queue) = 0
  BY DEF BufferInit, Size
<1>3. QED  BY <1>1, <1>2 DEF BufferIInv, Holds

\* push_back on a full buffer: the oldest element gives its cell to the new one.
LEMMA PushOverOldest ==
  ASSUME BufferIInv, NEW item \in Items, PushBack(item), full
  PROVE  BufferIInv'
<1>1. /\ MaxSize \in Nat \ {0} /\ Size = MaxSize /\ head = tail /\ Shape
      /\ Len(queue) = MaxSize /\ queue \in Seq(Items)
  BY BufferAssumption, SizeFacts DEF BufferIInv, Shape, Holds
<1>2. /\ head' = Successor(head) /\ tail' = head' /\ full' = TRUE
      /\ head' = IF head + 1 < MaxSize THEN head + 1 ELSE 0
      /\ head' \in 0..MaxSize - 1
  BY <1>1, NextCell DEF PushBack, NewHead, Shape
<1>3. /\ queue # <<>>
      /\ Tail(queue) \in Seq(Items) /\ Len(Tail(queue)) = MaxSize - 1
      /\ \A i \in 1..MaxSize - 1 : Tail(queue)[i] = queue[i + 1]
  <2>1. queue # <<>>
    BY <1>1, EmptySeq
  <2>2. QED  BY <1>1, <2>1, HeadTailProperties
<1>4. queue' = Append(Tail(queue), item)
  BY <1>1 DEF PushBack
<1>5. /\ queue' \in Seq(Items) /\ Len(queue') = MaxSize
      /\ \A i \in 1..MaxSize - 1 : queue'[i] = queue[i + 1]
      /\ queue'[MaxSize] = item
  <2>1. /\ Append(Tail(queue), item) \in Seq(Items)
        /\ Len(Append(Tail(queue), item)) = Len(Tail(queue)) + 1
        /\ \A i \in 1..Len(Tail(queue)) : Append(Tail(queue), item)[i] = Tail(queue)[i]
        /\ Append(Tail(queue), item)[Len(Tail(queue)) + 1] = item
    BY <1>3, AppendProperties
  <2>2. QED  BY <1>1, <1>3, <1>4, <2>1
<1>6. /\ cells' \in [0..MaxSize - 1 -> Items \cup {NoItem}]
      /\ cells'[head] = item
      /\ \A n \in 0..MaxSize - 1 : n # head => cells'[n] = cells[n]
  BY <1>1 DEF PushBack, Shape
<1>7. Shape'
  BY <1>2, <1>5, <1>6 DEF Shape
<1>8. Size' = MaxSize
  BY <1>2 DEF Size
<1>9. ASSUME NEW n \in 0..MaxSize - 1
      PROVE  Cell(n)' = queue'[n + 1]
  <2>1. Cell(n)' = cells'[Place(n)']
    <3>1. head' + n \in Nat /\ head' + n < MaxSize + MaxSize
      BY <1>1, <1>2
    <3>2. (head' + n) % MaxSize = Place(n)'
      <4>1. PICK a \in Nat : a = head' + n
        BY <3>1
      <4>2. a % MaxSize = IF a < MaxSize THEN a ELSE a - MaxSize
        BY <3>1, <4>1, GoingRound
      <4>3. QED  BY <1>1, <1>2, <4>1, <4>2 DEF Place
    <3>3. QED  BY <3>2 DEF Cell
  <2>2. CASE n = MaxSize - 1
    <3>1. Place(n)' = head
      BY <1>1, <1>2, <2>2 DEF Place, Shape
    <3>2. QED  BY <1>1, <1>5, <1>6, <2>1, <2>2, <3>1
  <2>3. CASE n # MaxSize - 1
    <3>1. n + 1 \in 0..MaxSize - 1 /\ n + 1 \in 1..MaxSize - 1
      BY <1>1, <2>3
    <3>2. Place(n)' = Place(n + 1) /\ Place(n + 1) # head
      BY <1>1, <1>2, <3>1 DEF Place, Shape
    <3>3. Cell(n + 1) = cells[Place(n + 1)] /\ Place(n + 1) \in 0..MaxSize - 1
      BY <1>1, <3>1, PlaceOfCell
    <3>4. Cell(n + 1) = queue[n + 2]
      BY <1>1, <3>1 DEF BufferIInv, Holds
    <3>5. queue'[n + 1] = queue[n + 2]
      BY <1>1, <1>5, <3>1
    <3>6. QED  BY <1>6, <2>1, <3>2, <3>3, <3>4, <3>5
  <2>4. QED  BY <2>2, <2>3
<1>10. QED  BY <1>5, <1>7, <1>8, <1>9 DEF BufferIInv, Holds

\* push_back otherwise: the new element gets the cell behind the last.
LEMMA PushBehindLast ==
  ASSUME BufferIInv, NEW item \in Items, PushBack(item), ~full
  PROVE  BufferIInv'
<1>1. /\ MaxSize \in Nat \ {0} /\ Shape
      /\ Size \in 0..MaxSize /\ Size # MaxSize /\ tail = Place(Size)
      /\ Len(queue) = Size /\ queue \in Seq(Items)
  BY BufferAssumption, SizeFacts DEF BufferIInv, Shape, Holds
<1>2. /\ head' = head
      /\ tail' = IF tail + 1 < MaxSize THEN tail + 1 ELSE 0
      /\ tail' \in 0..MaxSize - 1
      /\ full' = (head' = tail')
  BY <1>1, NextCell DEF PushBack, NewHead, Shape
<1>3. queue' = Append(queue, item)
  BY <1>1 DEF PushBack
<1>4. /\ queue' \in Seq(Items) /\ Len(queue') = Size + 1
      /\ \A i \in 1..Size : queue'[i] = queue[i]
      /\ queue'[Size + 1] = item
  BY <1>1, <1>3, AppendProperties
<1>5. /\ cells' \in [0..MaxSize - 1 -> Items \cup {NoItem}]
      /\ cells'[tail] = item
      /\ \A n \in 0..MaxSize - 1 : n # tail => cells'[n] = cells[n]
  BY <1>1 DEF PushBack, Shape
<1>6. full' \in BOOLEAN /\ (full' <=> head' = tail')
  BY <1>2
<1>7. Shape'
  BY <1>1, <1>2, <1>4, <1>5, <1>6 DEF Shape
<1>8. Size' = Size + 1
  <2>1. CASE full'
    <3>1. Size' = MaxSize
      BY <2>1 DEF Size
    <3>2. QED  BY <1>1, <1>2, <1>6, <2>1, <3>1 DEF Place, Shape
  <2>2. CASE ~full' /\ head' <= tail'
    <3>1. Size' = tail' - head'
      BY <2>2 DEF Size
    <3>2. QED  BY <1>1, <1>2, <1>6, <2>2, <3>1 DEF Place, Shape
  <2>3. CASE ~full' /\ ~(head' <= tail')
    <3>1. Size' = tail' + MaxSize - head'
      BY <2>3 DEF Size
    <3>2. QED  BY <1>1, <1>2, <1>6, <2>3, <3>1 DEF Place, Shape
  <2>4. QED  BY <2>1, <2>2, <2>3
<1>9. ASSUME NEW n \in 0..Size
      PROVE  Cell(n)' = queue'[n + 1]
  <2>1. n \in 0..MaxSize - 1
    BY <1>1
  <2>2. Cell(n)' = cells'[Place(n)] /\ Place(n) \in 0..MaxSize - 1
    <3>1. PICK a \in Nat : a = head + n /\ a < MaxSize + MaxSize
      BY <1>1, <2>1 DEF Shape
    <3>2. a % MaxSize = IF a < MaxSize THEN a ELSE a - MaxSize
      BY <3>1, GoingRound
    <3>3. (head + n) % MaxSize = Place(n) /\ Place(n) \in 0..MaxSize - 1
      BY <1>1, <2>1, <3>1, <3>2 DEF Place, Shape
    <3>4. QED  BY <1>2, <3>3 DEF Cell
  <2>3. CASE n = Size
    BY <1>1, <1>4, <1>5, <2>2, <2>3
  <2>4. CASE n # Size
    <3>1. n \in 0..Size - 1 /\ n + 1 \in 1..Size
      BY <1>1, <2>4
    <3>2. Place(n) # tail
      BY <1>1, <3>1 DEF Place, Shape
    <3>3. Cell(n) = cells[Place(n)]
      BY <1>1, <2>1, PlaceOfCell
    <3>4. Cell(n) = queue[n + 1]
      BY <3>1 DEF BufferIInv, Holds
    <3>5. QED  BY <1>4, <1>5, <2>2, <3>1, <3>2, <3>3, <3>4
  <2>5. QED  BY <2>3, <2>4
<1>10. QED  BY <1>1, <1>4, <1>7, <1>8, <1>9 DEF BufferIInv, Holds

LEMMA PopFrontKeeps ==
  ASSUME BufferIInv, PopFront
  PROVE  BufferIInv'
<1>1. /\ MaxSize \in Nat \ {0} /\ Shape
      /\ Size \in 1..MaxSize /\ (full <=> Size = MaxSize) /\ (~full => tail = Place(Size))
      /\ Len(queue) = Size /\ queue \in Seq(Items)
  BY BufferAssumption, SizeFacts DEF BufferIInv, Shape, Holds, PopFront
<1>2. /\ head' = IF head + 1 < MaxSize THEN head + 1 ELSE 0
      /\ head' \in 0..MaxSize - 1
      /\ cells' = cells /\ tail' = tail /\ full' = FALSE
  BY <1>1, NextCell DEF PopFront, Shape
<1>3. /\ queue' \in Seq(Items) /\ Len(queue') = Size - 1
      /\ \A i \in 1..Size - 1 : queue'[i] = queue[i + 1]
  <2>1. queue # <<>>
    BY <1>1, EmptySeq
  <2>2. QED  BY <1>1, <2>1, HeadTailProperties DEF PopFront
<1>4. Shape'
  BY <1>1, <1>2, <1>3 DEF Shape
<1>5. Size' = Size - 1
  <2>1. Size' = IF head' <= tail THEN tail - head' ELSE tail + MaxSize - head'
    BY <1>2 DEF Size
  <2>2. CASE full
    BY <1>1, <1>2, <2>1, <2>2 DEF Shape
  <2>3. CASE ~full
    BY <1>1, <1>2, <2>1, <2>3 DEF Shape, Place
  <2>4. QED  BY <2>2, <2>3
<1>6. ASSUME NEW n \in 0..Size - 2
      PROVE  Cell(n)' = queue'[n + 1]
  <2>1. n + 1 \in 0..MaxSize - 1 /\ n + 1 \in 0..Size - 1 /\ n + 1 \in 1..Size - 1
    BY <1>1
  <2>2. Cell(n)' = cells[Place(n + 1)]
    <3>1. PICK a \in Nat : a = head' + n /\ a < MaxSize + MaxSize
      BY <1>1, <1>2
    <3>2. a % MaxSize = IF a < MaxSize THEN a ELSE a - MaxSize
      BY <3>1, GoingRound
    <3>3. (head' + n) % MaxSize = Place(n + 1)
      BY <1>1, <1>2, <2>1, <3>1, <3>2 DEF Place, Shape
    <3>4. QED  BY <1>2, <3>3 DEF Cell
  <2>3. Cell(n + 1) = cells[Place(n + 1)]
    BY <1>1, <2>1, PlaceOfCell
  <2>4. Cell(n + 1) = queue[n + 2]
    BY <1>1, <2>1 DEF BufferIInv, Holds
  <2>5. queue'[n + 1] = queue[n + 2]
    BY <1>1, <1>3, <2>1
  <2>6. QED  BY <2>2, <2>3, <2>4, <2>5
<1>7. QED  BY <1>1, <1>3, <1>4, <1>5, <1>6 DEF BufferIInv, Holds

LEMMA ClearKeeps ==
  ASSUME BufferIInv, Clear
  PROVE  BufferIInv'
<1>1. Shape'
  <2>1. queue' \in Seq(Items)
    BY EmptySeq DEF Clear
  <2>2. QED  BY <2>1 DEF BufferIInv, Shape, Clear
<1>2. Size' = 0 /\ Len(queue') = 0
  BY <1>1 DEF Clear, Size, Shape
<1>3. QED  BY <1>1, <1>2 DEF BufferIInv, Holds

LEMMA BufferStepIInv == BufferIInv /\ [BufferNext]_bufferState => BufferIInv'
<1>1. SUFFICES ASSUME BufferIInv, [BufferNext]_bufferState PROVE BufferIInv'
  OBVIOUS
<1>2. ASSUME NEW item \in Items, PushBack(item) PROVE BufferIInv'
  BY <1>1, <1>2, PushOverOldest, PushBehindLast
<1>3. CASE PopFront
  BY <1>1, <1>3, PopFrontKeeps
<1>4. CASE Clear
  BY <1>1, <1>4, ClearKeeps
<1>5. CASE UNCHANGED bufferState
  BY <1>1, <1>5 DEF bufferState, BufferIInv, Shape, Holds, Size, Cell
<1>6. QED  BY <1>1, <1>2, <1>3, <1>4, <1>5 DEF BufferNext

\* exist looks at the first size() cells: where the buffer begins at cell 0 or is full,
\* these are the cells of the queue.
LEMMA ExistSeesTheQueue ==
  ASSUME BufferIInv, head = 0 \/ full, NEW item \in Items
  PROVE  Exist(item) <=> \E i \in 1..Len(queue) : queue[i] = item
<1>1. /\ MaxSize \in Nat \ {0} /\ Shape
      /\ Size \in 0..MaxSize /\ (full <=> Size = MaxSize) /\ Len(queue) = Size
  BY BufferAssumption, SizeFacts DEF BufferIInv, Holds
<1>2. ASSUME NEW n \in 0..Size - 1
      PROVE  queue[n + 1] = cells[Place(n)]
  <2>1. n \in 0..MaxSize - 1
    BY <1>1
  <2>2. Cell(n) = queue[n + 1]
    BY DEF BufferIInv, Holds
  <2>3. QED  BY <1>1, <2>1, <2>2, PlaceOfCell
<1>3. CASE head = 0
  <2>1. \A n \in 0..Size - 1 : Place(n) = n
    BY <1>1, <1>3 DEF Place
  <2>2. \A n \in 0..Size - 1 : queue[n + 1] = cells[n]
    BY <1>2, <2>1
  <2>3. ASSUME NEW n \in 0..Size - 1, cells[n] = item
        PROVE  \E i \in 1..Len(queue) : queue[i] = item
    <3>1. n + 1 \in 1..Len(queue)
      BY <1>1
    <3>2. QED  BY <2>2, <2>3, <3>1
  <2>4. ASSUME NEW i \in 1..Len(queue), queue[i] = item
        PROVE  \E n \in 0..Size - 1 : cells[n] = item
    <3>1. i - 1 \in 0..Size - 1 /\ (i - 1) + 1 = i
      BY <1>1
    <3>2. QED  BY <2>2, <2>4, <3>1
  <2>5. QED  BY <2>3, <2>4 DEF Exist
<1>4. CASE full
  <2>1. ASSUME NEW n \in 0..Size - 1, cells[n] = item
        PROVE  \E i \in 1..Len(queue) : queue[i] = item
    <3> DEFINE m == IF n >= head THEN n - head ELSE n + MaxSize - head
    <3>1. m \in 0..Size - 1 /\ m + 1 \in 1..Len(queue) /\ Place(m) = n
      BY <1>1, <1>4, <2>1 DEF Place, Shape
    <3> HIDE DEF m
    <3>2. queue[m + 1] = item
      BY <1>2, <2>1, <3>1
    <3>3. QED  BY <3>1, <3>2
  <2>2. ASSUME NEW i \in 1..Len(queue), queue[i] = item
        PROVE  \E n \in 0..Size - 1 : cells[n] = item
    <3>1. i - 1 \in 0..Size - 1
      BY <1>1
    <3>2. cells[Place(i - 1)] = item
      BY <1>1, <1>2, <2>2, <3>1
    <3>3. Place(i - 1) \in 0..Size - 1
      BY <1>1, <1>4, <3>1 DEF Place, Shape
    <3>4. QED  BY <3>2, <3>3
  <2>3. QED  BY <2>1, <2>2 DEF Exist
<1>5. QED  BY <1>3, <1>4

\* Whatever push_back, pop_front and clear did before (circular_buffer.h), and however
\* large the buffer, it is the queue of the last max_size_ items pushed and not taken.
THEOREM BufferIsAQueue == BufferSpec => []BufferIsQueue
<1>1. ASSUME BufferIInv PROVE BufferIsQueue
  <2>1. Size = Len(queue) /\ \A n \in 0..Size - 1 : Cell(n) = queue[n + 1]
    BY <1>1 DEF BufferIInv, Holds
  <2>2. Empty = (queue = <<>>)
    <3>1. Empty <=> Size = 0
      BY <1>1, SizeFacts DEF BufferIInv
    <3>2. queue = <<>> <=> Len(queue) = 0
      BY <1>1, EmptySeq DEF BufferIInv, Shape
    <3>3. Empty \in BOOLEAN
      BY DEF Empty
    <3>4. QED  BY <2>1, <3>1, <3>2 DEF Empty
  <2>3. \A item \in Items :
          head = 0 \/ full => Exist(item) = \E i \in 1..Len(queue) : queue[i] = item
    BY <1>1, ExistSeesTheQueue DEF Exist
  <2>4. QED  BY <2>1, <2>2, <2>3 DEF BufferIsQueue
<1>2. QED
  BY BufferInitIInv, BufferStepIInv, <1>1, PTL DEF BufferSpec

-----------------------------------------------------------------------------
(***************************************************************************)
(* The adjusted time.                                                      *)
(***************************************************************************)

\* s is v in ascending order.
Sorts(s, v) ==
  /\ Len(s) = Len(v)
  /\ \E p \in [DOMAIN v -> DOMAIN v] :
       /\ \A i, j \in DOMAIN v : p[i] = p[j] => i = j
       /\ s = [i \in DOMAIN v |-> v[p[i]]]
       /\ \A i, j \in DOMAIN v : i < j => s[i] <= s[j]

LEMMA IntervalSize ==
  ASSUME NEW a \in Int, NEW b \in Int, a <= b + 1
  PROVE  IsFiniteSet(a..b) /\ Cardinality(a..b) = b - a + 1
<1>1. IsFiniteSet(a..b) /\ Cardinality(a..b) = IF a > b THEN 0 ELSE b - a + 1
  BY FS_Interval
<1>2. CASE a > b
  BY <1>1, <1>2
<1>3. CASE ~(a > b)
  BY <1>1, <1>3
<1>4. QED  BY <1>2, <1>3

\* An injection of 1..n into itself puts no more of it into S than K has members.
LEMMA PlacedIn ==
  ASSUME NEW n \in Nat, NEW p \in [1..n -> 1..n],
         \A i, j \in 1..n : p[i] = p[j] => i = j,
         NEW S \in SUBSET (1..n), NEW K, IsFiniteSet(K),
         \A j \in 1..n : p[j] \in S => j \in K
  PROVE  /\ IsFiniteSet(S)
         /\ Cardinality(S) \in Nat /\ Cardinality(K) \in Nat
         /\ Cardinality(S) <= Cardinality(K)
<1>1. IsFiniteSet(1..n)
  BY FS_Interval
<1>2. p \in Injection(1..n, 1..n)
  BY DEF Injection, IsInjective
<1>3. p \in Surjection(1..n, 1..n)
  BY <1>1, <1>2, FS_Injection
<1>4. \A i \in 1..n : \E j \in 1..n : p[j] = i
  BY <1>3 DEF Surjection
<1> DEFINE J == {j \in 1..n : p[j] \in S}
           f == [j \in J |-> p[j]]
<1>5. J \in SUBSET K
  OBVIOUS
<1>6. IsFiniteSet(J) /\ Cardinality(J) <= Cardinality(K)
  BY <1>5, FS_Subset
<1>7. f \in Surjection(J, S)
  <2>1. f \in [J -> S]
    OBVIOUS
  <2>2. \A i \in S : \E j \in J : f[j] = i
    BY <1>4
  <2> HIDE DEF J, f
  <2>3. QED  BY <2>1, <2>2 DEF Surjection
<1> HIDE DEF J, f
<1>8. IsFiniteSet(S) /\ Cardinality(S) <= Cardinality(J)
  BY <1>6, <1>7, FS_Surjection
<1>9. Cardinality(S) \in Nat /\ Cardinality(J) \in Nat /\ Cardinality(K) \in Nat
  BY <1>6, <1>8, FS_CardinalityType
<1>10. QED  BY <1>6, <1>8, <1>9

\* The element in the middle of the sorted values has less than half of them on either side.
LEMMA MedianInTheMiddle ==
  ASSUME values \in Seq(Int), Len(values) % 2 = 1, Sorts(sorted, values)
  PROVE  Median \in Int /\ InTheMiddle(Median)
<1> DEFINE n == Len(values)
           k == n \div 2
           m == sorted[k + 1]
<1>1. n \in Nat /\ k \in Nat /\ n = k + k + 1 /\ DOMAIN values = 1..n
  BY LenProperties
<1>2. Median = m
  BY DEF Median, Sorts
<1>3. PICK p \in [1..n -> 1..n] :
        /\ \A i, j \in 1..n : p[i] = p[j] => i = j
        /\ sorted = [i \in 1..n |-> values[p[i]]]
        /\ \A i, j \in 1..n : i < j => sorted[i] <= sorted[j]
  BY <1>1 DEF Sorts
<1> HIDE DEF n, k
<1>4. \A i \in 1..n : values[i] \in Int
  BY <1>1, ElementOfSeq DEF n
<1>5. \A i \in 1..n : sorted[i] = values[p[i]] /\ sorted[i] \in Int
  BY <1>3, <1>4
<1>6. k + 1 \in 1..n /\ m \in Int
  BY <1>1, <1>5
<1>a. \A j \in 1..n : (k + 1 < j => m <= sorted[j]) /\ (j < k + 1 => sorted[j] <= m)
  BY <1>3, <1>6
<1>b. \A j \in 1..n : j = k + 1 => sorted[j] = m
  OBVIOUS
<1> HIDE DEF m
<1> DEFINE low == {i \in 1..n : values[i] < m}
           high == {i \in 1..n : values[i] > m}
<1>7. 2 * Cardinality(low) < n
  <2>1. ASSUME NEW j \in 1..n, p[j] \in low  PROVE j \in 1..k
    <3>1. sorted[j] < m
      BY <1>5, <2>1
    <3>2. j \in 1..n /\ sorted[j] \in Int
      BY <1>5, <2>1
    <3>3. ~(k + 1 < j)
      BY ONLY <1>6, <1>a, <3>1, <3>2
    <3>4. j # k + 1
      BY ONLY <1>6, <1>b, <3>1, <3>2
    <3>5. QED  BY <1>1, <3>2, <3>3, <3>4
  <2>2. IsFiniteSet(1..k) /\ Cardinality(1..k) = k
    <3>1. 1 \in Int /\ k \in Int /\ 1 <= k + 1 /\ k - 1 + 1 = k
      BY <1>1
    <3>2. QED  BY ONLY <3>1, IntervalSize
  <2>3. low \in SUBSET (1..n)
    OBVIOUS
  <2> HIDE DEF low
  <2>4. Cardinality(low) \in Nat /\ Cardinality(low) <= k
    <3>1. \A j \in 1..n : p[j] \in low => j \in 1..k
      BY <2>1
    <3>2. /\ n \in Nat /\ p \in [1..n -> 1..n]
          /\ \A i, j \in 1..n : p[i] = p[j] => i = j
      BY <1>1, <1>3
    <3> DEFINE K == 1..k
    <3>3. IsFiniteSet(K) /\ Cardinality(K) = k /\ \A j \in 1..n : p[j] \in low => j \in K
      BY <2>2, <3>1
    <3> HIDE DEF K
    <3>4. Cardinality(low) \in Nat /\ Cardinality(low) <= Cardinality(K)
      BY ONLY <2>3, <3>2, <3>3, PlacedIn
    <3>5. QED  BY <3>3, <3>4
  <2>5. QED  BY <1>1, <2>4
<1>8. 2 * Cardinality(high) < n
  <2>1. ASSUME NEW j \in 1..n, p[j] \in high  PROVE j \in (k + 2)..n
    <3>1. sorted[j] > m
      BY <1>5, <2>1
    <3>2. j \in 1..n /\ sorted[j] \in Int
      BY <1>5, <2>1
    <3>3. ~(j < k + 1)
      BY ONLY <1>6, <1>a, <3>1, <3>2
    <3>4. j # k + 1
      BY ONLY <1>6, <1>b, <3>1, <3>2
    <3>5. QED  BY <1>1, <3>2, <3>3, <3>4
  <2>2. IsFiniteSet((k + 2)..n) /\ Cardinality((k + 2)..n) = k
    <3>1. k + 2 \in Int /\ n \in Int /\ k + 2 <= n + 1 /\ n - (k + 2) + 1 = k
      BY <1>1
    <3>2. IsFiniteSet((k + 2)..n) /\ Cardinality((k + 2)..n) = n - (k + 2) + 1
      BY <3>1, IntervalSize
    <3>3. QED  BY <3>1, <3>2
  <2>3. high \in SUBSET (1..n)
    OBVIOUS
  <2> HIDE DEF high
  <2>4. Cardinality(high) \in Nat /\ Cardinality(high) <= k
    <3>1. \A j \in 1..n : p[j] \in high => j \in (k + 2)..n
      BY <2>1
    <3>2. /\ n \in Nat /\ p \in [1..n -> 1..n]
          /\ \A i, j \in 1..n : p[i] = p[j] => i = j
      BY <1>1, <1>3
    <3> DEFINE K == (k + 2)..n
    <3>3. IsFiniteSet(K) /\ Cardinality(K) = k /\ \A j \in 1..n : p[j] \in high => j \in K
      BY <2>2, <3>1
    <3> HIDE DEF K
    <3>4. Cardinality(high) \in Nat /\ Cardinality(high) <= Cardinality(K)
      BY ONLY <2>3, <3>2, <3>3, PlacedIn
    <3>5. QED  BY <3>3, <3>4
  <2>5. QED  BY <1>1, <2>4
<1>9. QED
  BY <1>2, <1>6, <1>7, <1>8 DEF InTheMiddle, n

\* There is no room for two: what is below the larger or above the smaller is everything.
LEMMA OneMiddle ==
  ASSUME values \in Seq(Int), NEW u \in Int, NEW v \in Int, u < v
  PROVE  ~(InTheMiddle(u) /\ InTheMiddle(v))
<1> SUFFICES ASSUME InTheMiddle(u), InTheMiddle(v) PROVE FALSE
  OBVIOUS
<1> DEFINE n == Len(values)
           below == {i \in 1..n : values[i] < v}
           above == {i \in 1..n : values[i] > u}
<1>1. n \in Nat /\ \A i \in 1..n : values[i] \in Int
  BY LenProperties, ElementOfSeq
<1>2. 2 * Cardinality(below) < n /\ 2 * Cardinality(above) < n
  BY DEF InTheMiddle
<1> HIDE DEF n
<1>3. below \cup above = 1..n
  BY <1>1
<1>4. below \in SUBSET (1..n) /\ above \in SUBSET (1..n)
  OBVIOUS
<1>5. IsFiniteSet(1..n) /\ Cardinality(1..n) = n
  <2>1. 1 \in Int /\ n \in Int /\ 1 <= n + 1 /\ n - 1 + 1 = n
    BY <1>1
  <2>2. QED  BY ONLY <2>1, IntervalSize
<1> HIDE DEF below, above
<1>6. IsFiniteSet(below) /\ IsFiniteSet(above) /\ IsFiniteSet(below \cap above)
  <2>1. IsFiniteSet(below) /\ IsFiniteSet(above)
    BY <1>4, <1>5, FS_Subset
  <2>2. below \cap above \in SUBSET below
    OBVIOUS
  <2>3. QED  BY <2>1, <2>2, FS_Subset
<1>7. /\ Cardinality(below) \in Nat /\ Cardinality(above) \in Nat
      /\ Cardinality(below \cap above) \in Nat
  BY <1>6, FS_CardinalityType
<1>8. n = Cardinality(below) + Cardinality(above) - Cardinality(below \cap above)
  BY <1>3, <1>5, <1>6, FS_Union
<1>9. QED  BY <1>1, <1>2, <1>7, <1>8

-----------------------------------------------------------------------------

Sample(at) == [at : at, addr : Samplers, sample : Offsets]
Steps == {"insert", "input", "sort", "size", "median"}

TimeShape ==
  /\ call \in [Handlers -> {NoCall} \cup Sample(Steps)]
  /\ IsFiniteSet(setKnown)
  /\ values \in Seq(Int)
  /\ offset \in -MaxOffset..MaxOffset

\* What SetOffset has established, and every new value puts in question.
Settled ==
  SizeCounts => \/ InTheMiddle(offset)
                \/ offset = 0 /\ ~\E v \in -MaxOffset..MaxOffset : InTheMiddle(v)

\* What is known where no two calls have overlapped.
Alone == \A g, h \in Handlers : call[g].at # "none" /\ call[h].at # "none" => g = h
Samples ==
  /\ Cardinality(setKnown) <= MaxTimedataSamples
  /\ \A h \in Handlers : call[h].at = "insert" => Cardinality(setKnown) # MaxTimedataSamples
Stages ==
  /\ \A h \in Handlers : call[h].at \in {"size", "median"} => Sorts(sorted, values)
  /\ \A h \in Handlers : call[h].at = "median" => SizeCounts
  /\ (\A h \in Handlers : call[h].at \in {"none", "insert", "input"}) => Settled
Calm == Alone /\ Samples /\ Stages

TimeIInv == TimeShape /\ (~raced => Calm)

LEMMA TimeInitIInv == TimeInit => TimeIInv
<1> SUFFICES ASSUME TimeInit PROVE TimeIInv
  OBVIOUS
<1>1. TimeShape
  BY TimeAssumption, FS_EmptySet DEF TimeInit, TimeShape
<1>2. Alone /\ Samples
  BY TimeAssumption, FS_EmptySet DEF TimeInit, NoCall, Alone, Samples
<1>3. Settled
  <2>1. Len(values) = 1 /\ \A i \in 1..Len(values) : values[i] = 0
    BY DEF TimeInit
  <2>2. /\ {i \in 1..Len(values) : values[i] < offset} = {}
        /\ {i \in 1..Len(values) : values[i] > offset} = {}
    BY <2>1 DEF TimeInit
  <2>3. InTheMiddle(offset)
    BY <2>1, <2>2, FS_EmptySet DEF InTheMiddle
  <2>4. QED  BY <2>3 DEF Settled
<1>4. Stages
  BY <1>3 DEF TimeInit, NoCall, Stages
<1>5. QED  BY <1>1, <1>2, <1>4 DEF TimeIInv, Calm

\* The calls after a step of one handler.
LEMMA OneCallGoes ==
  ASSUME TimeShape, NEW h \in Handlers, call[h].at # "none", NEW at \in Steps, Goes(h, at)
  PROVE  /\ call' \in [Handlers -> {NoCall} \cup Sample(Steps)]
         /\ call'[h].at = at
         /\ \A g \in Handlers : g # h => call'[g] = call[g]
<1>1. call[h] \in Sample(Steps)
  BY DEF TimeShape, NoCall
<1>2. [call[h] EXCEPT !.at = at] \in Sample(Steps) /\ [call[h] EXCEPT !.at = at].at = at
  BY <1>1 DEF Sample
<1>3. call' = [call EXCEPT ![h] = [call[h] EXCEPT !.at = at]]
  BY DEF Goes
<1>4. QED  BY <1>2, <1>3 DEF TimeShape

LEMMA OneCallReturns ==
  ASSUME TimeShape, NEW h \in Handlers, Returns(h)
  PROVE  /\ call' \in [Handlers -> {NoCall} \cup Sample(Steps)]
         /\ call'[h].at = "none"
         /\ \A g \in Handlers : g # h => call'[g] = call[g]
  BY DEF TimeShape, Returns, NoCall

\* A call that is the only one stays so, whether it goes on or returns.
LEMMA StillAlone ==
  ASSUME Alone, NEW h \in Handlers, call[h].at # "none",
         \A g \in Handlers : g # h => call'[g] = call[g]
  PROVE  Alone' /\ \A g \in Handlers : g # h => call'[g].at = "none"
  BY DEF Alone

LEMMA AddTimeDataKeeps ==
  ASSUME TimeIInv, NEW h \in Handlers, AddTimeData(h)
  PROVE  TimeIInv'
<1>1. PICK a \in Samplers, o \in Offsets :
        call' = [call EXCEPT ![h] = [at |-> "insert", addr |-> a, sample |-> o]]
  BY DEF AddTimeData
<1>2. /\ setKnown' = setKnown /\ values' = values /\ sorted' = sorted /\ offset' = offset
      /\ call[h].at = "none" /\ Cardinality(setKnown) # MaxTimedataSamples
      /\ raced' = (raced \/ \E other \in Handlers : call[other].at # "none")
  BY DEF AddTimeData
<1>3. TimeShape'
  <2>1. [at |-> "insert", addr |-> a, sample |-> o] \in Sample(Steps)
    BY DEF Sample, Steps
  <2>2. call' \in [Handlers -> {NoCall} \cup Sample(Steps)]
    BY <1>1, <2>1 DEF TimeIInv, TimeShape
  <2>3. QED  BY <1>2, <2>2 DEF TimeIInv, TimeShape
<1>4. ASSUME ~raced'  PROVE Calm'
  <2>1. ~raced /\ \A other \in Handlers : call[other].at = "none"
    BY <1>2, <1>4, Zenon
  <2>2. call'[h].at = "insert" /\ \A g \in Handlers : g # h => call'[g].at = "none"
    BY <1>1, <2>1 DEF TimeIInv, TimeShape
  <2>3. Alone'
    BY <2>2 DEF Alone
  <2>4. Samples'
    BY <1>2, <2>1 DEF TimeIInv, Calm, Samples
  <2>5. Settled'
    <3>1. Settled
      BY <2>1 DEF TimeIInv, Calm, Stages
    <3>2. QED  BY <1>2, <3>1 DEF Settled, SizeCounts, InTheMiddle
  <2>6. \A g \in Handlers : call'[g].at \in {"none", "insert"}
    BY <2>2
  <2>7. Stages'
    BY <2>5, <2>6 DEF Stages
  <2>8. QED  BY <2>3, <2>4, <2>7 DEF Calm
<1>5. QED  BY <1>3, <1>4 DEF TimeIInv

LEMMA InsertKeeps ==
  ASSUME TimeIInv, NEW h \in Handlers, Insert(h)
  PROVE  TimeIInv'
<1>1. /\ values' = values /\ sorted' = sorted /\ offset' = offset /\ raced' = raced
      /\ call[h].at = "insert" /\ setKnown' = setKnown \cup {call[h].addr}
      /\ Returns(h) \/ Goes(h, "input")
  BY DEF Insert
<1>2. /\ call' \in [Handlers -> {NoCall} \cup Sample(Steps)]
      /\ call'[h].at \in {"none", "input"}
      /\ \A g \in Handlers : g # h => call'[g] = call[g]
  BY <1>1, OneCallReturns, OneCallGoes DEF TimeIInv, Steps
<1>3. /\ IsFiniteSet(setKnown)
      /\ IsFiniteSet(setKnown')
      /\ Cardinality(setKnown') \in {Cardinality(setKnown), Cardinality(setKnown) + 1}
      /\ Cardinality(setKnown) \in Nat
  BY <1>1, FS_AddElement, FS_CardinalityType DEF TimeIInv, TimeShape
<1>4. TimeShape'
  BY <1>1, <1>2, <1>3 DEF TimeIInv, TimeShape
<1>5. ASSUME ~raced'  PROVE Calm'
  <2>1. Calm
    BY <1>1, <1>5 DEF TimeIInv
  <2>2. Alone' /\ \A g \in Handlers : call'[g].at \in {"none", "input"}
    BY <1>1, <1>2, <2>1, StillAlone DEF Calm
  <2>3. Samples'
    <3>1. /\ Cardinality(setKnown) <= MaxTimedataSamples
          /\ Cardinality(setKnown) # MaxTimedataSamples
      BY <1>1, <2>1 DEF Calm, Samples
    <3>2. Cardinality(setKnown') <= MaxTimedataSamples
      BY <1>3, <3>1, TimeAssumption
    <3>3. QED  BY <2>2, <3>2 DEF Samples
  <2>4. Settled
    <3>1. \A g \in Handlers : g # h => call[g].at = "none"
      BY <1>1, <2>1 DEF Calm, Alone
    <3>2. QED  BY <1>1, <2>1, <3>1 DEF Calm, Stages
  <2>5. Settled'
    BY <1>1, <2>4 DEF Settled, SizeCounts, InTheMiddle
  <2>6. Stages'
    BY <2>2, <2>5 DEF Stages
  <2>7. QED  BY <2>2, <2>3, <2>6 DEF Calm
<1>6. QED  BY <1>4, <1>5 DEF TimeIInv

LEMMA InputKeeps ==
  ASSUME TimeIInv, NEW h \in Handlers, Input(h)
  PROVE  TimeIInv'
<1>1. /\ setKnown' = setKnown /\ sorted' = sorted /\ offset' = offset /\ raced' = raced
      /\ call[h].at = "input" /\ Goes(h, "sort")
  BY DEF Input
<1>2. /\ call' \in [Handlers -> {NoCall} \cup Sample(Steps)]
      /\ call'[h].at = "sort"
      /\ \A g \in Handlers : g # h => call'[g] = call[g]
  BY <1>1, OneCallGoes DEF TimeIInv, Steps
<1>3. values' \in Seq(Int)
  <2>1. call[h].sample \in Int
    <3>1. call[h] \in Sample(Steps)
      BY <1>1 DEF TimeIInv, TimeShape, NoCall
    <3>2. QED  BY <3>1, TimeAssumption DEF Sample
  <2>2. CASE Len(values) = MaxTimedataSamples
    <3>1. values # <<>>
      BY <2>2, TimeAssumption, EmptySeq DEF TimeIInv, TimeShape
    <3>2. Tail(values) \in Seq(Int)
      BY <3>1, HeadTailProperties DEF TimeIInv, TimeShape
    <3>3. QED  BY <2>1, <2>2, <3>2, AppendProperties DEF Input
  <2>3. CASE Len(values) # MaxTimedataSamples
    BY <2>1, <2>3, AppendProperties DEF Input, TimeIInv, TimeShape
  <2>4. QED  BY <2>2, <2>3
<1>4. TimeShape'
  BY <1>1, <1>2, <1>3 DEF TimeIInv, TimeShape
<1>5. ASSUME ~raced'  PROVE Calm'
  <2>1. Calm
    BY <1>1, <1>5 DEF TimeIInv
  <2>2. Alone' /\ \A g \in Handlers : g # h => call'[g].at = "none"
    BY <1>1, <1>2, <2>1, StillAlone DEF Calm
  <2>3. \A g \in Handlers : call'[g].at \in {"none", "sort"}
    BY <1>2, <2>2
  <2>4. Samples'
    BY <1>1, <2>1, <2>3 DEF Calm, Samples
  <2>5. Stages'
    BY <1>2, <2>3 DEF Stages
  <2>6. QED  BY <2>2, <2>4, <2>5 DEF Calm
<1>6. QED  BY <1>4, <1>5 DEF TimeIInv

LEMMA SortKeeps ==
  ASSUME TimeIInv, NEW h \in Handlers, Sort(h)
  PROVE  TimeIInv'
<1>1. /\ setKnown' = setKnown /\ values' = values /\ offset' = offset /\ raced' = raced
      /\ call[h].at = "sort" /\ Goes(h, "size")
  BY DEF Sort
<1>2. /\ call' \in [Handlers -> {NoCall} \cup Sample(Steps)]
      /\ call'[h].at = "size"
      /\ \A g \in Handlers : g # h => call'[g] = call[g]
  BY <1>1, OneCallGoes DEF TimeIInv, Steps
<1>3. TimeShape'
  BY <1>1, <1>2 DEF TimeIInv, TimeShape
<1>4. Sorts(sorted', values)
  <2>1. PICK p \in Orders :
          /\ sorted' = [i \in DOMAIN values |-> values[p[i]]]
          /\ \A i, j \in DOMAIN values : i < j => sorted'[i] <= sorted'[j]
    BY DEF Sort
  <2>2. /\ p \in [DOMAIN values -> DOMAIN values]
        /\ \A i, j \in DOMAIN values : p[i] = p[j] => i = j
    BY DEF Orders
  <2>3. Len(sorted') = Len(values)
    <3>1. Len(values) \in Nat /\ DOMAIN values = 1..Len(values)
      BY LenProperties DEF TimeIInv, TimeShape
    <3>2. \A i \in 1..Len(values) : values[p[i]] \in Int
      BY <2>2, <3>1, ElementOfSeq DEF TimeIInv, TimeShape
    <3>3. sorted' \in [1..Len(values) -> Int]
      BY <2>1, <3>1, <3>2
    <3>4. sorted' \in Seq(Int)
      BY <3>1, <3>3, SeqDef
    <3>5. QED  BY <3>1, <3>3, <3>4, LenProperties
  <2>4. QED  BY <2>1, <2>2, <2>3 DEF Sorts
<1>5. ASSUME ~raced'  PROVE Calm'
  <2>1. Calm
    BY <1>1, <1>5 DEF TimeIInv
  <2>2. Alone' /\ \A g \in Handlers : g # h => call'[g].at = "none"
    BY <1>1, <1>2, <2>1, StillAlone DEF Calm
  <2>3. \A g \in Handlers : call'[g].at \in {"none", "size"}
    BY <1>2, <2>2
  <2>4. Samples'
    BY <1>1, <2>1, <2>3 DEF Calm, Samples
  <2>5. Sorts(sorted, values)'
    BY <1>1, <1>4 DEF Sorts
  <2>6. Stages'
    BY <1>2, <2>3, <2>5 DEF Stages
  <2>7. QED  BY <2>2, <2>4, <2>6 DEF Calm
<1>6. QED  BY <1>3, <1>5 DEF TimeIInv

LEMMA TestSizeKeeps ==
  ASSUME TimeIInv, NEW h \in Handlers, TestSize(h)
  PROVE  TimeIInv'
<1>1. /\ setKnown' = setKnown /\ values' = values /\ sorted' = sorted /\ offset' = offset
      /\ raced' = raced /\ call[h].at = "size"
      /\ IF SizeCounts THEN Goes(h, "median") ELSE Returns(h)
  BY DEF TestSize
<1>2. /\ call' \in [Handlers -> {NoCall} \cup Sample(Steps)]
      /\ call'[h].at = IF SizeCounts THEN "median" ELSE "none"
      /\ \A g \in Handlers : g # h => call'[g] = call[g]
  <2>1. CASE SizeCounts
    BY <1>1, <2>1, OneCallGoes DEF TimeIInv, Steps
  <2>2. CASE ~SizeCounts
    BY <1>1, <2>2, OneCallReturns DEF TimeIInv
  <2>3. QED  BY <2>1, <2>2
<1>3. TimeShape'
  BY <1>1, <1>2 DEF TimeIInv, TimeShape
<1>4. SizeCounts' <=> SizeCounts
  BY <1>1 DEF SizeCounts
<1>5. ASSUME ~raced'  PROVE Calm'
  <2>1. Calm
    BY <1>1, <1>5 DEF TimeIInv
  <2>2. Alone' /\ \A g \in Handlers : g # h => call'[g].at = "none"
    BY <1>1, <1>2, <2>1, StillAlone DEF Calm
  <2>3. \A g \in Handlers : call'[g].at = "none" \/ (SizeCounts /\ call'[g].at = "median")
    <3>1. call'[h].at = "none" \/ (SizeCounts /\ call'[h].at = "median")
      BY <1>2
    <3>2. QED  BY <2>2, <3>1
  <2>4. Samples'
    BY <1>1, <2>1, <2>3 DEF Calm, Samples
  <2>5. Sorts(sorted, values)'
    <3>1. Sorts(sorted, values)
      BY <1>1, <2>1 DEF Calm, Stages
    <3>2. QED  BY <1>1, <3>1
  <2>6. CASE SizeCounts
    <3>1. ~\A g \in Handlers : call'[g].at = "none"
      BY <1>2, <2>6
    <3>2. Stages'
      BY <1>4, <2>3, <2>5, <2>6, <3>1 DEF Stages
    <3>3. QED  BY <2>2, <2>4, <3>2 DEF Calm
  <2>7. CASE ~SizeCounts
    <3>1. \A g \in Handlers : call'[g].at = "none"
      BY <2>3, <2>7
    <3>2. Stages'
      BY <1>4, <2>5, <2>7, <3>1 DEF Stages, Settled
    <3>3. QED  BY <2>2, <2>4, <3>2 DEF Calm
  <2>8. QED  BY <2>6, <2>7
<1>6. QED  BY <1>3, <1>5 DEF TimeIInv

LEMMA SetOffsetKeeps ==
  ASSUME TimeIInv, NEW h \in Handlers, SetOffset(h)
  PROVE  TimeIInv'
<1>1. /\ setKnown' = setKnown /\ values' = values /\ sorted' = sorted /\ raced' = raced
      /\ call[h].at = "median" /\ Returns(h)
      /\ offset' = IF Median \in -MaxOffset..MaxOffset THEN Median ELSE 0
  BY DEF SetOffset
<1>2. /\ call' \in [Handlers -> {NoCall} \cup Sample(Steps)]
      /\ call'[h].at = "none"
      /\ \A g \in Handlers : g # h => call'[g] = call[g]
  BY <1>1, OneCallReturns DEF TimeIInv
<1>3. offset' \in -MaxOffset..MaxOffset
  <2>1. 0 \in -MaxOffset..MaxOffset
    BY TimeAssumption
  <2>2. QED  BY <1>1, <2>1
<1>4. TimeShape'
  BY <1>1, <1>2, <1>3 DEF TimeIInv, TimeShape
<1>5. ASSUME ~raced'  PROVE Calm'
  <2>1. Calm
    BY <1>1, <1>5 DEF TimeIInv
  <2>2. Alone' /\ \A g \in Handlers : call'[g].at = "none"
    BY <1>1, <1>2, <2>1, StillAlone DEF Calm
  <2>3. Samples'
    BY <1>1, <2>1, <2>2 DEF Calm, Samples
  <2>4. Median \in Int /\ InTheMiddle(Median)
    <3>1. Sorts(sorted, values) /\ SizeCounts
      BY <1>1, <2>1 DEF Calm, Stages
    <3>2. QED  BY <3>1, MedianInTheMiddle DEF SizeCounts, TimeIInv, TimeShape
  <2>5. \A x : InTheMiddle(x)' <=> InTheMiddle(x)
    BY <1>1 DEF InTheMiddle
  <2>6. CASE Median \in -MaxOffset..MaxOffset
    <3>1. InTheMiddle(offset)'
      BY <1>1, <2>4, <2>6 DEF InTheMiddle
    <3>2. Settled'
      BY <3>1 DEF Settled
    <3>3. QED  BY <2>2, <2>3, <3>2 DEF Calm, Stages
  <2>7. CASE Median \notin -MaxOffset..MaxOffset
    <3>1. ASSUME NEW v \in -MaxOffset..MaxOffset, InTheMiddle(v)  PROVE FALSE
      <4>1. v \in Int /\ v # Median
        BY <2>7, <3>1, TimeAssumption
      <4>2. v < Median \/ Median < v
        BY <2>4, <4>1
      <4>3. QED  BY <2>4, <3>1, <4>1, <4>2, OneMiddle DEF TimeIInv, TimeShape
    <3>2. ASSUME NEW v \in -MaxOffset..MaxOffset  PROVE ~InTheMiddle(v)'
      BY <1>1, <3>1 DEF InTheMiddle
    <3>3. Settled'
      BY <1>1, <2>7, <3>2 DEF Settled
    <3>4. QED  BY <2>2, <2>3, <3>3 DEF Calm, Stages
  <2>8. QED  BY <2>6, <2>7
<1>6. QED  BY <1>4, <1>5 DEF TimeIInv

LEMMA TimeStepIInv == TimeIInv /\ [TimeNext]_timeState => TimeIInv'
<1>1. ASSUME TimeIInv, TimeNext  PROVE TimeIInv'
  BY <1>1, AddTimeDataKeeps, InsertKeeps, InputKeeps, SortKeeps, TestSizeKeeps, SetOffsetKeeps
     DEF TimeNext
<1>2. ASSUME TimeIInv, UNCHANGED timeState  PROVE TimeIInv'
  <2>1. /\ call' = call /\ setKnown' = setKnown /\ values' = values /\ sorted' = sorted
        /\ offset' = offset /\ raced' = raced
    BY <1>2 DEF timeState
  <2>2. TimeShape'
    BY <1>2, <2>1 DEF TimeIInv, TimeShape
  <2>3. Calm' <=> Calm
    BY <2>1 DEF Calm, Alone, Samples, Stages, Settled, SizeCounts, InTheMiddle, Sorts
  <2>4. QED  BY <1>2, <2>1, <2>2, <2>3 DEF TimeIInv
<1>3. QED  BY <1>1, <1>2

\* However many samples come from whom and on which threads, other nodes move the clock by 70
\* minutes at most; and where no two calls of AddTimeData ever overlapped, the offset is the
\* median of the samples, or 0 where that is too far off (util_time.cpp:46-76).
THEOREM AdjustedTimeIsTheMedian == TimeSpec => []TimeSafe
<1>1. ASSUME TimeIInv  PROVE TimeSafe
  <2>1. offset \in -MaxOffset..MaxOffset
    BY <1>1 DEF TimeIInv, TimeShape
  <2>2. ASSUME ~raced
        PROVE  /\ Cardinality(setKnown) <= MaxTimedataSamples
               /\ SizeCounts /\ (\A h \in Handlers : call[h].at = "none") => Settled
    BY <1>1, <2>2 DEF TimeIInv, Calm, Samples, Stages
  <2>3. QED  BY <2>1, <2>2 DEF TimeSafe, Settled
<1>2. QED
  BY TimeInitIInv, TimeStepIInv, <1>1, PTL DEF TimeSpec

-----------------------------------------------------------------------------
(***************************************************************************)
(* The block index and the chain.  First, induction over sets of numbers   *)
(* and recursion along a pointer.                                          *)
(***************************************************************************)

\* A set of numbers has a smallest one.
LEMMA SmallestOf ==
  ASSUME NEW T, T \subseteq Nat, T # {}
  PROVE  \E n \in T : \A k \in T : n <= k
<1> DEFINE R == OpToRel(<, Nat)
<1>1. IsWellFoundedOn(R, Nat)
  BY NatLessThanWellFounded
<1>2. ASSUME NEW x \in Nat, NEW y \in Nat, x < y  PROVE <<x, y>> \in R
  BY <1>2 DEF OpToRel
<1> HIDE DEF R
<1>3. PICK n \in T : \A k \in T : ~(<<k, n>> \in R)
  BY <1>1, WFMin
<1>4. ASSUME NEW k \in T  PROVE n <= k
  <2>1. n \in Nat /\ k \in Nat
    OBVIOUS
  <2>2. ~(k < n)
    BY <2>1, <1>2, <1>3
  <2>3. QED  BY <2>1, <2>2
<1>5. QED  BY <1>4

\* Induction for a set given as a set
LEMMA NatSetInduction ==
  ASSUME NEW T, T \subseteq Nat, 0 \in T, \A n \in T : n + 1 \in T
  PROVE  T = Nat
<1>1. SUFFICES ASSUME Nat \ T # {} PROVE FALSE
  OBVIOUS
<1>2. PICK n \in Nat \ T : \A k \in Nat \ T : n <= k
  BY <1>1, SmallestOf
<1>3. n # 0 /\ n - 1 \in Nat
  BY <1>2
<1>4. n - 1 \in T
  BY <1>2, <1>3
<1>5. n - 1 + 1 = n
  BY <1>3
<1>6. n \in T
  BY <1>4, <1>5
<1>7. QED  BY <1>6

\* What a recursion along s needs: s goes down in m until it stops.
GoesDown(D, m, Stop, s, R, r, h) ==
  /\ m \in [D -> Nat] /\ r \in [D -> R] /\ h \in [D \X R -> R]
  /\ \A b \in D : b \in Stop \/ (s[b] \in D /\ m[s[b]] < m[b])

\* Then there is a function with the equation.
LEMMA Recursion ==
  ASSUME NEW D, NEW m, NEW Stop, NEW s, NEW R, NEW r, NEW h, GoesDown(D, m, Stop, s, R, r, h)
  PROVE  \E f \in [D -> R] :
           \A b \in D : f[b] = IF b \in Stop THEN r[b] ELSE h[<<b, f[s[b]]>>]
<1> USE DEF GoesDown
<1> DEFINE Below(n) == {b \in D : m[b] < n}
           Good(f, n) ==
             /\ f \in [Below(n) -> R]
             /\ \A b \in Below(n) : f[b] = IF b \in Stop THEN r[b] ELSE h[<<b, f[s[b]]>>]
<1>1. \A n \in Nat : \E f : Good(f, n)
  <2> DEFINE T == {n \in Nat : \E f : Good(f, n)}
  <2>1. 0 \in T
    <3>1. Below(0) = {}
      OBVIOUS
    <3> HIDE DEF Below
    <3>2. Good([b \in Below(0) |-> r[b]], 0)
      BY <3>1
    <3> HIDE DEF Good
    <3>3. QED  BY <3>2
  <2>2. ASSUME NEW n \in T  PROVE n + 1 \in T
    <3>1. PICK f : Good(f, n)
      OBVIOUS
    <3> DEFINE g == [b \in Below(n + 1) |-> IF b \in Stop THEN r[b] ELSE h[<<b, f[s[b]]>>]]
    <3>2. ASSUME NEW b \in Below(n + 1), b \notin Stop  PROVE s[b] \in Below(n) /\ f[s[b]] \in R
      <4>1. b \in D /\ m[b] < n + 1 /\ n \in Nat /\ m[b] \in Nat
        OBVIOUS
      <4>2. s[b] \in D /\ m[s[b]] < m[b] /\ m[s[b]] \in Nat
        BY <4>1, <3>2
      <4>3. m[s[b]] < n
        BY <4>1, <4>2
      <4>4. s[b] \in Below(n)
        BY <4>2, <4>3
      <4>5. QED  BY <4>4, <3>1
    <3>3. \A b \in Below(n) : b \in Below(n + 1)
      OBVIOUS
    <3>4. ASSUME NEW b \in Below(n)  PROVE g[b] = f[b]
      BY <3>1, <3>3
    <3>5. g \in [Below(n + 1) -> R]
      <4>1. ASSUME NEW b \in Below(n + 1)
            PROVE  (IF b \in Stop THEN r[b] ELSE h[<<b, f[s[b]]>>]) \in R
        <5>1. b \in D
          OBVIOUS
        <5>2. CASE b \in Stop
          BY <5>1, <5>2
        <5>3. CASE b \notin Stop
          <6>1. f[s[b]] \in R
            BY <5>3, <3>2
          <6>2. <<b, f[s[b]]>> \in D \X R
            BY <5>1, <6>1
          <6>3. h[<<b, f[s[b]]>>] \in R
            BY <6>2
          <6>4. QED  BY <5>3, <6>3
        <5>4. QED  BY <5>2, <5>3
      <4> HIDE DEF Below
      <4>2. QED  BY <4>1
    <3>6. ASSUME NEW b \in Below(n + 1)
          PROVE  g[b] = IF b \in Stop THEN r[b] ELSE h[<<b, g[s[b]]>>]
      <4>1. CASE b \in Stop
        <5> HIDE DEF Below
        <5>1. QED  BY <4>1
      <4>2. CASE b \notin Stop
        <5>1. g[s[b]] = f[s[b]]
          BY <3>2, <3>4, <4>2
        <5>2. g[b] = h[<<b, f[s[b]]>>]
          <6> HIDE DEF Below
          <6>1. QED  BY <4>2
        <5> HIDE DEF g
        <5>3. QED  BY <5>1, <5>2, <4>2
      <4>3. QED  BY <4>1, <4>2
    <3> HIDE DEF g
    <3>7. Good(g, n + 1)
      BY <3>5, <3>6
    <3>8. n + 1 \in Nat
      OBVIOUS
    <3> HIDE DEF Good
    <3>9. QED  BY <3>7, <3>8
  <2> HIDE DEF Good
  <2>3. T \subseteq Nat
    OBVIOUS
  <2> HIDE DEF T
  <2>4. T = Nat
    BY <2>1, <2>2, <2>3, NatSetInduction
  <2>5. QED  BY <2>4 DEF T
<1>2. ASSUME NEW f, NEW g, NEW n \in Nat, NEW k \in Nat, Good(f, n), Good(g, k)
      PROVE  \A b \in D : m[b] < n /\ m[b] < k => f[b] = g[b]
  <2> DEFINE T == {j \in Nat : \A b \in D : m[b] < j /\ m[b] < n /\ m[b] < k => f[b] = g[b]}
  <2>1. 0 \in T
    OBVIOUS
  <2>2. ASSUME NEW j \in T  PROVE j + 1 \in T
    <3>1. ASSUME NEW b \in D, m[b] < j + 1, m[b] < n, m[b] < k  PROVE f[b] = g[b]
      <4>1. b \in Below(n) /\ b \in Below(k)
        BY <3>1
      <4>2. /\ f[b] = IF b \in Stop THEN r[b] ELSE h[<<b, f[s[b]]>>]
            /\ g[b] = IF b \in Stop THEN r[b] ELSE h[<<b, g[s[b]]>>]
        BY <4>1, <1>2
      <4>3. ASSUME b \notin Stop  PROVE f[s[b]] = g[s[b]]
        <5>1. s[b] \in D /\ m[s[b]] < m[b] /\ m[s[b]] \in Nat /\ m[b] \in Nat /\ j \in Nat
          BY <4>3
        <5>2. m[s[b]] < j /\ m[s[b]] < n /\ m[s[b]] < k
          BY <5>1, <3>1
        <5>3. QED  BY <5>1, <5>2
      <4>4. QED  BY <4>2, <4>3
    <3>2. j + 1 \in Nat
      OBVIOUS
    <3> HIDE DEF Good
    <3>3. QED  BY <3>1, <3>2
  <2>3. T \subseteq Nat
    OBVIOUS
  <2>4. T = Nat
    <3> HIDE DEF T
    <3>1. QED  BY <2>1, <2>2, <2>3, NatSetInduction
  <2>5. ASSUME NEW b \in D, m[b] < n, m[b] < k  PROVE f[b] = g[b]
    <3>1. m[b] + 1 \in T /\ m[b] < m[b] + 1
      BY <2>4
    <3>2. QED  BY <3>1, <2>5
  <2>6. QED  BY <2>5
<1> DEFINE Part(n) == CHOOSE f : Good(f, n)
           whole == [b \in D |-> Part(m[b] + 1)[b]]
<1>3. ASSUME NEW n \in Nat  PROVE Good(Part(n), n)
  <2> HIDE DEF Good
  <2>1. QED  BY <1>1
<1>4. ASSUME NEW b \in D
      PROVE  /\ m[b] \in Nat /\ m[b] + 1 \in Nat /\ b \in Below(m[b] + 1)
             /\ Part(m[b] + 1)[b] \in R
             /\ Part(m[b] + 1)[b] =
                  IF b \in Stop THEN r[b] ELSE h[<<b, Part(m[b] + 1)[s[b]]>>]
             /\ b \notin Stop => whole[s[b]] = Part(m[b] + 1)[s[b]]
  <2>1. m[b] \in Nat /\ m[b] + 1 \in Nat /\ b \in Below(m[b] + 1)
    OBVIOUS
  <2>2. Good(Part(m[b] + 1), m[b] + 1)
    BY <2>1, <1>3
  <2> HIDE DEF Part
  <2>3. Part(m[b] + 1)[b] \in R
    BY <2>1, <2>2
  <2>4. Part(m[b] + 1)[b] = IF b \in Stop THEN r[b] ELSE h[<<b, Part(m[b] + 1)[s[b]]>>]
    <3> HIDE DEF Below
    <3>1. QED  BY <2>1, <2>2
  <2>5. ASSUME b \notin Stop  PROVE whole[s[b]] = Part(m[b] + 1)[s[b]]
    <3>1. s[b] \in D /\ m[s[b]] < m[b] /\ m[s[b]] \in Nat
      BY <2>5
    <3>2. m[s[b]] + 1 \in Nat /\ m[s[b]] < m[s[b]] + 1 /\ m[s[b]] < m[b] + 1
      BY <3>1, <2>1
    <3>3. Good(Part(m[s[b]] + 1), m[s[b]] + 1)
      BY <3>2, <1>3
    <3> HIDE DEF Good
    <3>4. Part(m[s[b]] + 1)[s[b]] = Part(m[b] + 1)[s[b]]
      BY <3>1, <3>2, <3>3, <2>1, <2>2, <1>2
    <3>5. QED  BY <3>1, <3>4
  <2> HIDE DEF Below, whole
  <2>6. QED  BY <2>1, <2>3, <2>4, <2>5
<1> HIDE DEF Part, Below, Good
<1>5. whole \in [D -> R]
  BY <1>4
<1>6. ASSUME NEW b \in D  PROVE whole[b] = IF b \in Stop THEN r[b] ELSE h[<<b, whole[s[b]]>>]
  BY <1>4
<1>7. QED  BY <1>5, <1>6

-----------------------------------------------------------------------------
(* Heights and skips. *)

\* Halves of a number.
LEMMA DivModTwo ==
  ASSUME NEW n \in Nat
  PROVE  /\ n \div 2 \in Nat /\ n % 2 \in {0, 1} /\ n = 2 * (n \div 2) + (n % 2)
         /\ n # 0 => n \div 2 < n
  OBVIOUS

\* InvertLowestOne obeys its equation, and takes off at least one.
LEMMA InvertEquation ==
  /\ InvertLowestOne \in [Nat -> Nat]
  /\ \A n \in Nat : InvertLowestOne[n] =
       IF n = 0 THEN 0 ELSE IF n % 2 = 1 THEN n - 1 ELSE 2 * InvertLowestOne[n \div 2]
<1> DEFINE m == [n \in Nat |-> n]
           Stop == {n \in Nat : n = 0 \/ n % 2 = 1}
           s == [n \in Nat |-> n \div 2]
           r == [n \in Nat |-> IF n = 0 THEN 0 ELSE n - 1]
           h == [p \in Nat \X Nat |-> 2 * p[2]]
           F(f) == [n \in Nat |->
                      IF n = 0 THEN 0 ELSE IF n % 2 = 1 THEN n - 1 ELSE 2 * f[n \div 2]]
<1>1. m \in [Nat -> Nat] /\ r \in [Nat -> Nat] /\ h \in [Nat \X Nat -> Nat]
  OBVIOUS
<1>2. \A n \in Nat : n \in Stop \/ (s[n] \in Nat /\ m[s[n]] < m[n])
  BY DivModTwo
<1>0. GoesDown(Nat, m, Stop, s, Nat, r, h)
  <2> HIDE DEF m, Stop, s, r, h
  <2>1. QED  BY <1>1, <1>2 DEF GoesDown
<1>3. PICK f \in [Nat -> Nat] :
        \A n \in Nat : f[n] = IF n \in Stop THEN r[n] ELSE h[<<n, f[s[n]]>>]
  <2> HIDE DEF m, Stop, s, r, h
  <2>1. QED  BY <1>0, Recursion
<1>4. ASSUME NEW n \in Nat  PROVE f[n] = F(f)[n]
  <2>1. n \div 2 \in Nat /\ f[n \div 2] \in Nat
    BY DivModTwo
  <2>2. n \notin Stop => h[<<n, f[s[n]]>>] = 2 * f[n \div 2]
    BY <2>1
  <2>3. n \in Stop <=> n = 0 \/ n % 2 = 1
    OBVIOUS
  <2>4. f[n] = IF n \in Stop THEN r[n] ELSE h[<<n, f[s[n]]>>]
    BY <1>3
  <2>5. r[n] = IF n = 0 THEN 0 ELSE n - 1
    OBVIOUS
  <2> HIDE DEF Stop, r, h, s
  <2>6. QED  BY <2>2, <2>3, <2>4, <2>5
<1>5. f = F(f)
  <2> HIDE DEF Stop, r, h, s
  <2>1. QED  BY <1>4
<1>6. \E g : g = F(g)
  BY <1>5
<1>7. InvertLowestOne = F(InvertLowestOne)
  BY <1>6, Zenon DEF InvertLowestOne
<1>8. ASSUME NEW g, g = F(g)  PROVE g \in [Nat -> Nat]
  <2> DEFINE T == {j \in Nat : \A n \in Nat : n < j => g[n] \in Nat}
  <2>1. 0 \in T
    OBVIOUS
  <2>2. ASSUME NEW j \in T  PROVE j + 1 \in T
    <3>1. ASSUME NEW n \in Nat, n < j + 1  PROVE g[n] \in Nat
      <4>1. n \div 2 \in Nat /\ (n # 0 => n \div 2 < j)
        BY <3>1, DivModTwo
      <4>2. n # 0 => g[n \div 2] \in Nat
        BY <4>1
      <4>3. g[n] = IF n = 0 THEN 0 ELSE IF n % 2 = 1 THEN n - 1 ELSE 2 * g[n \div 2]
        BY <1>8
      <4>4. QED  BY <4>2, <4>3
    <3>2. QED  BY <3>1
  <2>3. T = Nat
    <3>1. T \subseteq Nat
      OBVIOUS
    <3> HIDE DEF T
    <3>2. QED  BY <2>1, <2>2, <3>1, NatSetInduction
  <2>4. ASSUME NEW n \in Nat  PROVE g[n] \in Nat
    <3>1. n + 1 \in Nat /\ n < n + 1
      OBVIOUS
    <3>2. n + 1 \in T
      <4> HIDE DEF T
      <4>1. QED  BY <2>3, <3>1
    <3>3. QED  BY <3>1, <3>2
  <2>5. QED  BY <2>4, <1>8
<1>9. QED
  <2> HIDE DEF F
  <2>1. InvertLowestOne \in [Nat -> Nat]
    BY <1>7, <1>8
  <2>2. ASSUME NEW n \in Nat  PROVE InvertLowestOne[n] = F(InvertLowestOne)[n]
    BY <1>7
  <2>3. QED  BY <2>1, <2>2 DEF F

\* A skip goes back, and not below the first block.
LEMMA SkipHeights ==
  /\ \A n \in Nat \ {0} : InvertLowestOne[n] \in 0..n - 1
  /\ InvertLowestOne[0] = 0
  /\ \A height \in Nat : GetSkipHeight(height) \in Nat
  /\ \A height \in Nat \ {0} : GetSkipHeight(height) \in 0..height - 1
<1>1. InvertLowestOne[0] = 0
  BY InvertEquation
<1>2. ASSUME NEW n \in Nat \ {0}  PROVE InvertLowestOne[n] < n
  <2> DEFINE T == {j \in Nat : \A k \in Nat \ {0} : k < j => InvertLowestOne[k] < k}
  <2>1. 0 \in T
    OBVIOUS
  <2>2. ASSUME NEW j \in T  PROVE j + 1 \in T
    <3>1. ASSUME NEW k \in Nat \ {0}, k < j + 1  PROVE InvertLowestOne[k] < k
      <4>1. k \div 2 \in Nat /\ k \div 2 < j /\ k = 2 * (k \div 2) + (k % 2) /\ k % 2 \in {0, 1}
        BY <3>1, DivModTwo
      <4>2. CASE k % 2 = 1
        BY <4>2, InvertEquation
      <4>3. CASE k % 2 = 0
        <5>1. k \div 2 # 0
          BY <4>1, <4>3
        <5>2. InvertLowestOne[k \div 2] < k \div 2
          BY <4>1, <5>1
        <5>3. InvertLowestOne[k \div 2] \in Nat
          BY <4>1, InvertEquation
        <5>4. InvertLowestOne[k] = 2 * InvertLowestOne[k \div 2]
          BY <4>3, InvertEquation
        <5>5. QED  BY <4>1, <4>3, <5>2, <5>3, <5>4
      <4>4. QED  BY <4>1, <4>2, <4>3
    <3>2. QED  BY <3>1
  <2>3. T \subseteq Nat
    OBVIOUS
  <2>4. T = Nat
    <3> HIDE DEF T
    <3>1. QED  BY <2>1, <2>2, <2>3, NatSetInduction
  <2>5. n + 1 \in Nat /\ n < n + 1
    OBVIOUS
  <2>6. n + 1 \in T
    <3> HIDE DEF T
    <3>1. QED  BY <2>4, <2>5
  <2>7. QED  BY <2>5, <2>6
<1>3. \A n \in Nat : InvertLowestOne[n] \in Nat
  BY InvertEquation
<1>4. \A n \in Nat \ {0} : InvertLowestOne[n] \in 0..n - 1
  BY <1>2, <1>3
<1>5. ASSUME NEW height \in Nat \ {0}  PROVE GetSkipHeight(height) \in 0..height - 1
  <2>1. CASE height < 2
    BY <2>1 DEF GetSkipHeight
  <2>2. CASE height >= 2 /\ height % 2 = 1
    <3> DEFINE once == InvertLowestOne[height - 1]
               twice == InvertLowestOne[once]
    <3>1. once \in 0..height - 2
      BY <2>2, <1>4
    <3>2. twice \in Nat /\ twice <= once
      BY <3>1, <1>1, <1>4
    <3>3. GetSkipHeight(height) = twice + 1
      BY <2>2 DEF GetSkipHeight
    <3>4. once # 0 => twice < once
      BY <3>1, <1>4
    <3>5. height - 1 >= 2 /\ (height - 1) % 2 = 0
      BY <2>2
    <3> HIDE DEF twice
    <3>6. QED  BY <3>1, <3>2, <3>3, <3>4, <3>5
  <2>3. CASE height >= 2 /\ height % 2 # 1
    BY <2>3, <1>4 DEF GetSkipHeight
  <2>4. QED  BY <2>1, <2>2, <2>3
<1>6. GetSkipHeight(0) = 0
  BY DEF GetSkipHeight
<1>7. \A height \in Nat : GetSkipHeight(height) \in Nat
  BY <1>5, <1>6
<1>8. QED  BY <1>1, <1>4, <1>5, <1>7

-----------------------------------------------------------------------------
(* The tree of the index, and the path to a block. *)

Entry == [prev : Blocks \cup {NoBlock}, skip : Blocks \cup {NoBlock}, height : Nat,
          work : Nat, tx : Nat, chainTx : Nat, data : BOOLEAN, seq : Nat, valid : Nat]

\* Each block hangs on one that is one lower, or is a root.
TreeShape(i) ==
  /\ DOMAIN i \subseteq Blocks
  /\ i \in [DOMAIN i -> Entry]
  /\ \A b \in DOMAIN i :
       IF i[b].prev = NoBlock THEN i[b].height = 0
       ELSE i[b].prev \in DOMAIN i /\ i[b].height = i[i[b].prev].height + 1

\* Path, in any index.
PathIn(i, b) ==
  LET To[x \in DOMAIN i] == IF i[x].prev = NoBlock THEN <<x>> ELSE Append(To[i[x].prev], x)
  IN To[b]

\* A tree of entries, entry by entry.
LEMMA ShapeFacts ==
  ASSUME NEW i, TreeShape(i), NEW b \in DOMAIN i
  PROVE  /\ b \in Blocks /\ b # NoBlock /\ i[b] \in Entry /\ i[b].height \in Nat
         /\ i[b].prev = NoBlock => i[b].height = 0
         /\ i[b].prev # NoBlock =>
              /\ i[b].prev \in DOMAIN i /\ i[i[b].prev].height \in Nat
              /\ i[b].height = i[i[b].prev].height + 1
         /\ i[b].height = 0 => i[b].prev = NoBlock
<1>1. b \in Blocks /\ b # NoBlock
  BY TreeAssumption DEF TreeShape
<1>2. \A x \in DOMAIN i : i[x] \in Entry /\ i[x].height \in Nat
  BY DEF TreeShape, Entry
<1>3. IF i[b].prev = NoBlock THEN i[b].height = 0
      ELSE i[b].prev \in DOMAIN i /\ i[b].height = i[i[b].prev].height + 1
  BY DEF TreeShape
<1>4. QED  BY <1>1, <1>2, <1>3

\* A property of blocks that goes from all lower blocks to a block holds of all.
LEMMA HeightInduction ==
  ASSUME NEW i, TreeShape(i), NEW T,
         \A b \in DOMAIN i :
           (\A c \in DOMAIN i : i[c].height < i[b].height => c \in T) => b \in T
  PROVE  DOMAIN i \subseteq T
<1> DEFINE U == {n \in Nat : \A b \in DOMAIN i : i[b].height < n => b \in T}
<1>1. 0 \in U
  BY ShapeFacts
<1>2. ASSUME NEW n \in U  PROVE n + 1 \in U
  <2>1. ASSUME NEW b \in DOMAIN i, i[b].height < n + 1  PROVE b \in T
    <3>1. ASSUME NEW c \in DOMAIN i, i[c].height < i[b].height  PROVE c \in T
      <4>1. i[b].height \in Nat /\ i[c].height \in Nat /\ n \in Nat
        BY ShapeFacts
      <4>2. i[c].height < n
        BY <4>1, <2>1, <3>1
      <4>3. QED  BY <4>2
    <3>2. QED  BY <3>1
  <2>2. n + 1 \in Nat
    OBVIOUS
  <2>3. QED  BY <2>1, <2>2
<1>3. U \subseteq Nat
  OBVIOUS
<1>4. U = Nat
  <2> HIDE DEF U
  <2>1. QED  BY <1>1, <1>2, <1>3, NatSetInduction
<1>5. ASSUME NEW b \in DOMAIN i  PROVE b \in T
  <2>1. i[b].height + 1 \in Nat /\ i[b].height < i[b].height + 1
    BY ShapeFacts
  <2>2. i[b].height + 1 \in U
    <3> HIDE DEF U
    <3>1. QED  BY <2>1, <1>4
  <2>3. QED  BY <2>1, <2>2
<1>6. QED  BY <1>5

\* The same for one that goes from a parent to its children, and holds at roots.
LEMMA TreeInduction ==
  ASSUME NEW i, TreeShape(i), NEW T,
         \A b \in DOMAIN i :
           (i[b].prev # NoBlock => i[b].prev \in T) => b \in T
  PROVE  DOMAIN i \subseteq T
<1>1. ASSUME NEW b \in DOMAIN i,
             \A c \in DOMAIN i : i[c].height < i[b].height => c \in T
      PROVE  b \in T
  <2>1. i[b].prev # NoBlock => i[b].prev \in DOMAIN i /\ i[i[b].prev].height < i[b].height
    BY ShapeFacts
  <2>2. QED  BY <1>1, <2>1
<1>2. QED  BY <1>1, HeightInduction

\* The path to a block is that to its parent and the block.
LEMMA PathEquation ==
  ASSUME NEW i, TreeShape(i), NEW b \in DOMAIN i
  PROVE  PathIn(i, b) =
           IF i[b].prev = NoBlock THEN <<b>> ELSE Append(PathIn(i, i[b].prev), b)
<1> DEFINE D == DOMAIN i
           m == [x \in D |-> i[x].height]
           Stop == {x \in D : i[x].prev = NoBlock}
           s == [x \in D |-> i[x].prev]
           r == [x \in D |-> <<x>>]
           h == [p \in D \X Seq(D) |-> Append(p[2], p[1])]
           F(f) == [x \in D |-> IF i[x].prev = NoBlock THEN <<x>> ELSE Append(f[i[x].prev], x)]
<1>1. m \in [D -> Nat] /\ r \in [D -> Seq(D)] /\ h \in [D \X Seq(D) -> Seq(D)]
  <2>1. \A x \in D : i[x].height \in Nat
    BY ShapeFacts
  <2>2. QED  BY <2>1
<1>2. \A x \in D : x \in Stop \/ (s[x] \in D /\ m[s[x]] < m[x])
  <2>1. ASSUME NEW x \in D, x \notin Stop  PROVE s[x] \in D /\ m[s[x]] < m[x]
    <3>1. i[x].prev # NoBlock
      BY <2>1
    <3>2. i[x].prev \in D /\ i[i[x].prev].height < i[x].height
      BY <3>1, ShapeFacts
    <3>3. QED  BY <3>2
  <2>2. QED  BY <2>1
<1>3. GoesDown(D, m, Stop, s, Seq(D), r, h)
  <2> HIDE DEF D, m, Stop, s, r, h
  <2>1. QED  BY <1>1, <1>2 DEF GoesDown
<1>4. PICK f \in [D -> Seq(D)] :
        \A x \in D : f[x] = IF x \in Stop THEN r[x] ELSE h[<<x, f[s[x]]>>]
  <2> HIDE DEF D, m, Stop, s, r, h
  <2>1. QED  BY <1>3, Recursion
<1>5. ASSUME NEW x \in D  PROVE f[x] = F(f)[x]
  <2>1. f[x] = IF x \in Stop THEN r[x] ELSE h[<<x, f[s[x]]>>]
    BY <1>4
  <2>2. CASE x \in Stop
    BY <2>1, <2>2
  <2>3. CASE x \notin Stop
    <3>1. s[x] \in D /\ s[x] = i[x].prev
      BY <2>3, <1>2
    <3>2. f[s[x]] \in Seq(D)
      <4> HIDE DEF D, s
      <4>1. QED  BY <3>1, <1>4
    <3>3. h[<<x, f[s[x]]>>] = Append(f[s[x]], x)
      BY <3>2
    <3>4. QED  BY <2>1, <2>3, <3>1, <3>3
  <2>4. QED  BY <2>2, <2>3
<1>6. f = F(f)
  <2> HIDE DEF Stop, r, h, s
  <2>1. QED  BY <1>5
<1>7. \E g : g = F(g)
  BY <1>6
<1> DEFINE To == CHOOSE g : g = F(g)
<1>8. To = F(To)
  <2> HIDE DEF F
  <2>1. QED  BY <1>7, Zenon
<1>9. \A x : PathIn(i, x) = To[x]
  BY DEF PathIn
<1> HIDE DEF To
<1>10. To[b] = IF i[b].prev = NoBlock THEN <<b>> ELSE Append(To[i[b].prev], b)
  BY <1>8
<1>11. QED  BY <1>9, <1>10

\* The path to b has a block of each height up to that of b, and b last.
OnPath(i, b) ==
  LET P == PathIn(i, b)
  IN /\ P \in Seq(DOMAIN i) /\ Len(P) = i[b].height + 1 /\ P[i[b].height + 1] = b
     /\ \A j \in 1..i[b].height + 1 : P[j] \in DOMAIN i /\ i[P[j]].height = j - 1

\* Every path is one.
LEMMA PathFacts ==
  ASSUME NEW i, TreeShape(i)
  PROVE  \A b \in DOMAIN i : OnPath(i, b)
<1> DEFINE T == {b \in DOMAIN i : OnPath(i, b)}
<1>1. ASSUME NEW b \in DOMAIN i, i[b].prev # NoBlock => i[b].prev \in T  PROVE b \in T
  <2>1. i[b].height \in Nat
    BY ShapeFacts
  <2>2. CASE i[b].prev = NoBlock
    <3>1. i[b].height = 0 /\ PathIn(i, b) = <<b>>
      BY <2>2, ShapeFacts, PathEquation
    <3>2. <<b>> \in Seq(DOMAIN i) /\ Len(<<b>>) = 1 /\ <<b>>[1] = b
      OBVIOUS
    <3>3. \A j \in 1..i[b].height + 1 : j = 1
      BY <3>1
    <3> HIDE DEF T
    <3>4. OnPath(i, b)
      BY <3>1, <3>2, <3>3 DEF OnPath
    <3>5. QED  BY <3>4 DEF T
  <2>3. CASE i[b].prev # NoBlock
    <3> DEFINE c == i[b].prev
               P == PathIn(i, b)
               Q == PathIn(i, c)
    <3>1. c \in DOMAIN i /\ i[c].height \in Nat /\ i[b].height = i[c].height + 1
      BY <2>3, ShapeFacts
    <3>2. P = Append(Q, b)
      BY <2>3, PathEquation
    <3>3. OnPath(i, c)
      BY <2>3, <1>1
    <3>4. /\ Q \in Seq(DOMAIN i) /\ Len(Q) = i[b].height
          /\ \A j \in 1..i[b].height : Q[j] \in DOMAIN i /\ i[Q[j]].height = j - 1
      BY <3>1, <3>3 DEF OnPath
    <3> HIDE DEF c, P, Q
    <3>5. P \in Seq(DOMAIN i) /\ Len(P) = i[b].height + 1 /\ P[i[b].height + 1] = b
      BY <3>2, <3>4, <2>1
    <3>6. \A j \in 1..i[b].height : P[j] = Q[j]
      BY <3>2, <3>4, <2>1
    <3>7. ASSUME NEW j \in 1..i[b].height + 1  PROVE P[j] \in DOMAIN i /\ i[P[j]].height = j - 1
      <4>1. CASE j = i[b].height + 1
        BY <4>1, <3>5, <2>1
      <4>2. CASE j # i[b].height + 1
        <5>1. j \in 1..i[b].height
          BY <4>2, <2>1
        <5>2. QED  BY <5>1, <3>4, <3>6
      <4>3. QED  BY <4>1, <4>2
    <3>8. QED  BY <3>5, <3>7 DEF OnPath, P
  <2>4. QED  BY <2>2, <2>3
<1> HIDE DEF T
<1>2. DOMAIN i \subseteq T
  BY <1>1, TreeInduction
<1>3. QED  BY <1>2 DEF T

\* The path of the parent is the path, but for its last block.
LEMMA PathOfParent ==
  ASSUME NEW i, TreeShape(i), NEW b \in DOMAIN i, i[b].prev # NoBlock
  PROVE  \A j \in 1..i[b].height : PathIn(i, i[b].prev)[j] = PathIn(i, b)[j]
<1> DEFINE c == i[b].prev
<1>1. c \in DOMAIN i /\ i[c].height \in Nat /\ i[b].height = i[c].height + 1
  BY ShapeFacts
<1>2. PathIn(i, b) = Append(PathIn(i, c), b)
  BY PathEquation
<1>3. PathIn(i, c) \in Seq(DOMAIN i) /\ Len(PathIn(i, c)) = i[b].height
  BY <1>1, PathFacts DEF OnPath
<1> HIDE DEF c
<1>4. \A j \in 1..i[b].height : PathIn(i, c)[j] = PathIn(i, b)[j]
  BY <1>2, <1>3
<1>5. QED  BY <1>4 DEF c

\* The path to a block on a path is the path up to it.
LEMMA PathOfPath ==
  ASSUME NEW i, TreeShape(i)
  PROVE  \A b \in DOMAIN i : \A j \in 1..i[b].height + 1 : \A k \in 1..j :
           PathIn(i, PathIn(i, b)[j])[k] = PathIn(i, b)[k]
<1> DEFINE Same(b) == \A j \in 1..i[b].height + 1 : \A k \in 1..j :
                        PathIn(i, PathIn(i, b)[j])[k] = PathIn(i, b)[k]
           T == {b \in DOMAIN i : Same(b)}
<1>1. ASSUME NEW b \in DOMAIN i, i[b].prev # NoBlock => i[b].prev \in T  PROVE b \in T
  <2>1. i[b].height \in Nat /\ PathIn(i, b)[i[b].height + 1] = b
    BY ShapeFacts, PathFacts DEF OnPath
  <2>2. ASSUME NEW j \in 1..i[b].height + 1, NEW k \in 1..j
        PROVE  PathIn(i, PathIn(i, b)[j])[k] = PathIn(i, b)[k]
    <3>1. CASE j = i[b].height + 1
      BY <3>1, <2>1
    <3>2. CASE j # i[b].height + 1
      <4> DEFINE c == i[b].prev
      <4>1. j \in 1..i[b].height /\ k \in 1..i[b].height
        BY <3>2, <2>1
      <4>2. i[b].prev # NoBlock
        BY <4>1, ShapeFacts
      <4>3. c \in T /\ i[b].height = i[c].height + 1
        BY <4>2, <1>1, ShapeFacts
      <4>4. Same(c)
        BY <4>3
      <4>5. PathIn(i, PathIn(i, c)[j])[k] = PathIn(i, c)[k]
        BY <4>1, <4>3, <4>4
      <4>6. PathIn(i, c)[j] = PathIn(i, b)[j] /\ PathIn(i, c)[k] = PathIn(i, b)[k]
        BY <4>1, <4>2, PathOfParent
      <4>7. QED  BY <4>5, <4>6
    <3>3. QED  BY <3>1, <3>2
  <2>3. QED  BY <2>2
<1>2. DOMAIN i \subseteq T
  <2> HIDE DEF T
  <2>1. QED  BY <1>1, TreeInduction
<1>3. QED  BY <1>2

\* An index that keeps the parents of the blocks of another keeps their paths.
LEMMA PathKept ==
  ASSUME NEW i, NEW k, TreeShape(i), TreeShape(k),
         \A b \in DOMAIN i : b \in DOMAIN k /\ k[b].prev = i[b].prev
  PROVE  \A b \in DOMAIN i : PathIn(k, b) = PathIn(i, b)
<1> DEFINE T == {b \in DOMAIN i : PathIn(k, b) = PathIn(i, b)}
<1>1. ASSUME NEW b \in DOMAIN i, i[b].prev # NoBlock => i[b].prev \in T  PROVE b \in T
  <2>1. b \in DOMAIN k /\ k[b].prev = i[b].prev
    OBVIOUS
  <2>2. PathIn(i, b) = IF i[b].prev = NoBlock THEN <<b>> ELSE Append(PathIn(i, i[b].prev), b)
    BY PathEquation
  <2>3. PathIn(k, b) = IF k[b].prev = NoBlock THEN <<b>> ELSE Append(PathIn(k, k[b].prev), b)
    BY <2>1, PathEquation
  <2>4. i[b].prev # NoBlock => PathIn(k, i[b].prev) = PathIn(i, i[b].prev)
    BY <1>1
  <2>5. PathIn(k, b) = PathIn(i, b)
    BY <2>1, <2>2, <2>3, <2>4
  <2>6. QED  BY <2>5
<1>2. DOMAIN i \subseteq T
  <2> HIDE DEF T
  <2>1. QED  BY <1>1, TreeInduction
<1>3. QED  BY <1>2

-----------------------------------------------------------------------------
(* GetAncestor. *)

\* A loop: a recursion whose result is that of its last turn.
LoopsDown(D, m, Stop, s, R, r) ==
  /\ m \in [D -> Nat] /\ r \in [D -> R]
  /\ \A b \in D : b \in Stop \/ (s[b] \in D /\ m[s[b]] < m[b])

\* A loop whose variable goes down has a value at each of them.
LEMMA Loop ==
  ASSUME NEW D, NEW m, NEW Stop, NEW s, NEW R, NEW r, LoopsDown(D, m, Stop, s, R, r)
  PROVE  \E f \in [D -> R] : \A b \in D : f[b] = IF b \in Stop THEN r[b] ELSE f[s[b]]
<1> DEFINE h == [p \in D \X R |-> p[2]]
<1>1. h \in [D \X R -> R]
  OBVIOUS
<1>2. \A b \in D, y \in R : h[<<b, y>>] = y
  OBVIOUS
<1> HIDE DEF h
<1>3. GoesDown(D, m, Stop, s, R, r, h)
  BY <1>1 DEF GoesDown, LoopsDown
<1>4. PICK f \in [D -> R] : \A b \in D : f[b] = IF b \in Stop THEN r[b] ELSE h[<<b, f[s[b]]>>]
  BY <1>3, Recursion
<1>5. ASSUME NEW b \in D, b \notin Stop  PROVE h[<<b, f[s[b]]>>] = f[s[b]]
  <2>1. s[b] \in D
    BY <1>5 DEF LoopsDown
  <2>2. f[s[b]] \in R
    BY <2>1
  <2>3. QED  BY <2>2, <1>2
<1>6. \A b \in D : f[b] = IF b \in Stop THEN r[b] ELSE f[s[b]]
  BY <1>4, <1>5
<1>7. QED  BY <1>6

\* The skip pointer of a block, if it has one, is to the block of its path at the height
\* for it.  The code gives none to any block, as BuildSkip does not return.
Skips(i) ==
  \A b \in DOMAIN i :
    \/ i[b].skip = NoBlock
    \/ i[b].prev # NoBlock /\ i[b].skip = PathIn(i, b)[GetSkipHeight(i[b].height) + 1]

\* A skip pointer is on the path.
LEMMA SkipFacts ==
  ASSUME NEW i, TreeShape(i), Skips(i), NEW b \in DOMAIN i, i[b].skip # NoBlock
  PROVE  /\ i[b].skip \in DOMAIN i /\ i[b].height # 0
         /\ i[b].skip = PathIn(i, b)[GetSkipHeight(i[b].height) + 1]
<1>1. i[b].prev # NoBlock /\ i[b].skip = PathIn(i, b)[GetSkipHeight(i[b].height) + 1]
  BY DEF Skips
<1>2. i[b].height \in Nat \ {0}
  BY <1>1, ShapeFacts
<1>3. GetSkipHeight(i[b].height) + 1 \in 1..i[b].height + 1
  BY <1>2, SkipHeights
<1>4. QED  BY <1>1, <1>2, <1>3, PathFacts DEF OnPath

\* The loop of GetAncestor is a function with its equation.
LEMMA WalkEquation ==
  ASSUME TreeShape(index), Skips(index), NEW height \in Nat
  PROVE  \E f :
           /\ \A b : WalkBack(b, height) = f[<<b, Height(b)>>]
           /\ \A p \in (DOMAIN index \cup {NoBlock}) \X Nat :
                f[p] = IF p[1] = NoBlock \/ p[2] <= height THEN p[1]
                       ELSE IF SkipHelps(p[1], p[2], height)
                            THEN f[<<index[p[1]].skip, GetSkipHeight(p[2])>>]
                            ELSE f[<<index[p[1]].prev, p[2] - 1>>]
<1> DEFINE R == DOMAIN index \cup {NoBlock}
           D == R \X Nat
           Stop == {p \in D : p[1] = NoBlock \/ p[2] <= height}
           m == [p \in D |-> p[2]]
           r == [p \in D |-> p[1]]
           s == [p \in D |-> IF SkipHelps(p[1], p[2], height)
                             THEN <<index[p[1]].skip, GetSkipHeight(p[2])>>
                             ELSE <<index[p[1]].prev, p[2] - 1>>]
           F(f) == [p \in D |->
                      IF p[1] = NoBlock \/ p[2] <= height THEN p[1]
                      ELSE IF SkipHelps(p[1], p[2], height)
                           THEN f[<<index[p[1]].skip, GetSkipHeight(p[2])>>]
                           ELSE f[<<index[p[1]].prev, p[2] - 1>>]]
<1>1. m \in [D -> Nat] /\ r \in [D -> R]
  OBVIOUS
<1>2. ASSUME NEW p \in D, p \notin Stop  PROVE s[p] \in D /\ m[s[p]] < m[p]
  <2>1. p[1] \in DOMAIN index /\ p[2] \in Nat \ {0}
    BY <1>2
  <2>2. CASE SkipHelps(p[1], p[2], height)
    <3>1. s[p] = <<index[p[1]].skip, GetSkipHeight(p[2])>>
      BY <2>2
    <3>2. index[p[1]].skip \in DOMAIN index
      BY <2>1, <2>2, SkipFacts DEF SkipHelps
    <3>3. GetSkipHeight(p[2]) \in Nat /\ GetSkipHeight(p[2]) < p[2]
      BY <2>1, SkipHeights
    <3>4. s[p] \in D /\ s[p][2] < p[2]
      BY <3>1, <3>2, <3>3
    <3> HIDE DEF s
    <3>5. QED  BY <3>4
  <2>3. CASE ~SkipHelps(p[1], p[2], height)
    <3>1. s[p] = <<index[p[1]].prev, p[2] - 1>>
      BY <2>3
    <3>2. index[p[1]].prev \in R
      BY <2>1, ShapeFacts
    <3>3. p[2] - 1 \in Nat /\ p[2] - 1 < p[2]
      BY <2>1
    <3>4. s[p] \in D /\ s[p][2] < p[2]
      BY <3>1, <3>2, <3>3
    <3> HIDE DEF s
    <3>5. QED  BY <3>4
  <2>4. QED  BY <2>2, <2>3
<1>3. PICK f \in [D -> R] : \A p \in D : f[p] = IF p \in Stop THEN r[p] ELSE f[s[p]]
  <2> HIDE DEF R, D, Stop, m, r, s
  <2>1. LoopsDown(D, m, Stop, s, R, r)
    BY <1>1, <1>2 DEF LoopsDown
  <2>2. QED  BY <2>1, Loop
<1>4. ASSUME NEW p \in D  PROVE f[p] = F(f)[p]
  <2>1. f[p] = IF p \in Stop THEN r[p] ELSE f[s[p]]
    BY <1>3
  <2>2. r[p] = p[1] /\ (p \in Stop <=> p[1] = NoBlock \/ p[2] <= height)
    OBVIOUS
  <2>3. f[s[p]] = IF SkipHelps(p[1], p[2], height)
                  THEN f[<<index[p[1]].skip, GetSkipHeight(p[2])>>]
                  ELSE f[<<index[p[1]].prev, p[2] - 1>>]
    OBVIOUS
  <2>4. F(f)[p] = IF p[1] = NoBlock \/ p[2] <= height THEN p[1]
                  ELSE IF SkipHelps(p[1], p[2], height)
                       THEN f[<<index[p[1]].skip, GetSkipHeight(p[2])>>]
                       ELSE f[<<index[p[1]].prev, p[2] - 1>>]
    OBVIOUS
  <2> HIDE DEF Stop, r, s, D, F
  <2>5. QED  BY <2>1, <2>2, <2>3, <2>4
<1>5. f = F(f)
  <2> HIDE DEF Stop, r, s, D
  <2>1. QED  BY <1>4
<1>6. \E g : g = F(g)
  BY <1>5
<1> DEFINE Walk == CHOOSE g : g = F(g)
<1>7. Walk = F(Walk)
  <2> HIDE DEF F
  <2>1. QED  BY <1>6, Zenon
<1>8. \A b : WalkBack(b, height) = Walk[<<b, Height(b)>>]
  BY Zenon DEF WalkBack
<1> HIDE DEF Walk
<1>9. \A p \in D : Walk[p] = IF p[1] = NoBlock \/ p[2] <= height THEN p[1]
                              ELSE IF SkipHelps(p[1], p[2], height)
                                   THEN Walk[<<index[p[1]].skip, GetSkipHeight(p[2])>>]
                                   ELSE Walk[<<index[p[1]].prev, p[2] - 1>>]
  BY <1>7
<1>10. QED
  BY <1>8, <1>9

\* BlockIndex::GetAncestor (block_index.cpp:27), the const one, finds the block that the
\* parents alone lead to: without skip pointers, as in every index the code makes, and
\* with them, whichever blocks have one, as long as each is to the height meant for it.
THEOREM AncestorOnPath ==
  ASSUME TreeShape(index), Skips(index), NEW height \in Nat, NEW b \in DOMAIN index, height <= Height(b)
  PROVE  GetAncestor(b, height) = PathIn(index, b)[height + 1]
<1>1. PICK f :
        /\ \A x : WalkBack(x, height) = f[<<x, Height(x)>>]
        /\ \A p \in (DOMAIN index \cup {NoBlock}) \X Nat :
             f[p] = IF p[1] = NoBlock \/ p[2] <= height THEN p[1]
                    ELSE IF SkipHelps(p[1], p[2], height)
                         THEN f[<<index[p[1]].skip, GetSkipHeight(p[2])>>]
                         ELSE f[<<index[p[1]].prev, p[2] - 1>>]
  BY WalkEquation
<1> DEFINE T == {x \in DOMAIN index : height <= index[x].height =>
                   f[<<x, index[x].height>>] = PathIn(index, x)[height + 1]}
<1>2. ASSUME NEW x \in DOMAIN index,
             \A c \in DOMAIN index : index[c].height < index[x].height => c \in T
      PROVE  x \in T
  <2>1. SUFFICES ASSUME height <= index[x].height
                 PROVE  f[<<x, index[x].height>>] = PathIn(index, x)[height + 1]
    OBVIOUS
  <2> DEFINE at == index[x].height
             skip == GetSkipHeight(at)
             P == PathIn(index, x)
  <2>2. at \in Nat /\ x # NoBlock /\ x \in DOMAIN index \cup {NoBlock}
    BY ShapeFacts
  <2>3. f[<<x, at>>] = IF at <= height THEN x
                       ELSE IF SkipHelps(x, at, height) THEN f[<<index[x].skip, skip>>]
                            ELSE f[<<index[x].prev, at - 1>>]
    <3> HIDE DEF at
    <3>1. <<x, at>> \in (DOMAIN index \cup {NoBlock}) \X Nat
      BY <2>2
    <3>2. QED  BY <1>1, <2>2, <3>1
  <2>4. OnPath(index, x)
    BY PathFacts
  <2>5. CASE at <= height
    <3>1. at = height
      BY <2>1, <2>2, <2>5
    <3>2. QED  BY <3>1, <2>3, <2>4 DEF OnPath
  <2>6. ASSUME NEW k \in Nat, height <= k, k < at, NEW c, c = P[k + 1]
        PROVE  f[<<c, k>>] = P[height + 1]
    <3>1. k + 1 \in 1..at + 1 /\ height + 1 \in 1..k + 1
      BY <2>2, <2>6
    <3>2. c \in DOMAIN index /\ index[c].height = k
      BY <2>4, <2>6, <3>1 DEF OnPath
    <3>3. c \in T
      BY <1>2, <2>6, <3>2
    <3>4. f[<<c, k>>] = PathIn(index, c)[height + 1]
      BY <2>6, <3>2, <3>3
    <3>5. PathIn(index, c)[height + 1] = P[height + 1]
      <4> HIDE DEF T
      <4>1. QED  BY <2>6, <3>1, PathOfPath
    <3>6. QED  BY <3>4, <3>5
  <2>7. CASE at > height /\ SkipHelps(x, at, height)
    <3>1. index[x].skip # NoBlock /\ skip >= height /\ skip \in Nat
      BY <2>2, <2>7, SkipHeights DEF SkipHelps
    <3>2. index[x].skip = P[skip + 1] /\ at # 0
      BY <3>1, SkipFacts
    <3>3. skip < at
      BY <2>2, <3>2, SkipHeights
    <3>4. f[<<index[x].skip, skip>>] = P[height + 1]
      BY <2>6, <3>1, <3>2, <3>3
    <3>5. QED  BY <2>2, <2>3, <2>7, <3>4
  <2>8. CASE at > height /\ ~SkipHelps(x, at, height)
    <3>1. index[x].prev # NoBlock
      BY <2>2, <2>8, ShapeFacts
    <3>2. index[x].prev = P[at]
      <4> DEFINE c == index[x].prev
      <4>1. c \in DOMAIN index /\ at = index[c].height + 1 /\ index[c].height \in Nat
        BY <3>1, ShapeFacts
      <4>2. PathIn(index, c)[index[c].height + 1] = c
        BY <4>1, PathFacts DEF OnPath
      <4>3. at \in 1..at
        BY <4>1
      <4>4. PathIn(index, c)[at] = P[at]
        BY <4>3, <3>1, PathOfParent
      <4>5. QED  BY <4>1, <4>2, <4>4
    <3>3. at - 1 \in Nat /\ height <= at - 1 /\ at - 1 < at /\ at - 1 + 1 = at
      BY <2>2, <2>8
    <3>4. f[<<index[x].prev, at - 1>>] = P[height + 1]
      BY <2>6, <3>2, <3>3
    <3>5. QED  BY <2>2, <2>3, <2>8, <3>4
  <2>9. QED  BY <2>2, <2>5, <2>7, <2>8
<1>3. DOMAIN index \subseteq T
  <2> HIDE DEF T
  <2>1. QED  BY <1>2, HeightInduction
<1>4. f[<<b, Height(b)>>] = PathIn(index, b)[height + 1]
  BY <1>3 DEF Height
<1>5. GetAncestor(b, height) = WalkBack(b, height)
  <2>1. Height(b) \in Nat
    BY ShapeFacts DEF Height
  <2>2. QED  BY <2>1 DEF GetAncestor
<1>6. QED  BY <1>1, <1>4, <1>5

-----------------------------------------------------------------------------
(* The inductive invariant. *)

\* What a call of LoadGenesisBlock leaves, and what there is before the first.
GenesisInv ==
  /\ sequence \in Nat \ {0}
  /\ best = NoBlock => candidates = {}
  /\ GenesisStands

ChainInv == chain = << >> \/ \E t \in DOMAIN index : chain = PathIn(index, t)

TreeIInv == TreeShape(index) /\ Skips(index) /\ ChainInv /\ GenesisInv

-----------------------------------------------------------------------------
(* What becomes of the tree. *)

\* k has one block more than i, which is a root, or hangs on a block as it should.
Hangs(i, e) ==
  /\ e.skip = NoBlock
  /\ \/ e.prev = NoBlock /\ e.height = 0
     \/ e.prev \in DOMAIN i /\ e.height = i[e.prev].height + 1
Grown(i, b, e, k) ==
  /\ b \in Blocks /\ b \notin DOMAIN i /\ e \in Entry /\ Hangs(i, e)
  /\ k = [x \in DOMAIN i \cup {b} |-> IF x = b THEN e ELSE i[x]]

\* Then k is a tree, and the others keep their places and paths.
TreeWith(i, b, e, k) ==
  /\ TreeShape(k) /\ Skips(k) /\ DOMAIN k = DOMAIN i \cup {b} /\ k[b] = e
  /\ \A x \in DOMAIN i : k[x] = i[x] /\ PathIn(k, x) = PathIn(i, x)

\* A tree with one entry more is a tree.
LEMMA Extended ==
  ASSUME NEW i, NEW b, NEW e, NEW k, TreeShape(i), Skips(i), Grown(i, b, e, k)
  PROVE  TreeWith(i, b, e, k)
<1> USE DEF Grown, Hangs
<1>1. DOMAIN k = DOMAIN i \cup {b} /\ k[b] = e /\ \A x \in DOMAIN i : k[x] = i[x]
  OBVIOUS
<1>2. TreeShape(k)
  <2>1. DOMAIN k \subseteq Blocks
    BY <1>1 DEF TreeShape
  <2>2. k \in [DOMAIN k -> Entry]
    BY <1>1 DEF TreeShape
  <2>3. ASSUME NEW x \in DOMAIN k
        PROVE  IF k[x].prev = NoBlock THEN k[x].height = 0
               ELSE k[x].prev \in DOMAIN k /\ k[x].height = k[k[x].prev].height + 1
    <3>1. CASE x \in DOMAIN i
      <4>1. IF i[x].prev = NoBlock THEN i[x].height = 0
            ELSE i[x].prev \in DOMAIN i /\ i[x].height = i[i[x].prev].height + 1
        BY <3>1 DEF TreeShape
      <4>2. QED  BY <1>1, <3>1, <4>1
    <3>2. CASE x = b
      <4>1. \/ e.prev = NoBlock /\ e.height = 0
            \/ e.prev \in DOMAIN i /\ e.prev # NoBlock /\ e.height = i[e.prev].height + 1
        BY ShapeFacts
      <4>2. QED  BY <1>1, <3>2, <4>1
    <3>3. QED  BY <1>1, <3>1, <3>2
  <2>4. QED  BY <2>1, <2>2, <2>3 DEF TreeShape
<1>3. \A x \in DOMAIN i : PathIn(k, x) = PathIn(i, x)
  BY <1>1, <1>2, PathKept
<1>4. ASSUME NEW x \in DOMAIN k
      PROVE  \/ k[x].skip = NoBlock
             \/ k[x].prev # NoBlock /\ k[x].skip = PathIn(k, x)[GetSkipHeight(k[x].height) + 1]
  <2>1. CASE x \in DOMAIN i
    BY <1>1, <1>3, <2>1 DEF Skips
  <2>2. CASE x = b
    BY <1>1, <2>2
  <2>3. QED  BY <1>1, <2>1, <2>2
<1>5. Skips(k)
  BY <1>4 DEF Skips
<1>6. QED  BY <1>1, <1>2, <1>3, <1>5 DEF TreeWith

\* What is linked hangs as it should.
LEMMA LinkedFacts ==
  ASSUME TreeShape(index), NEW prev, prev = NoBlock \/ prev \in DOMAIN index
  PROVE  Linked(prev) \in Entry /\ Hangs(index, Linked(prev))
<1> DEFINE height == IF prev = NoBlock THEN 0 ELSE index[prev].height + 1
           e == [prev |-> prev, skip |-> NoBlock, height |-> height, work |-> 0, tx |-> 0,
                 chainTx |-> 0, data |-> FALSE, seq |-> 0, valid |-> 0]
<1>1. Linked(prev) = e
  BY DEF Linked, Height
<1>2. prev \in Blocks \cup {NoBlock} /\ height \in Nat
  BY ShapeFacts
<1>3. \/ prev = NoBlock /\ height = 0
      \/ prev \in DOMAIN index /\ height = index[prev].height + 1
  BY ShapeFacts
<1> HIDE DEF height
<1>4. e \in Entry
  BY <1>2 DEF Entry
<1>5. e.prev = prev /\ e.skip = NoBlock /\ e.height = height
  OBVIOUS
<1> HIDE DEF e
<1>6. QED  BY <1>1, <1>3, <1>4, <1>5 DEF Hangs

\* The entry of a block without a parent, once its transactions came.
Loaded(b) ==
  [prev |-> NoBlock, skip |-> NoBlock, height |-> 0, work |-> BlockProof[b], tx |-> TxNum[b],
   chainTx |-> TxNum[b], data |-> TRUE, seq |-> sequence, valid |-> BlockValidTransactions]

LEMMA RootFacts ==
  ASSUME NEW b \in Blocks, NEW i, i[b] = Root(b)
  PROVE  Complete(i, b) = Loaded(b)
<1> DEFINE Rec(work, tx, chainTx, data, seq, valid) ==
             [prev |-> NoBlock, skip |-> NoBlock, height |-> 0, work |-> work, tx |-> tx,
              chainTx |-> chainTx, data |-> data, seq |-> seq, valid |-> valid]
           proof == BlockProof[b]
           count == TxNum[b]
           no == FALSE
           yes == TRUE
           known == [i[b] EXCEPT !.tx = TxNum[b], !.chainTx = 0, !.data = TRUE,
                       !.valid = IF @ < BlockValidTransactions THEN BlockValidTransactions ELSE @]
<1>1. Linked(NoBlock) = Rec(0, 0, 0, no, 0, 0)
  BY DEF Linked
<1>2. Root(b) = Rec(proof, 0, 0, no, 0, 2)
  <2> DEFINE blank == Linked(NoBlock)
  <2>1. Root(b) = [blank EXCEPT !.work = proof, !.valid = 2]
    BY DEF Root, BlockValidTree
  <2> HIDE DEF proof, no, blank
  <2>2. blank = Rec(0, 0, 0, no, 0, 0)
    BY <1>1 DEF blank
  <2>3. QED  BY <2>1, <2>2
<1>3. i[b].prev = NoBlock /\ i[b].valid = 2
  BY <1>2
<1>4. known = [i[b] EXCEPT !.tx = count, !.chainTx = 0, !.data = yes, !.valid = 3]
  BY <1>3 DEF BlockValidTransactions
<1>5. known = Rec(proof, count, 0, yes, 0, 3)
  <2> DEFINE x == i[b]
  <2>1. known = [x EXCEPT !.tx = count, !.chainTx = 0, !.data = yes, !.valid = 3]
    BY <1>4
  <2>2. x = Rec(proof, 0, 0, no, 0, 2)
    BY <1>2
  <2> HIDE DEF x, proof, count, no, yes, known
  <2>3. QED  BY <2>1, <2>2
<1>6. Complete(i, b) = [known EXCEPT !.chainTx = count, !.seq = sequence]
  BY <1>3 DEF Complete
<1>7. [known EXCEPT !.chainTx = count, !.seq = sequence] = Rec(proof, count, count, yes, sequence, 3)
  <2> DEFINE mid == [known EXCEPT !.chainTx = count]
             s == sequence
  <2>1. [known EXCEPT !.chainTx = count, !.seq = sequence] = [mid EXCEPT !.seq = s]
    BY Zenon
  <2>2. known = Rec(proof, count, 0, yes, 0, 3)
    BY <1>5
  <2> HIDE DEF proof, count, yes, known, s
  <2>3. mid = Rec(proof, count, count, yes, 0, 3)
    BY <2>2
  <2> HIDE DEF mid
  <2>4. [mid EXCEPT !.seq = s] = Rec(proof, count, count, yes, s, 3)
    BY <2>3
  <2>5. QED  BY <2>1, <2>4 DEF s
<1>8. QED  BY <1>6, <1>7 DEF Loaded, BlockValidTransactions

\* While the tree only grows, and the blocks keep their places, the chain is a path.
LEMMA ChainKept ==
  ASSUME TreeShape(index), ChainInv, UNCHANGED chain, DOMAIN index \subseteq DOMAIN index',
         \A x \in DOMAIN index : PathIn(index', x) = PathIn(index, x)
  PROVE  ChainInv'
  BY DEF ChainInv

\* A client's link, and the one of a LoadGenesisBlock that hangs.
LEMMA LinkKeeps ==
  ASSUME TreeShape(index), Skips(index), ChainInv, UNCHANGED chain,
         NEW b \in Blocks, b \notin DOMAIN index,
         NEW prev, prev = NoBlock \/ prev \in DOMAIN index, index' = With(b, Linked(prev))
  PROVE  TreeShape(index') /\ Skips(index') /\ ChainInv'
<1> DEFINE e == Linked(prev)
<1>1. e \in Entry /\ Hangs(index, e)
  BY LinkedFacts
<1>2. index' = [x \in DOMAIN index \cup {b} |-> IF x = b THEN e ELSE index[x]]
  BY DEF With
<1> HIDE DEF e
<1>3. TreeWith(index, b, e, index')
  BY <1>1, <1>2, Extended DEF Grown
<1>4. QED  BY <1>3, ChainKept DEF TreeWith

\* LoadGenesisBlock of a block without a parent: the first is its own chain.
LEMMA LoadRootKeeps ==
  ASSUME TreeIInv, Idle, NEW b \in Blocks, LoadGenesisBlock(b), LoadRoot(b)
  PROVE  TreeIInv'
<1> DEFINE e == Complete(With(b, Root(b)), b)
<1>1. /\ TreeShape(index) /\ Skips(index) /\ ChainInv /\ GenesisInv
      /\ b \notin DOMAIN index /\ (best = NoBlock => index = << >>)
      /\ index' = [x \in DOMAIN index \cup {b} |-> IF x = b THEN e ELSE index[x]]
      /\ best' = IF BetterHeader(Root(b)) THEN b ELSE best
      /\ sequence' = sequence + 1
      /\ IF Tip = NoBlock THEN chain' = <<b>> /\ UNCHANGED ended
         ELSE ended' = TRUE /\ UNCHANGED chain
  BY Zenon DEF TreeIInv, LoadGenesisBlock, LoadRoot, With
<1>2. candidates' = IF Tip = NoBlock \/ ~LessWork(index', b, Tip) THEN candidates \cup {b}
                    ELSE candidates
  BY Zenon DEF LoadRoot
<1>3. e = Loaded(b)
  <2> DEFINE i == With(b, Root(b))
  <2>1. i[b] = Root(b)
    BY DEF With
  <2> HIDE DEF i
  <2>2. Complete(i, b) = Loaded(b)
    BY <2>1, RootFacts
  <2>3. QED  BY <2>2 DEF i
<1> HIDE DEF e
<1>4. sequence \in Nat \ {0} /\ TxNum[b] \in Nat \ {0} /\ BlockProof[b] \in Nat
  BY <1>1, TreeAssumption DEF GenesisInv
<1>5. e \in Entry
  BY <1>3, <1>4 DEF Entry, Loaded, BlockValidTransactions
<1>6. /\ e.prev = NoBlock /\ e.height = 0 /\ e.skip = NoBlock
      /\ e.chainTx = TxNum[b] /\ e.seq = sequence
  BY <1>3 DEF Loaded
<1>7. TreeWith(index, b, e, index')
  BY <1>1, <1>5, <1>6, Extended DEF Grown, Hangs
<1>8. TreeShape(index') /\ Skips(index') /\ DOMAIN index' = DOMAIN index \cup {b} /\ index'[b] = e
  BY <1>7 DEF TreeWith
<1>9. b # NoBlock /\ (best' = b \/ (best' = best /\ best # NoBlock))
  <2>1. best = NoBlock => BetterHeader(Root(b))
    BY Zenon DEF BetterHeader
  <2>2. best' = IF BetterHeader(Root(b)) THEN b ELSE best
    BY <1>1
  <2>3. b # NoBlock
    BY TreeAssumption
  <2>4. CASE BetterHeader(Root(b))
    BY <2>2, <2>3, <2>4, Zenon
  <2>5. CASE ~BetterHeader(Root(b))
    BY <2>1, <2>2, <2>3, <2>5, Zenon
  <2>6. QED  BY <2>4, <2>5
<1>10. CASE Tip = NoBlock
  <2>1. chain' = <<b>>
    BY <1>1, <1>10
  <2>2. ChainInv'
    <3>1. PathIn(index', b) = <<b>>
      BY <1>6, <1>8, PathEquation
    <3>2. QED  BY <1>8, <2>1, <3>1 DEF ChainInv
  <2>3. best = NoBlock
    <3>1. SUFFICES ASSUME best # NoBlock PROVE FALSE
      OBVIOUS
    <3>2. DOMAIN index = {best} /\ chain = <<best>>
      BY <1>1, <3>1 DEF GenesisInv, GenesisStands
    <3>3. Tip = best
      BY <3>2 DEF Tip
    <3>4. QED  BY <1>10, <3>1, <3>3
  <2>4. DOMAIN index' = {b} /\ best' = b /\ candidates' = {b}
    <3>1. DOMAIN index = {}
      BY <1>1, <2>3
    <3>2. candidates = {} /\ candidates' = candidates \cup {b}
      BY <1>1, <1>2, <1>10, <2>3 DEF GenesisInv
    <3>3. QED  BY <1>8, <1>9, <2>3, <3>1, <3>2
  <2>5. GenesisInv'
    BY <1>1, <1>4, <1>6, <1>8, <1>9, <2>1, <2>4 DEF GenesisInv, GenesisStands
  <2>6. QED  BY <1>8, <2>2, <2>5 DEF TreeIInv
<1>11. CASE Tip # NoBlock
  <2>1. ended' = TRUE /\ UNCHANGED chain
    BY <1>1, <1>11
  <2>2. ChainInv'
    BY <1>1, <1>7, <2>1, ChainKept DEF TreeWith
  <2>3. GenesisInv'
    BY <1>1, <1>4, <1>9, <2>1 DEF GenesisInv, GenesisStands, Idle
  <2>4. QED  BY <1>8, <2>2, <2>3 DEF TreeIInv
<1>12. QED  BY <1>10, <1>11

-----------------------------------------------------------------------------
(* The chain. *)

\* The part of a path up to a block on it is the path to that block.
LEMMA PathShared ==
  ASSUME NEW i, TreeShape(i), NEW b \in DOMAIN i, NEW c \in DOMAIN i,
         NEW k \in 1..i[b].height + 1, k <= i[c].height + 1, PathIn(i, b)[k] = PathIn(i, c)[k]
  PROVE  \A j \in 1..k : PathIn(i, b)[j] = PathIn(i, c)[j]
<1> DEFINE x == PathIn(i, b)[k]
<1>1. i[c].height \in Nat /\ i[b].height \in Nat
  BY ShapeFacts
<1>2. k \in 1..i[c].height + 1
  BY <1>1
<1>3. ASSUME NEW j \in 1..k  PROVE PathIn(i, b)[j] = PathIn(i, c)[j]
  <2>1. PathIn(i, x)[j] = PathIn(i, b)[j]
    BY PathOfPath
  <2>2. PathIn(i, PathIn(i, c)[k])[j] = PathIn(i, c)[j]
    BY <1>2, PathOfPath
  <2>3. QED  BY <2>1, <2>2
<1>4. QED  BY <1>3

\* A block is the last but one on the path to its child.
LEMMA ParentOnPath ==
  ASSUME NEW i, TreeShape(i), NEW b \in DOMAIN i, i[b].prev # NoBlock
  PROVE  PathIn(i, b)[i[b].height] = i[b].prev
<1> DEFINE c == i[b].prev
<1>1. c \in DOMAIN i /\ i[b].height = i[c].height + 1 /\ i[c].height \in Nat
  BY ShapeFacts
<1>2. PathIn(i, c)[i[c].height + 1] = c
  BY <1>1, PathFacts DEF OnPath
<1>3. i[b].height \in 1..i[b].height
  BY <1>1
<1>4. PathIn(i, c)[i[b].height] = PathIn(i, b)[i[b].height]
  BY <1>3, PathOfParent
<1>5. QED  BY <1>1, <1>2, <1>4

\* The loop of SetTip is a function with its equation.
LEMMA FillEquation ==
  ASSUME TreeShape(index), NEW n \in Nat, NEW row \in [1..n -> Blocks \cup {NoBlock}]
  PROVE  \E f :
           /\ \A b : FillFrom(row, b) = f[b]
           /\ \A x \in DOMAIN index \cup {NoBlock} :
                f[x] = IF x = NoBlock \/ row[Height(x) + 1] = x THEN row
                       ELSE [f[index[x].prev] EXCEPT ![Height(x) + 1] = x]
<1> DEFINE D == DOMAIN index \cup {NoBlock}
           R == [1..n -> Blocks \cup {NoBlock}]
           Stop == {x \in D : x = NoBlock \/ row[Height(x) + 1] = x}
           m == [x \in D |-> IF x = NoBlock THEN 0 ELSE index[x].height + 1]
           s == [x \in D |-> index[x].prev]
           r == [x \in D |-> row]
           h == [p \in D \X R |-> IF p[1] \in Blocks
                                  THEN [p[2] EXCEPT ![Height(p[1]) + 1] = p[1]] ELSE row]
           F(f) == [x \in D |-> IF x = NoBlock \/ row[Height(x) + 1] = x THEN row
                                ELSE [f[index[x].prev] EXCEPT ![Height(x) + 1] = x]]
<1>1. m \in [D -> Nat]
  BY ShapeFacts
<1>2. r \in [D -> R]
  OBVIOUS
<1>3. h \in [D \X R -> R]
  <2>1. ASSUME NEW p \in D \X R
        PROVE  (IF p[1] \in Blocks THEN [p[2] EXCEPT ![Height(p[1]) + 1] = p[1]] ELSE row) \in R
    <3>1. p[2] \in R
      OBVIOUS
    <3>2. p[1] \in Blocks => [p[2] EXCEPT ![Height(p[1]) + 1] = p[1]] \in R
      BY <3>1
    <3>3. QED  BY <3>2
  <2> HIDE DEF R
  <2>2. QED  BY <2>1
<1>4. ASSUME NEW x \in D, x \notin Stop  PROVE s[x] \in D /\ m[s[x]] < m[x]
  <2>1. x \in DOMAIN index /\ x # NoBlock
    BY <1>4
  <2>2. CASE index[x].prev = NoBlock
    BY <2>1, <2>2, ShapeFacts
  <2>3. CASE index[x].prev # NoBlock
    <3>1. /\ index[x].prev \in DOMAIN index /\ index[index[x].prev].height \in Nat
          /\ index[x].height = index[index[x].prev].height + 1
      BY <2>1, <2>3, ShapeFacts
    <3>2. QED  BY <2>1, <2>3, <3>1
  <2>4. QED  BY <2>2, <2>3
<1>5. GoesDown(D, m, Stop, s, R, r, h)
  <2> HIDE DEF D, R, Stop, m, s, r, h
  <2>1. QED  BY <1>1, <1>2, <1>3, <1>4 DEF GoesDown
<1>6. PICK f \in [D -> R] : \A x \in D : f[x] = IF x \in Stop THEN r[x] ELSE h[<<x, f[s[x]]>>]
  <2> HIDE DEF D, R, Stop, m, s, r, h
  <2>1. QED  BY <1>5, Recursion
<1>7. ASSUME NEW x \in D  PROVE f[x] = F(f)[x]
  <2>1. f[x] = IF x \in Stop THEN r[x] ELSE h[<<x, f[s[x]]>>]
    BY <1>6
  <2>2. CASE x \in Stop
    BY <2>1, <2>2
  <2>3. CASE x \notin Stop
    <3>1. s[x] \in D /\ s[x] = index[x].prev /\ x \in DOMAIN index /\ x \in Blocks
      BY <2>3, <1>4, ShapeFacts
    <3>2. f[s[x]] \in R
      <4> HIDE DEF D, R, s, Stop, r, h
      <4>1. QED  BY <3>1, <1>6
    <3>3. h[<<x, f[s[x]]>>] = [f[s[x]] EXCEPT ![Height(x) + 1] = x]
      <4> DEFINE y == f[s[x]]
      <4>1. y \in R
        BY <3>2
      <4> HIDE DEF y, R, D, s
      <4>2. <<x, y>> \in D \X R
        BY <4>1
      <4>3. h[<<x, y>>] = [y EXCEPT ![Height(x) + 1] = x]
        BY <3>1, <4>2
      <4>4. QED  BY <4>3 DEF y
    <3>4. F(f)[x] = [f[index[x].prev] EXCEPT ![Height(x) + 1] = x]
      BY <2>3
    <3> HIDE DEF F, h, s, Stop
    <3>5. QED  BY <2>1, <2>3, <3>1, <3>3, <3>4
  <2>4. QED  BY <2>2, <2>3
<1>8. f = F(f)
  <2> HIDE DEF Stop, r, h, s, D
  <2>1. QED  BY <1>7
<1>9. \E g : g = F(g)
  BY <1>8
<1> DEFINE Fill == CHOOSE g : g = F(g)
<1>10. Fill = F(Fill)
  <2> HIDE DEF F
  <2>1. QED  BY <1>9, Zenon
<1>11. \A b : FillFrom(row, b) = Fill[b]
  BY Zenon DEF FillFrom
<1> HIDE DEF Fill
<1>12. \A x \in D : Fill[x] = IF x = NoBlock \/ row[Height(x) + 1] = x THEN row
                              ELSE [Fill[index[x].prev] EXCEPT ![Height(x) + 1] = x]
  BY <1>10
<1>13. QED  BY <1>11, <1>12

\* Chain::SetTip (chain_state.cpp:7): whatever path the chain was, it becomes the path to
\* the new tip, though filling stops at the first cell that is right.
THEOREM SetTipIsPath ==
  ASSUME TreeShape(index), ChainInv, NEW b \in DOMAIN index, SetTip(b)
  PROVE  chain' = PathIn(index, b)
<1> DEFINE n == Height(b) + 1
           P == PathIn(index, b)
           row == [h \in 1..n |-> IF h <= Len(chain) THEN chain[h] ELSE NoBlock]
           M(k) == [j \in 1..n |-> IF j <= k THEN P[j] ELSE row[j]]
<1>1. Height(b) \in Nat /\ n \in Nat \ {0}
  BY ShapeFacts DEF Height
<1>2. P \in Seq(DOMAIN index) /\ Len(P) = n /\ P[n] = b /\ \A j \in 1..n : P[j] \in DOMAIN index
  BY PathFacts DEF OnPath, Height
<1>3. PICK c : \/ chain = << >>
               \/ c \in DOMAIN index /\ chain = PathIn(index, c)
  BY DEF ChainInv
<1>4. chain \in Seq(DOMAIN index) /\ (c \in DOMAIN index /\ chain = PathIn(index, c) => Len(chain) = Height(c) + 1)
  <2>1. CASE chain = << >> /\ ~(c \in DOMAIN index /\ chain = PathIn(index, c))
    BY <2>1
  <2>2. CASE c \in DOMAIN index /\ chain = PathIn(index, c)
    BY <2>2, PathFacts DEF OnPath, Height
  <2>3. QED  BY <1>3, <2>1, <2>2
<1>5. row \in [1..n -> Blocks \cup {NoBlock}]
  <2>1. DOMAIN index \subseteq Blocks /\ Len(chain) \in Nat
    BY <1>4, ShapeFacts
  <2>2. ASSUME NEW h \in 1..n
        PROVE  (IF h <= Len(chain) THEN chain[h] ELSE NoBlock) \in Blocks \cup {NoBlock}
    BY <1>1, <1>4, <2>1
  <2>3. QED  BY <2>2
<1>6. \A j \in 1..n : row[j] # NoBlock =>
        j <= Len(chain) /\ row[j] = chain[j] /\ c \in DOMAIN index /\ chain = PathIn(index, c)
  <2>1. \A j \in 1..n : row[j] # NoBlock => j <= Len(chain) /\ row[j] = chain[j]
    OBVIOUS
  <2>2. \A j \in 1..n : ~(j <= Len(<< >>))
    BY <1>1
  <2>3. QED  BY <1>3, <2>1, <2>2
<1>7. chain' = FillFrom(row, b)
  BY Zenon DEF SetTip
<1> HIDE DEF n, row
<1>8. PICK f :
        /\ \A x : FillFrom(row, x) = f[x]
        /\ \A x \in DOMAIN index \cup {NoBlock} :
             f[x] = IF x = NoBlock \/ row[Height(x) + 1] = x THEN row
                    ELSE [f[index[x].prev] EXCEPT ![Height(x) + 1] = x]
  <2>1. n \in Nat
    BY <1>1
  <2>2. QED  BY <2>1, <1>5, FillEquation
<1> DEFINE T == {x \in DOMAIN index :
                   Height(x) + 1 <= n /\ P[Height(x) + 1] = x => f[x] = M(Height(x) + 1)}
<1>9. ASSUME NEW x \in DOMAIN index, index[x].prev # NoBlock => index[x].prev \in T
      PROVE  x \in T
  <2> DEFINE k == Height(x) + 1
             y == index[x].prev
  <2>1. SUFFICES ASSUME k <= n, P[k] = x  PROVE f[x] = M(k)
    OBVIOUS
  <2>2. Height(x) \in Nat /\ k \in 1..n /\ x # NoBlock
    BY <1>1, <2>1, ShapeFacts DEF Height
  <2>3. f[x] = IF row[k] = x THEN row ELSE [f[y] EXCEPT ![k] = x]
    BY <1>8, <2>2
  <2> HIDE DEF T, k
  <2>4. CASE row[k] = x
    <3>1. k <= Len(chain) /\ chain[k] = x /\ c \in DOMAIN index /\ chain = PathIn(index, c)
      BY <1>6, <2>2, <2>4
    <3>2. \A j \in 1..k : chain[j] = P[j]
      <4>1. k <= index[c].height + 1 /\ k \in 1..index[b].height + 1
        BY <1>4, <2>2, <3>1 DEF Height, n
      <4>2. PathIn(index, b)[k] = PathIn(index, c)[k]
        BY <2>1, <3>1
      <4>3. \A j \in 1..k : PathIn(index, b)[j] = PathIn(index, c)[j]
        BY <3>1, <4>1, <4>2, PathShared
      <4>4. QED  BY <3>1, <4>3
    <3>3. \A j \in 1..n : j <= k => row[j] = P[j]
      <4>1. \A j \in 1..n : j <= k => j \in 1..k /\ j <= Len(chain)
        BY <1>1, <1>4, <2>2, <3>1
      <4>2. \A j \in 1..n : j <= Len(chain) => row[j] = chain[j]
        BY DEF row
      <4>3. QED  BY <3>2, <4>1, <4>2
    <3>4. row = M(k)
      <4>1. row = [j \in 1..n |-> row[j]]
        BY <1>5
      <4>2. QED  BY <3>3, <4>1
    <3>5. QED  BY <2>3, <2>4, <3>4
  <2>5. CASE row[k] # x /\ y = NoBlock
    <3>1. k = 1 /\ f[y] = row
      <4>1. index[x].height = 0
        BY <2>5, ShapeFacts
      <4>2. f[NoBlock] = row
        BY <1>8
      <4>3. QED  BY <2>5, <4>1, <4>2 DEF Height, k
    <3>2. [row EXCEPT ![1] = x] = M(1)
      <4>1. \A j \in 1..n : j <= 1 <=> j = 1
        BY <1>1
      <4>2. P[1] = x
        BY <2>1, <3>1
      <4>3. \A j \in 1..n : [row EXCEPT ![1] = x][j] = M(1)[j]
        BY <1>5, <4>1, <4>2
      <4>4. QED  BY <1>5, <4>3
    <3>3. QED  BY <2>3, <2>5, <3>1, <3>2
  <2>6. CASE row[k] # x /\ y # NoBlock
    <3>1. y \in DOMAIN index /\ Height(x) = Height(y) + 1 /\ Height(y) \in Nat /\ y \in T
      BY <1>9, <2>6, ShapeFacts DEF Height
    <3>2. k - 1 = Height(y) + 1 /\ k - 1 \in 1..n /\ k - 1 = index[x].height /\ k - 1 < k
      <4>1. k = Height(x) + 1 /\ Height(x) = index[x].height
        BY DEF k, Height
      <4>2. n \in Nat /\ k \in 1..n
        BY <1>1, <2>2
      <4>3. QED  BY <2>2, <3>1, <4>1, <4>2
    <3>3. P[k - 1] = y
      <4>1. PathIn(index, x)[index[x].height] = y
        BY <2>6, ParentOnPath
      <4>2. k \in 1..index[b].height + 1 /\ k - 1 \in 1..k
        BY <2>2, <3>2 DEF n, Height
      <4>3. PathIn(index, P[k])[k - 1] = P[k - 1]
        BY <4>2, PathOfPath
      <4>4. QED  BY <2>1, <3>2, <4>1, <4>3
    <3>4. f[y] = M(k - 1)
      <4>1. Height(y) + 1 <= n
        BY <1>1, <3>2
      <4>2. QED  BY <3>1, <3>2, <3>3, <4>1 DEF T
    <3>5. [M(k - 1) EXCEPT ![k] = x] = M(k)
      <4>1. \A j \in 1..n : j <= k <=> j = k \/ j <= k - 1
        BY <2>2
      <4>2. k # k - 1 /\ ~(k <= k - 1)
        BY <2>2
      <4>3. P[k] = x
        BY <2>1
      <4>4. \A j \in 1..n : [M(k - 1) EXCEPT ![k] = x][j] = M(k)[j]
        BY <4>1, <4>2, <4>3
      <4>5. QED  BY <4>4
    <3>6. QED  BY <2>3, <2>6, <3>4, <3>5
  <2>7. QED  BY <2>4, <2>5, <2>6
<1>10. DOMAIN index \subseteq T
  <2> HIDE DEF T
  <2>1. QED  BY <1>9, TreeInduction
<1>11. f[b] = M(n)
  BY <1>1, <1>2, <1>10 DEF n
<1>12. M(n) = P
  <2>1. \A j \in 1..n : j <= n
    BY <1>1
  <2>2. M(n) = [j \in 1..n |-> P[j]]
    BY <2>1
  <2>3. P = [j \in 1..n |-> P[j]]
    BY <1>2
  <2>4. QED  BY <2>2, <2>3
<1>13. QED  BY <1>7, <1>8, <1>11, <1>12

\* SetTip, in a client's chain.
LEMMA MoveKeeps ==
  ASSUME TreeIInv, MoveTip
  PROVE  TreeIInv'
<1>1. /\ TreeShape(index) /\ Skips(index) /\ GenesisInv /\ ChainInv
      /\ UNCHANGED <<index, best, candidates, sequence>> /\ best = NoBlock
      /\ \/ \E b \in DOMAIN index : SetTip(b)
         \/ chain' = << >>
  BY DEF TreeIInv, MoveTip
<1>2. TreeShape(index') /\ Skips(index')
  BY <1>1
<1>3. GenesisInv'
  BY <1>1 DEF GenesisInv, GenesisStands
<1>4. ChainInv'
  <2>1. CASE chain' = << >>
    BY <2>1 DEF ChainInv
  <2>2. ASSUME NEW b \in DOMAIN index, SetTip(b)  PROVE ChainInv'
    <3>1. chain' = PathIn(index, b)
      BY <1>1, <2>2, SetTipIsPath
    <3>2. QED  BY <1>1, <3>1 DEF ChainInv
  <2>3. QED  BY <1>1, <2>1, <2>2
<1>5. QED  BY <1>2, <1>3, <1>4 DEF TreeIInv

LEMMA TreeInitIInv == TreeInit => TreeIInv
<1>1. SUFFICES ASSUME TreeInit PROVE TreeIInv
  OBVIOUS
<1>2. DOMAIN index = {} /\ best = NoBlock /\ candidates = {} /\ sequence = 1 /\ chain = << >>
  BY <1>1 DEF TreeInit
<1>3. index = [b \in {} |-> NoBlock]
  BY <1>1 DEF TreeInit
<1>4. TreeShape(index) /\ Skips(index)
  BY <1>2, <1>3 DEF TreeShape, Skips
<1>5. GenesisInv /\ ChainInv
  BY <1>2 DEF GenesisInv, GenesisStands, ChainInv
<1>6. QED  BY <1>4, <1>5 DEF TreeIInv

LEMMA TreeNextIInv == TreeIInv /\ [TreeNext]_treeState => TreeIInv'
<1>1. SUFFICES ASSUME TreeIInv, [TreeNext]_treeState PROVE TreeIInv'
  OBVIOUS
<1>2. TreeShape(index) /\ Skips(index) /\ ChainInv /\ GenesisInv
  BY <1>1 DEF TreeIInv
<1>3. ASSUME NEW b \in Blocks, LinkIndex(b)  PROVE TreeIInv'
  <2>1. /\ b \notin DOMAIN index /\ (Parent[b] = NoBlock \/ Parent[b] \in DOMAIN index)
        /\ index' = With(b, Linked(Parent[b])) /\ UNCHANGED chain
        /\ best = NoBlock /\ UNCHANGED <<best, candidates, sequence>>
    BY <1>3 DEF LinkIndex
  <2>2. TreeShape(index') /\ Skips(index') /\ ChainInv'
    BY <1>2, <2>1, LinkKeeps
  <2>3. GenesisInv'
    BY <1>2, <2>1 DEF GenesisInv, GenesisStands
  <2>4. QED  BY <2>2, <2>3 DEF TreeIInv
<1>4. ASSUME Idle, NEW b \in Blocks, LoadGenesisBlock(b)  PROVE TreeIInv'
  <2>1. CASE LoadChild(b)
    <3>1. /\ b \notin DOMAIN index /\ Parent[b] \in DOMAIN index
          /\ index' = With(b, Linked(Parent[b])) /\ UNCHANGED chain
          /\ UNCHANGED <<best, candidates, sequence>> /\ building' = b
      BY <1>4, <2>1 DEF LoadGenesisBlock, LoadChild, CallGetAncestor
    <3>2. TreeShape(index') /\ Skips(index') /\ ChainInv'
      BY <1>2, <3>1, LinkKeeps
    <3>3. building' # NoBlock
      BY <3>1, TreeAssumption
    <3>4. GenesisInv'
      BY <1>2, <3>1, <3>3 DEF GenesisInv, GenesisStands, Idle
    <3>5. QED  BY <3>2, <3>4 DEF TreeIInv
  <2>2. CASE LoadRoot(b)
    BY <1>1, <1>4, <2>2, LoadRootKeeps
  <2>3. QED  BY <1>4, <2>1, <2>2 DEF LoadGenesisBlock
<1>5. CASE MoveTip
  BY <1>1, <1>5, MoveKeeps
<1>6. ASSUME \/ \E b \in DOMAIN index : BuildSkip(b)
             \/ GetAncestorAgain \/ UNCHANGED treeState
      PROVE  TreeIInv'
  <2>1. UNCHANGED <<index, best, candidates, sequence, chain>>
    BY <1>6 DEF BuildSkip, GetAncestorAgain, treeState
  <2>2. Idle' => Idle \/ best' = NoBlock
    BY <1>6 DEF BuildSkip, GetAncestorAgain, Idle, treeState
  <2>3. TreeShape(index') /\ Skips(index') /\ ChainInv'
    BY <1>2, <2>1 DEF ChainInv
  <2>4. GenesisInv'
    BY <1>2, <2>1, <2>2 DEF GenesisInv, GenesisStands
  <2>5. QED  BY <2>3, <2>4 DEF TreeIInv
<1>7. QED  BY <1>1, <1>3, <1>4, <1>5, <1>6 DEF TreeNext

-----------------------------------------------------------------------------
(* What the invariant says of the operations that read the tree. *)

\* The path of the property is that of the proof.
LEMMA PathIsPathIn == \A b : Path(b) = PathIn(index, b)
  BY Zenon DEF Path, PathIn

\* The parts of TreeSafe, from those of the invariant.
LEMMA AncestorsFollow == TreeShape(index) /\ Skips(index) => AncestorsAreExact
<1>1. SUFFICES ASSUME TreeShape(index), Skips(index), NEW b \in DOMAIN index
               PROVE  LET path == Path(b)
                      IN Len(path) = Height(b) + 1
                           /\ \A h \in 0..Height(b) : GetAncestor(b, h) = path[h + 1]
  BY Zenon DEF AncestorsAreExact
<1>2. Len(PathIn(index, b)) = Height(b) + 1
  BY <1>1, PathFacts DEF OnPath, Height
<1>3. ASSUME NEW h \in 0..Height(b)  PROVE GetAncestor(b, h) = PathIn(index, b)[h + 1]
  <2>1. h \in Nat /\ h <= Height(b)
    BY <1>1, ShapeFacts DEF Height
  <2>2. QED  BY <1>1, <2>1, AncestorOnPath
<1>4. QED  BY <1>2, <1>3, PathIsPathIn

\* The tip of a chain that is the path to a block is that block.
LEMMA TipOfPath ==
  ASSUME TreeShape(index), NEW t \in DOMAIN index, chain = PathIn(index, t)
  PROVE  Tip = t /\ Len(chain) = Height(t) + 1 /\ chain \in Seq(DOMAIN index) /\ chain # << >>
<1>1. chain \in Seq(DOMAIN index) /\ Len(chain) = Height(t) + 1 /\ chain[Height(t) + 1] = t
  BY PathFacts DEF OnPath, Height
<1>2. Height(t) \in Nat
  BY ShapeFacts DEF Height
<1>3. chain # << >>
  BY <1>1, <1>2
<1>4. QED  BY <1>1, <1>3 DEF Tip

\* The loop of FindFork is a function with its equation.
LEMMA FirstEquation ==
  ASSUME TreeShape(index)
  PROVE  \E f :
           /\ \A b : FirstInChain(b) = f[b]
           /\ \A x \in DOMAIN index \cup {NoBlock} :
                f[x] = IF x = NoBlock \/ IsExist(x) THEN x ELSE f[index[x].prev]
<1> DEFINE D == DOMAIN index \cup {NoBlock}
           Stop == {x \in D : x = NoBlock \/ IsExist(x)}
           m == [x \in D |-> IF x = NoBlock THEN 0 ELSE index[x].height + 1]
           s == [x \in D |-> index[x].prev]
           r == [x \in D |-> x]
           F(f) == [x \in D |-> IF x = NoBlock \/ IsExist(x) THEN x ELSE f[index[x].prev]]
<1>1. m \in [D -> Nat]
  BY ShapeFacts
<1>2. r \in [D -> D]
  OBVIOUS
<1>3. ASSUME NEW x \in D, x \notin Stop  PROVE s[x] \in D /\ m[s[x]] < m[x]
  <2>1. x \in DOMAIN index /\ x # NoBlock
    BY <1>3
  <2>2. CASE index[x].prev = NoBlock
    BY <2>1, <2>2, ShapeFacts
  <2>3. CASE index[x].prev # NoBlock
    <3>1. /\ index[x].prev \in DOMAIN index /\ index[index[x].prev].height \in Nat
          /\ index[x].height = index[index[x].prev].height + 1
      BY <2>1, <2>3, ShapeFacts
    <3>2. QED  BY <2>1, <2>3, <3>1
  <2>4. QED  BY <2>2, <2>3
<1>4. LoopsDown(D, m, Stop, s, D, r)
  <2> HIDE DEF D, Stop, m, s, r
  <2>1. QED  BY <1>1, <1>2, <1>3 DEF LoopsDown
<1>5. PICK f \in [D -> D] : \A x \in D : f[x] = IF x \in Stop THEN r[x] ELSE f[s[x]]
  <2> HIDE DEF D, Stop, m, s, r
  <2>1. QED  BY <1>4, Loop
<1>6. ASSUME NEW x \in D  PROVE f[x] = F(f)[x]
  <2>1. f[x] = IF x \in Stop THEN r[x] ELSE f[s[x]]
    BY <1>5
  <2>2. r[x] = x /\ s[x] = index[x].prev /\ (x \in Stop <=> x = NoBlock \/ IsExist(x))
    OBVIOUS
  <2> HIDE DEF Stop, r, s, D
  <2>3. QED  BY <2>1, <2>2
<1>7. f = F(f)
  <2> HIDE DEF Stop, r, s, D
  <2>1. QED  BY <1>6
<1>8. \E g : g = F(g)
  BY <1>7
<1> DEFINE First == CHOOSE g : g = F(g)
<1>9. First = F(First)
  <2> HIDE DEF F
  <2>1. QED  BY <1>8, Zenon
<1>10. \A b : FirstInChain(b) = First[b]
  BY Zenon DEF FirstInChain
<1> HIDE DEF First
<1>11. \A x \in D : First[x] = IF x = NoBlock \/ IsExist(x) THEN x ELSE First[index[x].prev]
  BY <1>9
<1>12. QED  BY <1>10, <1>11

\* The heights at which the path to x and the chain have the same block, and the last.
Common(x) == {i \in 1..index[x].height + 1 : PathIn(index, x)[i] = chain[i]}
LastCommon(x, y) ==
  \/ Common(x) = {} /\ y = NoBlock
  \/ \E i \in Common(x) : y = chain[i] /\ \A j \in Common(x) : j <= i

\* It ends at the last block that both share.
LEMMA FirstIsLastCommon ==
  ASSUME TreeShape(index), NEW t \in DOMAIN index, chain = PathIn(index, t)
  PROVE  \A x \in DOMAIN index :
           index[x].height + 1 <= Len(chain) => LastCommon(x, FirstInChain(x))
<1>1. PICK f :
        /\ \A x : FirstInChain(x) = f[x]
        /\ \A x \in DOMAIN index \cup {NoBlock} :
             f[x] = IF x = NoBlock \/ IsExist(x) THEN x ELSE f[index[x].prev]
  BY FirstEquation
<1>2. Len(chain) \in Nat
  BY TipOfPath
<1> DEFINE T == {x \in DOMAIN index : index[x].height + 1 <= Len(chain) => LastCommon(x, f[x])}
<1>3. ASSUME NEW x \in DOMAIN index, index[x].prev # NoBlock => index[x].prev \in T
      PROVE  x \in T
  <2> DEFINE k == index[x].height + 1
             c == index[x].prev
             P == PathIn(index, x)
  <2>1. SUFFICES ASSUME k <= Len(chain)  PROVE LastCommon(x, f[x])
    OBVIOUS
  <2>2. index[x].height \in Nat /\ k \in 1..k /\ x # NoBlock /\ P[k] = x
    BY ShapeFacts, PathFacts DEF OnPath
  <2>3. IsExist(x) <=> chain[k] = x
    BY <1>2, <2>1, <2>2 DEF IsExist, GetBlockIndex, Height
  <2>4. f[x] = IF IsExist(x) THEN x ELSE f[c]
    BY <1>1, <2>2
  <2>5. \A i \in 1..k : i <= k /\ (i # k => i \in 1..k - 1)
    BY <2>2
  <2>6. CASE IsExist(x)
    <3>1. k \in Common(x) /\ chain[k] = x
      BY <2>2, <2>3, <2>6 DEF Common
    <3>2. \A j \in Common(x) : j <= k
      BY <2>5 DEF Common
    <3>3. QED  BY <2>4, <2>6, <3>1, <3>2 DEF LastCommon
  <2>7. CASE ~IsExist(x) /\ c = NoBlock
    <3>1. k = 1 /\ f[c] = NoBlock
      <4>1. index[x].height = 0
        BY <2>7, ShapeFacts
      <4>2. f[NoBlock] = NoBlock
        BY <1>1
      <4>3. QED  BY <2>7, <4>1, <4>2
    <3>2. Common(x) = {}
      <4>1. \A i \in 1..k : i = k
        BY <3>1
      <4>2. QED  BY <2>2, <2>3, <2>7, <4>1 DEF Common
    <3>3. QED  BY <2>4, <2>7, <3>1, <3>2 DEF LastCommon
  <2>8. CASE ~IsExist(x) /\ c # NoBlock
    <3>1. c \in DOMAIN index /\ index[x].height = index[c].height + 1 /\ index[c].height \in Nat
      BY <2>8, ShapeFacts
    <3>2. index[c].height + 1 <= Len(chain)
      BY <1>2, <2>1, <3>1
    <3>3. LastCommon(c, f[c])
      BY <1>3, <2>8, <3>2
    <3>4. Common(x) = Common(c)
      <4>1. \A i \in 1..index[x].height : PathIn(index, c)[i] = P[i]
        BY <2>8, PathOfParent
      <4>2. k \notin Common(x)
        BY <2>2, <2>3, <2>8 DEF Common
      <4>3. \A i : i \in 1..k /\ i # k <=> i \in 1..index[x].height
        BY <2>2
      <4>4. Common(c) = {i \in 1..index[x].height : PathIn(index, c)[i] = chain[i]}
        BY <3>1 DEF Common
      <4>5. Common(x) = {i \in 1..k : P[i] = chain[i]}
        BY DEF Common
      <4> HIDE DEF k, P, c
      <4>6. QED  BY <4>1, <4>2, <4>3, <4>4, <4>5
    <3>5. QED  BY <2>4, <2>8, <3>3, <3>4 DEF LastCommon
  <2>9. QED  BY <2>6, <2>7, <2>8
<1>4. DOMAIN index \subseteq T
  <2> HIDE DEF T
  <2>1. QED  BY <1>3, TreeInduction
<1>5. QED  BY <1>1, <1>4

\* The chain and where it forks from others.
LEMMA ChainFollows == TreeShape(index) /\ Skips(index) /\ ChainInv => ChainIsPath
<1>1. SUFFICES ASSUME TreeShape(index), Skips(index), chain # << >>, NEW t \in DOMAIN index,
                      chain = PathIn(index, t)
               PROVE  ChainIsPath
  BY DEF ChainInv, ChainIsPath
<1>2. Tip = t /\ Len(chain) = Height(t) + 1 /\ Height(t) \in Nat
  BY <1>1, TipOfPath, ShapeFacts DEF Height
<1>3. chain = Path(Tip)
  BY <1>1, <1>2, PathIsPathIn
<1>4. ASSUME NEW b \in DOMAIN index
      PROVE  LET common == {i \in 1..Len(chain) : i <= Len(Path(b)) /\ Path(b)[i] = chain[i]}
             IN FindFork(b) = IF common = {} THEN NoBlock
                              ELSE chain[CHOOSE i \in common : \A j \in common : j <= i]
  <2> DEFINE common == {i \in 1..Len(chain) : i <= Len(Path(b)) /\ Path(b)[i] = chain[i]}
             from == IF Height(b) > Len(chain) - 1 THEN GetAncestor(b, Len(chain) - 1) ELSE b
             P == PathIn(index, b)
  <2>0. SUFFICES FindFork(b) = IF common = {} THEN NoBlock
                               ELSE chain[CHOOSE i \in common : \A j \in common : j <= i]
    BY Zenon
  <2>1. FindFork(b) = FirstInChain(from)
    BY <1>1 DEF FindFork
  <2>2. Height(b) \in Nat /\ Height(b) = index[b].height /\ Len(P) = Height(b) + 1 /\ P[Height(b) + 1] = b
    BY <1>1, ShapeFacts, PathFacts DEF Height, OnPath
  <2>3. PICK k \in 1..Height(b) + 1 :
          /\ from = P[k] /\ k <= Len(chain)
          /\ k = Height(b) + 1 \/ k = Len(chain)
    <3>1. CASE Height(b) > Len(chain) - 1
      <4>1. Len(chain) - 1 \in Nat /\ Len(chain) - 1 <= Height(b)
        BY <1>2, <2>2, <3>1
      <4>2. from = P[Len(chain) - 1 + 1]
        BY <1>1, <3>1, <4>1, AncestorOnPath
      <4>3. Len(chain) \in 1..Height(b) + 1 /\ Len(chain) - 1 + 1 = Len(chain)
        BY <1>2, <2>2, <4>1
      <4>4. from = P[Len(chain)] /\ Len(chain) <= Len(chain)
        BY <1>2, <4>2, <4>3
      <4> HIDE DEF from, P
      <4>5. QED  BY <4>3, <4>4, Zenon
    <3>2. CASE ~(Height(b) > Len(chain) - 1)
      BY <1>2, <2>2, <3>2
    <3>3. QED  BY <3>1, <3>2
  <2> HIDE DEF from
  <2>4. from \in DOMAIN index /\ index[from].height = k - 1
    BY <1>1, <2>2, <2>3, PathFacts DEF OnPath
  <2>5. \A i \in 1..k : PathIn(index, from)[i] = P[i]
    BY <1>1, <2>2, <2>3, PathOfPath
  <2>6. common = Common(from)
    <3>1. Path(b) = P
      BY PathIsPathIn
    <3>2. Common(from) = {i \in 1..k : P[i] = chain[i]}
      <4>1. index[from].height + 1 = k
        BY <2>3, <2>4
      <4>2. Common(from) = {i \in 1..k : PathIn(index, from)[i] = chain[i]}
        BY <4>1 DEF Common
      <4> HIDE DEF P
      <4>3. QED  BY <2>5, <4>2
    <3>3. \A i : i \in 1..Len(chain) /\ i <= Height(b) + 1 <=> i \in 1..k
      BY <1>2, <2>2, <2>3
    <3>4. common = {i \in 1..Len(chain) : i <= Height(b) + 1 /\ P[i] = chain[i]}
      BY <2>2, <3>1
    <3> HIDE DEF common, P
    <3>5. QED  BY <3>2, <3>3, <3>4
  <2>7. LastCommon(from, FirstInChain(from))
    <3>1. index[from].height + 1 <= Len(chain)
      BY <2>3, <2>4
    <3>2. QED  BY <1>1, <2>4, <3>1, FirstIsLastCommon
  <2>8. \A i \in common : i \in Int
    OBVIOUS
  <2> HIDE DEF common
  <2>9. CASE common = {}
    BY <2>1, <2>6, <2>7, <2>9 DEF LastCommon
  <2>10. CASE common # {}
    <3>1. PICK i \in common : FirstInChain(from) = chain[i] /\ \A j \in common : j <= i
      BY <2>6, <2>7, <2>10 DEF LastCommon
    <3> DEFINE last == CHOOSE x \in common : \A j \in common : j <= x
    <3>2. last \in common /\ \A j \in common : j <= last
      BY <3>1, Zenon
    <3> HIDE DEF last
    <3>3. last = i
      BY <2>8, <3>1, <3>2
    <3>4. QED  BY <2>1, <2>10, <3>1, <3>3 DEF last
  <2>11. QED  BY <2>9, <2>10
<1>5. QED  BY <1>3, <1>4, Zenon DEF ChainIsPath

-----------------------------------------------------------------------------
(* The locator. *)

\* The steps of a locator.
LEMMA StepEquation ==
  /\ \A n \in Nat : Step[n] = IF n <= 11 THEN 1 ELSE 2 * Step[n - 1]
  /\ \A n \in Nat : Step[n] \in Nat \ {0}
<1> DEFINE m == [n \in Nat |-> n]
           Stop == {n \in Nat : n <= 11}
           s == [n \in Nat |-> n - 1]
           R == Nat \ {0}
           r == [n \in Nat |-> 1]
           h == [p \in Nat \X R |-> 2 * p[2]]
           F(f) == [n \in Nat |-> IF n <= 11 THEN 1 ELSE 2 * f[n - 1]]
<1>1. m \in [Nat -> Nat] /\ r \in [Nat -> R] /\ h \in [Nat \X R -> R]
  OBVIOUS
<1>2. \A n \in Nat : n \in Stop \/ (s[n] \in Nat /\ m[s[n]] < m[n])
  OBVIOUS
<1>3. GoesDown(Nat, m, Stop, s, R, r, h)
  <2> HIDE DEF m, Stop, s, R, r, h
  <2>1. QED  BY <1>1, <1>2 DEF GoesDown
<1>4. PICK f \in [Nat -> R] : \A n \in Nat : f[n] = IF n \in Stop THEN r[n] ELSE h[<<n, f[s[n]]>>]
  <2> HIDE DEF m, Stop, s, R, r, h
  <2>1. QED  BY <1>3, Recursion
<1>5. ASSUME NEW n \in Nat  PROVE f[n] = F(f)[n]
  <2>1. f[n] = IF n \in Stop THEN r[n] ELSE h[<<n, f[s[n]]>>]
    BY <1>4
  <2>2. r[n] = 1 /\ (n \in Stop <=> n <= 11)
    OBVIOUS
  <2>3. ASSUME n \notin Stop  PROVE h[<<n, f[s[n]]>>] = 2 * f[n - 1]
    <3>1. s[n] = n - 1 /\ n - 1 \in Nat
      BY <2>3
    <3>2. f[s[n]] \in R
      <4> HIDE DEF R, s, Stop
      <4>1. QED  BY <3>1
    <3>3. QED  BY <3>1, <3>2
  <2> HIDE DEF Stop, r, h, s
  <2>4. QED  BY <2>1, <2>2, <2>3
<1>6. f = F(f)
  <2> HIDE DEF Stop, r, h, s
  <2>1. QED  BY <1>5
<1>7. \E g : g = F(g)
  BY <1>6
<1>8. Step = F(Step)
  BY <1>7, Zenon DEF Step
<1> HIDE DEF F
<1>9. \A n \in Nat : Step[n] = IF n <= 11 THEN 1 ELSE 2 * Step[n - 1]
  BY <1>8 DEF F
<1> DEFINE T == {n \in Nat : Step[n] \in Nat \ {0}}
<1>10. 0 \in T
  BY <1>9
<1>11. ASSUME NEW n \in T  PROVE n + 1 \in T
  BY <1>9
<1>12. T \subseteq Nat
  OBVIOUS
<1> HIDE DEF T
<1>13. T = Nat
  BY <1>10, <1>11, <1>12, NatSetInduction
<1>14. QED  BY <1>9, <1>13 DEF T

\* A step back, along the chain or not, is one along the path.
LEMMA StepBackOnPath ==
  ASSUME TreeShape(index), Skips(index), ChainInv, NEW b \in DOMAIN index, NEW step \in Nat \ {0}
  PROVE  StepBack(b, step) =
           PathIn(index, b)[(IF Height(b) > step THEN Height(b) - step ELSE 0) + 1]
<1> DEFINE height == IF Height(b) > step THEN Height(b) - step ELSE 0
<1>1. Height(b) \in Nat /\ Height(b) = index[b].height /\ b # NoBlock
  BY ShapeFacts DEF Height
<1>2. height \in Nat /\ height <= Height(b) /\ height + 1 \in 1..Height(b) + 1
  BY <1>1
<1>3. StepBack(b, step) = IF IsExist(b) THEN GetBlockIndex(height) ELSE GetAncestor(b, height)
  BY Zenon DEF StepBack
<1> HIDE DEF height
<1>4. CASE ~IsExist(b)
  BY <1>2, <1>3, <1>4, AncestorOnPath DEF height
<1>5. CASE IsExist(b)
  <2>1. Height(b) + 1 <= Len(chain) /\ chain[Height(b) + 1] = b
    <3>1. Len(chain) \in Nat
      BY PathFacts DEF ChainInv, OnPath
    <3>2. QED  BY <1>1, <1>5, <3>1 DEF IsExist, GetBlockIndex
  <2>2. PICK t \in DOMAIN index : chain = PathIn(index, t)
    <3>1. chain # << >>
      BY <1>1, <2>1
    <3>2. QED  BY <3>1 DEF ChainInv
  <2>3. Len(chain) = index[t].height + 1 /\ index[t].height \in Nat
    BY <2>2, TipOfPath, ShapeFacts DEF Height
  <2>4. Height(b) + 1 \in 1..index[t].height + 1 /\ height + 1 \in 1..Height(b) + 1
    BY <1>1, <1>2, <2>1, <2>3
  <2>5. PathIn(index, PathIn(index, t)[Height(b) + 1])[height + 1] = PathIn(index, t)[height + 1]
    BY <2>4, PathOfPath
  <2>6. chain[height + 1] = PathIn(index, b)[height + 1]
    BY <2>1, <2>2, <2>5
  <2>7. GetBlockIndex(height) = chain[height + 1]
    BY <1>1, <1>2, <2>1, <2>3 DEF GetBlockIndex
  <2>8. QED  BY <1>3, <1>5, <2>6, <2>7 DEF height
<1>6. QED  BY <1>4, <1>5

\* The loop of GetLocator is a function with its equation.
LEMMA LocatorEquation ==
  ASSUME TreeShape(index), Skips(index), ChainInv
  PROVE  \E f :
           /\ \A b \in DOMAIN index : GetLocator(b) = f[<<b, 1, 0>>]
           /\ \A b \in DOMAIN index, step \in Nat \ {0}, n \in Nat :
                f[<<b, step, n>>] =
                  IF Height(b) = 0 THEN <<b>>
                  ELSE <<b>> \o f[<<StepBack(b, step), IF n + 1 > 10 THEN 2 * step ELSE step, n + 1>>]
<1> DEFINE B == DOMAIN index \cup {NoBlock}
           D == B \X (Nat \ {0}) \X Nat
           R == Seq(B)
           Stop == {p \in D : p[1] = NoBlock \/ Height(p[1]) = 0}
           m == [p \in D |-> IF p[1] = NoBlock THEN 0 ELSE index[p[1]].height]
           s == [p \in D |-> <<StepBack(p[1], p[2]), IF p[3] + 1 > 10 THEN 2 * p[2] ELSE p[2], p[3] + 1>>]
           r == [p \in D |-> IF p[1] = NoBlock THEN << >> ELSE <<p[1]>>]
           h == [q \in D \X R |-> <<q[1][1]>> \o q[2]]
           F(f) == [p \in D |->
                      IF p[1] = NoBlock THEN << >>
                      ELSE IF Height(p[1]) = 0 THEN <<p[1]>>
                      ELSE <<p[1]>> \o f[<<StepBack(p[1], p[2]),
                                            IF p[3] + 1 > 10 THEN 2 * p[2] ELSE p[2], p[3] + 1>>]]
<1>0. ASSUME NEW p \in D  PROVE p[1] \in B /\ p[2] \in Nat \ {0} /\ p[3] \in Nat
  OBVIOUS
<1>1. m \in [D -> Nat]
  <2>1. \A b \in DOMAIN index : index[b].height \in Nat
    BY ShapeFacts
  <2>2. ASSUME NEW p \in D  PROVE (IF p[1] = NoBlock THEN 0 ELSE index[p[1]].height) \in Nat
    <3>1. p[1] \in B
      BY <1>0
    <3>2. QED  BY <2>1, <3>1
  <2> HIDE DEF D
  <2>3. QED  BY <2>2
<1>2. r \in [D -> R]
  <2>1. ASSUME NEW p \in D  PROVE (IF p[1] = NoBlock THEN << >> ELSE <<p[1]>>) \in R
    <3>1. p[1] \in B
      BY <1>0
    <3> HIDE DEF B, D
    <3>2. << >> \in R /\ <<p[1]>> \in R
      BY <3>1
    <3>3. QED  BY <3>2
  <2> HIDE DEF D, R
  <2>2. QED  BY <2>1
<1>3. h \in [D \X R -> R]
  <2>1. ASSUME NEW q \in D \X R  PROVE <<q[1][1]>> \o q[2] \in R
    <3>1. q[1] \in D /\ q[2] \in R
      <4> HIDE DEF D, R
      <4>1. QED  OBVIOUS
    <3>2. q[1][1] \in B
      BY <1>0, <3>1
    <3> HIDE DEF B, D
    <3>3. QED  BY <3>1, <3>2
  <2> HIDE DEF D, R
  <2>2. QED  BY <2>1
<1>4. ASSUME NEW p \in D, p \notin Stop  PROVE s[p] \in D /\ m[s[p]] < m[p]
  <2>1. p[1] \in DOMAIN index /\ p[1] # NoBlock /\ p[2] \in Nat \ {0} /\ p[3] \in Nat /\ Height(p[1]) # 0
    BY <1>0, <1>4
  <2> DEFINE height == IF Height(p[1]) > p[2] THEN Height(p[1]) - p[2] ELSE 0
             stepped == StepBack(p[1], p[2])
  <2>2. Height(p[1]) = index[p[1]].height /\ Height(p[1]) \in Nat
    BY <2>1, ShapeFacts DEF Height
  <2>3. height \in Nat /\ height < Height(p[1]) /\ height + 1 \in 1..index[p[1]].height + 1
    BY <2>1, <2>2
  <2>4. stepped = PathIn(index, p[1])[height + 1]
    BY <2>1, StepBackOnPath
  <2> HIDE DEF height, stepped
  <2>5. stepped \in DOMAIN index /\ index[stepped].height = height
    BY <2>1, <2>3, <2>4, PathFacts DEF OnPath
  <2>6. stepped # NoBlock
    BY <2>5, ShapeFacts
  <2>7. s[p] = <<stepped, IF p[3] + 1 > 10 THEN 2 * p[2] ELSE p[2], p[3] + 1>>
    BY DEF stepped
  <2>8. (IF p[3] + 1 > 10 THEN 2 * p[2] ELSE p[2]) \in Nat \ {0} /\ p[3] + 1 \in Nat
    BY <2>1
  <2>9. s[p] \in D /\ s[p][1] = stepped
    <3> HIDE DEF s
    <3>1. QED  BY <2>5, <2>7, <2>8
  <2>10. m[s[p]] = height /\ m[p] = Height(p[1])
    <3> HIDE DEF s, D
    <3>1. QED  BY <2>1, <2>2, <2>5, <2>6, <2>9
  <2>11. QED  BY <2>3, <2>9, <2>10
<1>5. GoesDown(D, m, Stop, s, R, r, h)
  <2> HIDE DEF D, R, Stop, m, s, r, h
  <2>1. QED  BY <1>1, <1>2, <1>3, <1>4 DEF GoesDown
<1>6. PICK f \in [D -> R] : \A p \in D : f[p] = IF p \in Stop THEN r[p] ELSE h[<<p, f[s[p]]>>]
  <2> HIDE DEF D, R, Stop, m, s, r, h
  <2>1. QED  BY <1>5, Recursion
<1>7. ASSUME NEW p \in D  PROVE f[p] = F(f)[p]
  <2>1. f[p] = IF p \in Stop THEN r[p] ELSE h[<<p, f[s[p]]>>]
    BY <1>6
  <2>2. r[p] = (IF p[1] = NoBlock THEN << >> ELSE <<p[1]>>)
         /\ (p \in Stop <=> p[1] = NoBlock \/ Height(p[1]) = 0)
    <3> HIDE DEF D
    <3>1. QED  OBVIOUS
  <2>3. ASSUME p \notin Stop
        PROVE  h[<<p, f[s[p]]>>] = <<p[1]>> \o f[<<StepBack(p[1], p[2]),
                                            IF p[3] + 1 > 10 THEN 2 * p[2] ELSE p[2], p[3] + 1>>]
    <3>1. s[p] \in D
      BY <2>3, <1>4
    <3>2. f[s[p]] \in R
      <4> HIDE DEF D, R, s, Stop
      <4>1. QED  BY <3>1
    <3> DEFINE y == f[s[p]]
    <3>3. h[<<p, y>>] = <<p[1]>> \o y
      <4>1. y \in R
        BY <3>2
      <4> HIDE DEF y, R, D, s
      <4>2. <<p, y>> \in D \X R
        BY <4>1
      <4>3. QED  BY <4>2
    <3>4. s[p] = <<StepBack(p[1], p[2]), IF p[3] + 1 > 10 THEN 2 * p[2] ELSE p[2], p[3] + 1>>
      OBVIOUS
    <3> HIDE DEF h, s
    <3>5. QED  BY <3>3, <3>4
  <2>4. F(f)[p] = IF p[1] = NoBlock THEN << >>
                  ELSE IF Height(p[1]) = 0 THEN <<p[1]>>
                  ELSE <<p[1]>> \o f[<<StepBack(p[1], p[2]),
                                        IF p[3] + 1 > 10 THEN 2 * p[2] ELSE p[2], p[3] + 1>>]
    OBVIOUS
  <2> HIDE DEF Stop, r, h, s, D, F
  <2>5. QED  BY <2>1, <2>2, <2>3, <2>4, Zenon
<1>8. f = F(f)
  <2> HIDE DEF Stop, r, h, s, D
  <2>1. QED  BY <1>7
<1>9. \E g : g = F(g)
  BY <1>8
<1> DEFINE From == CHOOSE g : g = F(g)
<1>10. From = F(From)
  <2> HIDE DEF F
  <2>1. QED  BY <1>9, Zenon
<1>11. ASSUME NEW b \in DOMAIN index  PROVE GetLocator(b) = From[<<b, 1, 0>>]
  <2>1. GetLocator(b) = From[<<IF b = NoBlock THEN Tip ELSE b, 1, 0>>]
    BY Zenon DEF GetLocator
  <2>2. b # NoBlock
    BY ShapeFacts
  <2> HIDE DEF From
  <2>3. QED  BY <2>1, <2>2
<1> HIDE DEF From
<1>12. ASSUME NEW b \in DOMAIN index, NEW step \in Nat \ {0}, NEW n \in Nat
       PROVE  From[<<b, step, n>>] =
                IF Height(b) = 0 THEN <<b>>
                ELSE <<b>> \o From[<<StepBack(b, step), IF n + 1 > 10 THEN 2 * step ELSE step, n + 1>>]
  <2> DEFINE p == <<b, step, n>>
  <2>1. p \in D /\ p[1] = b /\ p[2] = step /\ p[3] = n /\ b # NoBlock
    BY ShapeFacts
  <2> HIDE DEF p
  <2>2. F(From)[p] = IF p[1] = NoBlock THEN << >>
                     ELSE IF Height(p[1]) = 0 THEN <<p[1]>>
                     ELSE <<p[1]>> \o From[<<StepBack(p[1], p[2]),
                                           IF p[3] + 1 > 10 THEN 2 * p[2] ELSE p[2], p[3] + 1>>]
    <3> HIDE DEF D
    <3>1. QED  BY <2>1
  <2>3. From[p] = F(From)[p]
    <3> HIDE DEF F
    <3>1. QED  BY <1>10
  <2> HIDE DEF F, D
  <2>4. From[p] = IF Height(b) = 0 THEN <<b>>
                ELSE <<b>> \o From[<<StepBack(b, step), IF n + 1 > 10 THEN 2 * step ELSE step, n + 1>>]
    BY <2>1, <2>2, <2>3
  <2>5. QED  BY <2>4 DEF p
<1>13. QED
  <2> HIDE DEF F, D
  <2>1. QED  BY <1>11, <1>12

\* out is the rest of a locator, from b on, after n hashes.
Sparse(b, n, out) ==
  /\ out \in Seq(DOMAIN index) /\ Len(out) >= 1 /\ out[1] = b /\ Height(out[Len(out)]) = 0
  /\ \A i \in 1..Len(out) :
       Height(out[i]) <= Height(b) /\ out[i] = PathIn(index, b)[Height(out[i]) + 1]
  /\ \A i \in 1..Len(out) - 1 :
       Height(out[i + 1]) =
         IF Height(out[i]) > Step[n + i] THEN Height(out[i]) - Step[n + i] ELSE 0

\* Such a rest goes on being one with the block before it.
LEMMA SparseGrows ==
  ASSUME TreeShape(index), NEW b \in DOMAIN index, NEW n \in Nat, NEW c \in DOMAIN index, NEW rest,
         Height(b) # 0,
         Height(c) = IF Height(b) > Step[n + 1] THEN Height(b) - Step[n + 1] ELSE 0,
         c = PathIn(index, b)[Height(c) + 1], Sparse(c, n + 1, rest)
  PROVE  Sparse(b, n, <<b>> \o rest)
<1> DEFINE out == <<b>> \o rest
           l == Len(rest)
<1>1. /\ rest \in Seq(DOMAIN index) /\ l \in Nat /\ l >= 1 /\ rest[1] = c /\ Height(rest[l]) = 0
      /\ \A i \in 1..l :
           Height(rest[i]) <= Height(c) /\ rest[i] = PathIn(index, c)[Height(rest[i]) + 1]
      /\ \A i \in 1..l - 1 :
           Height(rest[i + 1]) =
             IF Height(rest[i]) > Step[n + 1 + i] THEN Height(rest[i]) - Step[n + 1 + i] ELSE 0
  BY DEF Sparse
<1>2. \A x \in DOMAIN index : Height(x) \in Nat /\ Height(x) = index[x].height
  BY ShapeFacts DEF Height
<1>3. Step[n + 1] \in Nat \ {0}
  BY StepEquation
<1>4. Height(c) < Height(b)
  BY <1>2, <1>3
<1>5. <<b>> \in Seq(DOMAIN index) /\ Len(<<b>>) = 1 /\ <<b>>[1] = b
  OBVIOUS
<1>6. out \in Seq(DOMAIN index) /\ Len(out) = l + 1 /\ out[1] = b
  BY <1>1, <1>5
<1>7. \A i \in 1..l : out[i + 1] = rest[i]
  BY <1>1, <1>5
<1> HIDE DEF out, l
<1>8. Height(out[Len(out)]) = 0 /\ Len(out) >= 1
  BY <1>1, <1>6, <1>7
<1>9. ASSUME NEW i \in 1..l + 1
      PROVE  Height(out[i]) <= Height(b) /\ out[i] = PathIn(index, b)[Height(out[i]) + 1]
  <2>1. CASE i = 1
    <3>1. PathIn(index, b)[index[b].height + 1] = b
      <4>1. OnPath(index, b)
        BY PathFacts
      <4>2. QED  BY <4>1, Zenon DEF OnPath
    <3>2. QED  BY <1>2, <1>6, <2>1, <3>1
  <2>2. CASE i # 1
    <3>1. i - 1 \in 1..l /\ i - 1 + 1 = i
      BY <1>1, <2>2
    <3> DEFINE x == rest[i - 1]
    <3>2. out[i] = x
      BY <1>7, <3>1
    <3>3. x \in DOMAIN index
      BY <1>1, <3>1 DEF l
    <3>4. Height(x) <= Height(c) /\ x = PathIn(index, c)[Height(x) + 1]
      BY <1>1, <3>1
    <3>5. Height(x) \in Nat /\ Height(x) <= Height(b)
      BY <1>2, <1>4, <3>3, <3>4
    <3>6. Height(c) + 1 \in 1..index[b].height + 1 /\ Height(x) + 1 \in 1..Height(c) + 1
      BY <1>2, <1>4, <3>4, <3>5
    <3>7. PathIn(index, PathIn(index, b)[Height(c) + 1])[Height(x) + 1]
            = PathIn(index, b)[Height(x) + 1]
      BY <3>6, PathOfPath
    <3>8. QED  BY <3>2, <3>4, <3>5, <3>7
  <2>3. QED  BY <2>1, <2>2
<1>10. ASSUME NEW i \in 1..l
       PROVE  Height(out[i + 1]) =
                IF Height(out[i]) > Step[n + i] THEN Height(out[i]) - Step[n + i] ELSE 0
  <2>1. CASE i = 1
    BY <1>1, <1>6, <1>7, <2>1
  <2>2. CASE i # 1
    <3>1. i - 1 \in 1..l - 1 /\ i - 1 \in 1..l /\ i - 1 + 1 = i /\ n + 1 + (i - 1) = n + i
      BY <1>1, <2>2
    <3>2. Height(rest[i]) = IF Height(rest[i - 1]) > Step[n + i]
                            THEN Height(rest[i - 1]) - Step[n + i] ELSE 0
      BY <1>1, <3>1
    <3>3. out[i] = rest[i - 1] /\ out[i + 1] = rest[i]
      BY <1>7, <3>1
    <3>4. QED  BY <3>2, <3>3
  <2>3. QED  BY <2>1, <2>2
<1>11. Len(out) - 1 = l
  BY <1>1, <1>6
<1>12. QED  BY <1>6, <1>8, <1>9, <1>10, <1>11 DEF Sparse, out

\* Locators are sparse.
LEMMA LocatorFollows == TreeShape(index) /\ Skips(index) /\ ChainInv => LocatorIsSparse
<1>1. SUFFICES ASSUME TreeShape(index), Skips(index), ChainInv PROVE LocatorIsSparse
  OBVIOUS
<1>2. PICK f :
        /\ \A b \in DOMAIN index : GetLocator(b) = f[<<b, 1, 0>>]
        /\ \A b \in DOMAIN index, step \in Nat \ {0}, n \in Nat :
             f[<<b, step, n>>] =
               IF Height(b) = 0 THEN <<b>>
               ELSE <<b>> \o f[<<StepBack(b, step), IF n + 1 > 10 THEN 2 * step ELSE step, n + 1>>]
  BY <1>1, LocatorEquation
<1> DEFINE T == {b \in DOMAIN index : \A n \in Nat : Sparse(b, n, f[<<b, Step[n + 1], n>>])}
<1>3. ASSUME NEW b \in DOMAIN index,
             \A c \in DOMAIN index : index[c].height < index[b].height => c \in T
      PROVE  b \in T
  <2>1. SUFFICES ASSUME NEW n \in Nat PROVE Sparse(b, n, f[<<b, Step[n + 1], n>>])
    OBVIOUS
  <2> DEFINE step == Step[n + 1]
             next == IF n + 1 > 10 THEN 2 * step ELSE step
             height == IF Height(b) > step THEN Height(b) - step ELSE 0
             c == StepBack(b, step)
             rest == f[<<c, next, n + 1>>]
  <2>2. step \in Nat \ {0} /\ next = Step[n + 2]
    <3>1. step \in Nat \ {0}
      BY StepEquation
    <3>2. Step[n + 2] = IF n + 2 <= 11 THEN 1 ELSE 2 * Step[n + 1]
      <4>1. n + 2 \in Nat /\ n + 2 - 1 = n + 1
        OBVIOUS
      <4>2. QED  BY <4>1, StepEquation
    <3>3. n + 1 <= 11 => Step[n + 1] = 1
      BY StepEquation
    <3>4. n + 1 > 10 <=> ~(n + 2 <= 11)
      OBVIOUS
    <3>5. ~(n + 1 > 10) => n + 1 <= 11
      OBVIOUS
    <3>6. QED  BY <3>1, <3>2, <3>3, <3>4, <3>5
  <2>3. Height(b) \in Nat /\ Height(b) = index[b].height
    BY <1>1, ShapeFacts DEF Height
  <2>4. f[<<b, step, n>>] = IF Height(b) = 0 THEN <<b>> ELSE <<b>> \o rest
    <3> HIDE DEF step, T
    <3>1. QED  BY <1>2, <2>2
  <2>5. CASE Height(b) = 0
    <3>1. f[<<b, step, n>>] = <<b>>
      BY <2>4, <2>5
    <3>2. PathIn(index, b)[Height(b) + 1] = b
      BY <1>1, <2>3, PathFacts DEF OnPath
    <3>3. <<b>> \in Seq(DOMAIN index) /\ Len(<<b>>) = 1 /\ <<b>>[1] = b
      OBVIOUS
    <3>4. Sparse(b, n, <<b>>)
      BY <2>3, <2>5, <3>2, <3>3 DEF Sparse
    <3>5. QED  BY <3>1, <3>4
  <2>6. CASE Height(b) # 0
    <3>1. height \in Nat /\ height < Height(b) /\ height + 1 \in 1..index[b].height + 1
      BY <2>2, <2>3, <2>6
    <3>2. c = PathIn(index, b)[height + 1]
      <4> HIDE DEF step
      <4>1. QED  BY <1>1, <2>2, StepBackOnPath
    <3>3. c \in DOMAIN index /\ index[c].height = height /\ Height(c) = height
      <4> HIDE DEF c, height
      <4>1. QED  BY <1>1, <3>1, <3>2, PathFacts DEF OnPath, Height
    <3>4. c \in T
      <4> HIDE DEF T, c, height
      <4>1. QED  BY <1>3, <2>3, <3>1, <3>3
    <3>5. Sparse(c, n + 1, rest)
      <4>1. Sparse(c, n + 1, f[<<c, Step[n + 1 + 1], n + 1>>])
        BY <3>4
      <4>2. n + 1 + 1 = n + 2
        OBVIOUS
      <4> HIDE DEF c, next
      <4>3. QED  BY <2>2, <4>1, <4>2
    <3> HIDE DEF c, rest
    <3>6. Height(c) = IF Height(b) > Step[n + 1] THEN Height(b) - Step[n + 1] ELSE 0
      BY <3>3
    <3>7. c = PathIn(index, b)[Height(c) + 1]
      BY <3>2, <3>3
    <3>8. Sparse(b, n, <<b>> \o rest)
      BY <1>1, <2>6, <3>3, <3>5, <3>6, <3>7, SparseGrows
    <3>9. QED  BY <2>4, <2>6, <3>8
  <2>7. QED  BY <2>5, <2>6
<1>4. DOMAIN index \subseteq T
  <2> HIDE DEF T
  <2>1. QED  BY <1>1, <1>3, HeightInduction
<1>5. ASSUME NEW b \in DOMAIN index
      PROVE  LET out == GetLocator(b)
             IN /\ out[1] = b /\ Height(out[Len(out)]) = 0
                /\ \A i \in 1..Len(out) : out[i] = Path(b)[Height(out[i]) + 1]
                /\ \A i \in 1..Len(out) - 1 :
                     Height(out[i + 1]) =
                       IF Height(out[i]) > Step[i] THEN Height(out[i]) - Step[i] ELSE 0
  <2> DEFINE out == GetLocator(b)
  <2>1. Step[0 + 1] = 1
    BY StepEquation
  <2>2. Sparse(b, 0, f[<<b, Step[0 + 1], 0>>])
    BY <1>4
  <2>3. Sparse(b, 0, out)
    BY <1>2, <2>1, <2>2
  <2>4. Path(b) = PathIn(index, b)
    BY PathIsPathIn
  <2>5. Len(out) \in Nat /\ \A i \in 1..Len(out) - 1 : 0 + i = i
    BY <2>3 DEF Sparse
  <2> HIDE DEF out
  <2>6. /\ out[1] = b /\ Height(out[Len(out)]) = 0
        /\ \A i \in 1..Len(out) : out[i] = Path(b)[Height(out[i]) + 1]
    BY <2>3, <2>4 DEF Sparse
  <2>7. \A i \in 1..Len(out) - 1 :
          Height(out[i + 1]) =
            IF Height(out[i]) > Step[i] THEN Height(out[i]) - Step[i] ELSE 0
    BY <2>3, <2>5 DEF Sparse
  <2>8. QED  BY <2>6, <2>7 DEF out
<1>6. QED  BY <1>5, Zenon DEF LocatorIsSparse

-----------------------------------------------------------------------------

\* The inductive invariant gives TreeSafe.
LEMMA TreeIInvSafe == TreeIInv => TreeSafe
<1>1. SUFFICES ASSUME TreeIInv PROVE TreeSafe
  OBVIOUS
<1>2. TreeShape(index) /\ Skips(index) /\ ChainInv /\ GenesisStands
  BY <1>1 DEF TreeIInv, GenesisInv
<1>3. QED
  BY <1>2, AncestorsFollow, ChainFollows, LocatorFollows DEF TreeSafe

\* Every index of blocks that a client links or LoadGenesisBlock makes is a tree in which
\* GetAncestor, FindFork and the locator come to the blocks that the parents alone lead to,
\* also while a call of BuildSkip hangs, the chain is the path to its tip, and a
\* LoadGenesisBlock that returns leaves one block, the tip (chain_state.cpp:7-173).
THEOREM TreeIsSafe == TreeSpec => []TreeSafe
<1>1. TreeSpec => []TreeIInv
  BY TreeInitIInv, TreeNextIInv, PTL DEF TreeSpec
<1>2. QED  BY <1>1, TreeIInvSafe, PTL


(***************************************************************************)
(* Addresses and networks.                                                 *)
(***************************************************************************)

-----------------------------------------------------------------------------
(* Bits. *)

\* Halves of a number, and what is made of halves.
LEMMA Halves ==
  /\ \A n \in Nat : n \div 2 \in Nat /\ (n # 0 => n \div 2 < n)
  /\ \A c \in {0, 1}, w \in Nat : (c + 2 * w) % 2 = c /\ (c + 2 * w) \div 2 = w
  OBVIOUS

\* BitAnd obeys its equation.
LEMMA BitAndEquation ==
  /\ BitAnd \in [Nat \X Nat -> Nat]
  /\ \A x \in Nat, y \in Nat : BitAnd[<<x, y>>] =
       IF x = 0 \/ y = 0 THEN 0
       ELSE (IF x % 2 = 1 /\ y % 2 = 1 THEN 1 ELSE 0) + 2 * BitAnd[<<x \div 2, y \div 2>>]
<1> DEFINE D == Nat \X Nat
           bit(p) == IF p[1] % 2 = 1 /\ p[2] % 2 = 1 THEN 1 ELSE 0
           half(p) == <<p[1] \div 2, p[2] \div 2>>
           m == [p \in D |-> p[1]]
           Stop == {p \in D : p[1] = 0 \/ p[2] = 0}
           s == [p \in D |-> half(p)]
           r == [p \in D |-> 0]
           h == [q \in D \X Nat |-> bit(q[1]) + 2 * q[2]]
           F(f) == [p \in D |-> IF p[1] = 0 \/ p[2] = 0 THEN 0 ELSE bit(p) + 2 * f[half(p)]]
<1>1. m \in [D -> Nat] /\ r \in [D -> Nat] /\ h \in [D \X Nat -> Nat]
  <2>1. m \in [D -> Nat] /\ r \in [D -> Nat]
    OBVIOUS
  <2>2. \A q \in D \X Nat : bit(q[1]) \in Nat /\ q[2] \in Nat
    OBVIOUS
  <2>3. \A q \in D \X Nat : bit(q[1]) + 2 * q[2] \in Nat
    <3> HIDE DEF bit, D
    <3>1. QED  BY <2>2
  <2>4. QED  BY <2>1, <2>3
<1>2. \A p \in D : p[1] \in Nat /\ p[2] \in Nat /\ half(p) \in D /\ half(p)[1] = p[1] \div 2
  BY Halves
<1>3. \A p \in D : p \in Stop \/ (s[p] \in D /\ m[s[p]] < m[p])
  BY <1>2, Halves
<1>4. GoesDown(D, m, Stop, s, Nat, r, h)
  <2> HIDE DEF D, m, Stop, s, r, h
  <2>1. QED  BY <1>1, <1>3 DEF GoesDown
<1>5. PICK f \in [D -> Nat] :
        \A p \in D : f[p] = IF p \in Stop THEN r[p] ELSE h[<<p, f[s[p]]>>]
  <2> HIDE DEF D, m, Stop, s, r, h
  <2>1. QED  BY <1>4, Recursion
<1>6. ASSUME NEW p \in D  PROVE f[p] = F(f)[p]
  <2> HIDE DEF bit, half
  <2>1. s[p] = half(p) /\ half(p) \in D
    BY <1>2
  <2>2. f[half(p)] \in Nat
    BY <1>5, <2>1
  <2>3. h[<<p, f[half(p)]>>] = bit(p) + 2 * f[half(p)]
    BY <2>2
  <2>4. r[p] = 0 /\ (p \in Stop <=> p[1] = 0 \/ p[2] = 0)
    OBVIOUS
  <2> HIDE DEF D, Stop, r, h, s
  <2>5. QED  BY <1>5, <2>1, <2>3, <2>4
<1>7. f = F(f)
  <2> HIDE DEF Stop, r, h, s, bit, half, m
  <2>1. QED  BY <1>6
<1>8. \E g : g = F(g)
  BY <1>7
<1>9. BitAnd = F(BitAnd)
  BY <1>8, Zenon DEF BitAnd
<1>10. ASSUME NEW g, g = F(g)  PROVE g \in [D -> Nat]
  <2> DEFINE T == {j \in Nat : \A p \in D : p[1] < j => g[p] \in Nat}
  <2>1. 0 \in T
    BY <1>2
  <2>2. ASSUME NEW j \in T  PROVE j + 1 \in T
    <3>1. ASSUME NEW p \in D, p[1] < j + 1  PROVE g[p] \in Nat
      <4>1. half(p) \in D /\ (p[1] # 0 => half(p)[1] < j)
        BY <1>2, <3>1, Halves
      <4>2. p[1] # 0 => g[half(p)] \in Nat
        <5> HIDE DEF half
        <5>1. QED  BY <4>1
      <4>3. g[p] = IF p[1] = 0 \/ p[2] = 0 THEN 0 ELSE bit(p) + 2 * g[half(p)]
        BY <1>10
      <4>4. bit(p) \in Nat
        OBVIOUS
      <4> HIDE DEF half, bit
      <4>5. QED  BY <4>2, <4>3, <4>4
    <3>2. QED  BY <3>1
  <2>3. T = Nat
    <3>1. T \subseteq Nat
      OBVIOUS
    <3> HIDE DEF T
    <3>2. QED  BY <2>1, <2>2, <3>1, NatSetInduction
  <2>4. ASSUME NEW p \in D  PROVE g[p] \in Nat
    <3>1. p[1] + 1 \in Nat /\ p[1] < p[1] + 1
      BY <1>2
    <3>2. p[1] + 1 \in T
      <4> HIDE DEF T
      <4>1. QED  BY <2>3, <3>1
    <3>3. QED  BY <3>1, <3>2
  <2>5. QED
    <3> HIDE DEF bit, half
    <3>1. QED  BY <2>4, <1>10
<1>11. BitAnd \in [D -> Nat]
  <2> HIDE DEF F
  <2>1. QED  BY <1>9, <1>10
<1>12. ASSUME NEW x \in Nat, NEW y \in Nat
       PROVE  BitAnd[<<x, y>>] =
                IF x = 0 \/ y = 0 THEN 0
                ELSE (IF x % 2 = 1 /\ y % 2 = 1 THEN 1 ELSE 0) + 2 * BitAnd[<<x \div 2, y \div 2>>]
  <2> DEFINE p == <<x, y>>
  <2>1. p \in D
    OBVIOUS
  <2>2. BitAnd[p] = F(BitAnd)[p]
    <3> HIDE DEF F, p
    <3>1. QED  BY <1>9
  <2>3. F(BitAnd)[p] = IF p[1] = 0 \/ p[2] = 0 THEN 0 ELSE bit(p) + 2 * BitAnd[half(p)]
    <3> HIDE DEF p, bit, half
    <3>1. QED  BY <2>1
  <2>4. QED  BY <2>2, <2>3
<1>13. QED  BY <1>11, <1>12

\* What is masked once is masked.
LEMMA BitAndOnce ==
  \A x \in Nat, y \in Nat :
    BitAnd[<<x, y>>] \in Nat /\ BitAnd[<<BitAnd[<<x, y>>], y>>] = BitAnd[<<x, y>>]
<1> DEFINE A(x, y) == BitAnd[<<x, y>>]
           bit(x, y) == IF x % 2 = 1 /\ y % 2 = 1 THEN 1 ELSE 0
           T == {j \in Nat : \A x \in Nat, y \in Nat : x < j => A(A(x, y), y) = A(x, y)}
<1>1. \A x \in Nat, y \in Nat : A(x, y) \in Nat
  BY BitAndEquation
<1>2. \A x \in Nat, y \in Nat :
        A(x, y) = IF x = 0 \/ y = 0 THEN 0 ELSE bit(x, y) + 2 * A(x \div 2, y \div 2)
  BY BitAndEquation
<1>3. 0 \in T
  OBVIOUS
<1>4. ASSUME NEW j \in T  PROVE j + 1 \in T
  <2>1. ASSUME NEW x \in Nat, NEW y \in Nat, x < j + 1  PROVE A(A(x, y), y) = A(x, y)
    <3> DEFINE z == A(x, y)
               w == A(x \div 2, y \div 2)
    <3>1. z \in Nat /\ x \div 2 \in Nat /\ y \div 2 \in Nat
      BY <1>1, Halves
    <3>2. w \in Nat
      BY <1>1, <3>1
    <3>3. CASE x = 0 \/ y = 0
      <4>1. z = 0
        BY <1>2, <3>3
      <4> HIDE DEF z, A
      <4>2. QED  BY <1>2, <3>1, <4>1 DEF z
    <3>4. CASE ~(x = 0 \/ y = 0)
      <4>1. x \div 2 < j
        BY <2>1, <3>4, Halves
      <4>2. A(w, y \div 2) = w
        BY <4>1, <3>1
      <4>3. z = bit(x, y) + 2 * w
        BY <1>2, <3>4
      <4>4. bit(x, y) \in {0, 1} /\ (bit(x, y) = 1 => y % 2 = 1)
        OBVIOUS
      <4> HIDE DEF A
      <4>5. z % 2 = bit(x, y) /\ z \div 2 = w
        <5> HIDE DEF w, z, bit
        <5>1. QED  BY <3>2, <4>3, <4>4, Halves
      <4>6. bit(z, y) = bit(x, y)
        <5>1. QED  BY <4>4, <4>5
      <4>7. A(z, y) = IF z = 0 \/ y = 0 THEN 0 ELSE bit(z, y) + 2 * A(z \div 2, y \div 2)
        <5> HIDE DEF z, bit
        <5>1. QED  BY <1>2, <3>1
      <4> HIDE DEF z, w, bit
      <4>8. QED  BY <3>4, <4>2, <4>3, <4>5, <4>6, <4>7 DEF z
    <3>5. QED  BY <3>3, <3>4
  <2>2. QED  BY <2>1
<1>5. T = Nat
  <2>1. T \subseteq Nat
    OBVIOUS
  <2> HIDE DEF T
  <2>2. QED  BY <1>3, <1>4, <2>1, NatSetInduction
<1>6. ASSUME NEW x \in Nat, NEW y \in Nat  PROVE A(A(x, y), y) = A(x, y)
  <2>1. x + 1 \in Nat /\ x < x + 1
    OBVIOUS
  <2>2. x + 1 \in T
    <3> HIDE DEF T
    <3>1. QED  BY <1>5, <2>1
  <2>3. QED  BY <2>1, <2>2
<1>7. QED  BY <1>1, <1>6

-----------------------------------------------------------------------------
(* Kinds of addresses. *)

Bytes16 == [BytePositions -> 0..255]

\* An IP starts with some bytes if each of them is at its position.
LEMMA StartInBytes ==
  ASSUME NEW ip
  PROVE  /\ \A a, b : StartsWith(ip, <<a, b>>) <=> ip[0] = a /\ ip[1] = b
         /\ \A a, b, c, d :
              StartsWith(ip, <<a, b, c, d>>) <=> ip[0] = a /\ ip[1] = b /\ ip[2] = c /\ ip[3] = d
         /\ \A a, b, c, d, e, f :
              StartsWith(ip, <<a, b, c, d, e, f>>) <=>
                ip[0] = a /\ ip[1] = b /\ ip[2] = c /\ ip[3] = d /\ ip[4] = e /\ ip[5] = f
<1>1. ASSUME NEW a, NEW b
      PROVE  StartsWith(ip, <<a, b>>) <=> ip[0] = a /\ ip[1] = b
  <2>1. \A n \in 1..2 : n = 1 \/ n = 2
    OBVIOUS
  <2>2. QED  BY <2>1 DEF StartsWith
<1>2. ASSUME NEW a, NEW b, NEW c, NEW d
      PROVE  StartsWith(ip, <<a, b, c, d>>) <=> ip[0] = a /\ ip[1] = b /\ ip[2] = c /\ ip[3] = d
  <2>1. \A n \in 1..4 : n = 1 \/ n = 2 \/ n = 3 \/ n = 4
    OBVIOUS
  <2>2. QED  BY <2>1 DEF StartsWith
<1>3. ASSUME NEW a, NEW b, NEW c, NEW d, NEW e, NEW f
      PROVE  StartsWith(ip, <<a, b, c, d, e, f>>) <=>
               ip[0] = a /\ ip[1] = b /\ ip[2] = c /\ ip[3] = d /\ ip[4] = e /\ ip[5] = f
  <2>1. \A n \in 1..6 : n = 1 \/ n = 2 \/ n = 3 \/ n = 4 \/ n = 5 \/ n = 6
    OBVIOUS
  <2>2. QED  BY <2>1 DEF StartsWith
<1>4. QED  BY <1>1, <1>2, <1>3

\* The kinds that groups and text depend on, in bytes.
LEMMA KindsInBytes ==
  ASSUME NEW ip
  PROVE  /\ IsIpv4(ip) <=> (\A n \in 0..9 : ip[n] = 0) /\ ip[10] = 255 /\ ip[11] = 255
         /\ IsTor(ip) <=> /\ ip[0] = 253 /\ ip[1] = 135 /\ ip[2] = 216
                          /\ ip[3] = 126 /\ ip[4] = 235 /\ ip[5] = 67
         /\ IsInternal(ip) <=> /\ ip[0] = 253 /\ ip[1] = 107 /\ ip[2] = 136
                               /\ ip[3] = 192 /\ ip[4] = 135 /\ ip[5] = 36
         /\ IsRFC3964(ip) <=> IsIpv6(ip) /\ ip[0] = 32 /\ ip[1] = 2
         /\ IsRFC4380(ip) <=> IsIpv6(ip) /\ ip[0] = 32 /\ ip[1] = 1 /\ ip[2] = 0 /\ ip[3] = 0
         /\ IsRFC6145(ip) => IsIpv6(ip) /\ ip[0] = 0
         /\ IsRFC6052(ip) => IsIpv6(ip) /\ ip[0] = 0
<1>1. IsIpv4(ip) <=> (\A n \in 0..9 : ip[n] = 0) /\ ip[10] = 255 /\ ip[11] = 255
  <2>1. Len(PchIpv4) = 12 /\ (\A n \in 1..10 : PchIpv4[n] = 0) /\ PchIpv4[11] = 255 /\ PchIpv4[12] = 255
    BY DEF PchIpv4
  <2>2. IsIpv4(ip) <=> \A n \in 1..12 : ip[n - 1] = PchIpv4[n]
    BY <2>1 DEF IsIpv4, StartsWith
  <2>3. \A n \in 1..12 : n \in 1..10 \/ n = 11 \/ n = 12
    OBVIOUS
  <2>4. \A n \in 0..9 : n + 1 \in 1..10 /\ n + 1 - 1 = n
    OBVIOUS
  <2>5. \A n \in 1..10 : n - 1 \in 0..9
    OBVIOUS
  <2>6. IsIpv4(ip) => (\A n \in 0..9 : ip[n] = 0) /\ ip[10] = 255 /\ ip[11] = 255
    BY <2>1, <2>2, <2>4
  <2>7. (\A n \in 0..9 : ip[n] = 0) /\ ip[10] = 255 /\ ip[11] = 255 => IsIpv4(ip)
    BY <2>1, <2>2, <2>3, <2>5
  <2>8. QED  BY <2>6, <2>7
<1>2. /\ IsTor(ip) <=> /\ ip[0] = 253 /\ ip[1] = 135 /\ ip[2] = 216
                       /\ ip[3] = 126 /\ ip[4] = 235 /\ ip[5] = 67
      /\ IsInternal(ip) <=> /\ ip[0] = 253 /\ ip[1] = 107 /\ ip[2] = 136
                            /\ ip[3] = 192 /\ ip[4] = 135 /\ ip[5] = 36
  BY StartInBytes DEF IsTor, IsInternal, PchOnionCat, BtcIpPrefix
<1>3. /\ IsRFC3964(ip) <=> IsIpv6(ip) /\ ip[0] = 32 /\ ip[1] = 2
      /\ IsRFC4380(ip) <=> IsIpv6(ip) /\ ip[0] = 32 /\ ip[1] = 1 /\ ip[2] = 0 /\ ip[3] = 0
  BY StartInBytes DEF IsRFC3964, IsRFC4380
<1>4. (IsRFC6145(ip) => IsIpv6(ip) /\ ip[0] = 0) /\ (IsRFC6052(ip) => IsIpv6(ip) /\ ip[0] = 0)
  <2>1. ASSUME NEW bytes, Len(bytes) \in Nat, Len(bytes) >= 1, bytes[1] = 0, StartsWith(ip, bytes)
        PROVE  ip[0] = 0
    BY <2>1 DEF StartsWith
  <2>2. QED  BY <2>1 DEF IsRFC6145, IsRFC6052
<1>5. QED  BY <1>1, <1>2, <1>3, <1>4

\* The first bytes of an IP, whole and with a part of the last.
LEMMA LeadingBytes ==
  ASSUME NEW ip
  PROVE  /\ \A s \in 0..12 : Leading(ip, s, 16) = <<ip[s], ip[s + 1]>>
         /\ Leading(ip, 0, 32) = <<ip[0], ip[1], ip[2], ip[3]>>
         /\ Leading(ip, 0, 36) =
              <<ip[0], ip[1], ip[2], ip[3], BitAnd[<<ip[4], 240>>] + 255 - 240>>
<1> DEFINE L(s, bits) ==
             [i \in 1..(bits + 7) \div 8 |->
                IF 8 * i <= bits THEN ip[s + i - 1]
                ELSE BitAnd[<<ip[s + i - 1], HighBits[bits % 8]>>] + 255 - HighBits[bits % 8]]
<1>1. \A s, bits : Leading(ip, s, bits) = L(s, bits)
  BY Zenon DEF Leading
<1>2. ASSUME NEW s \in 0..12  PROVE L(s, 16) = <<ip[s], ip[s + 1]>>
  <2>1. (16 + 7) \div 8 = 2
    OBVIOUS
  <2>2. L(s, 16) = [i \in 1..2 |-> ip[s + i - 1]]
    BY <2>1
  <2>3. QED  BY <2>2
<1>3. L(0, 32) = <<ip[0], ip[1], ip[2], ip[3]>>
  <2>1. (32 + 7) \div 8 = 4
    OBVIOUS
  <2>2. L(0, 32) = [i \in 1..4 |-> ip[0 + i - 1]]
    BY <2>1
  <2>3. QED  BY <2>2
<1>4. L(0, 36) = <<ip[0], ip[1], ip[2], ip[3], BitAnd[<<ip[4], 240>>] + 255 - 240>>
  <2>1. (36 + 7) \div 8 = 5 /\ 36 % 8 = 4 /\ HighBits[4] = 240
    BY DEF HighBits
  <2>2. L(0, 36) = [i \in 1..5 |-> IF i <= 4 THEN ip[0 + i - 1]
                                   ELSE BitAnd[<<ip[0 + i - 1], 240>>] + 255 - 240]
    BY <2>1
  <2>3. QED  BY <2>2
<1> HIDE DEF L
<1>5. QED  BY <1>1, <1>2, <1>3, <1>4

-----------------------------------------------------------------------------
(* Groups. *)

\* The group of a routable address.
LEMMA GroupOf ==
  ASSUME NEW ip, IsRoutable(ip)
  PROVE  /\ IsValidIp(ip) /\ ~IsInternal(ip)
         /\ IsIpv4(ip) \/ IsRFC6145(ip) \/ IsRFC6052(ip) =>
              GetGroup(ip) = Group("ipv4", <<ip[12], ip[13]>>)
         /\ IsRFC3964(ip) => GetGroup(ip) = Group("ipv4", <<ip[2], ip[3]>>)
         /\ IsRFC4380(ip) => GetGroup(ip) = Group("ipv4", <<255 - ip[12], 255 - ip[13]>>)
         /\ IsNative(ip) /\ ~IsIpv4(ip) /\ StartsWith(ip, <<32, 1, 4, 112>>) =>
              GetGroup(ip) = Group("ipv6", Leading(ip, 0, 36))
         /\ IsNative(ip) /\ ~IsIpv4(ip) /\ ~StartsWith(ip, <<32, 1, 4, 112>>) =>
              GetGroup(ip) = Group("ipv6", <<ip[0], ip[1], ip[2], ip[3]>>)
<1>1. IsValidIp(ip) /\ ~IsInternal(ip)
  BY DEF IsRoutable, IsValidIp
<1> DEFINE i == IsIpv4(ip) \/ IsRFC6145(ip) \/ IsRFC6052(ip)
           a == IsRFC3964(ip)
           b == IsRFC4380(ip)
           t == IsTor(ip)
           c == StartsWith(ip, <<32, 1, 4, 112>>)
<1>2. GetGroup(ip) =
        CASE i -> Group("ipv4", Leading(ip, 12, 16))
          [] a -> Group("ipv4", Leading(ip, 2, 16))
          [] b -> Group("ipv4", <<255 - ip[12], 255 - ip[13]>>)
          [] t -> Group("tor", Leading(ip, 6, 4))
          [] c -> Group("ipv6", Leading(ip, 0, 36))
          [] OTHER -> Group("ipv6", Leading(ip, 0, 32))
  BY <1>1, Zenon DEF GetGroup
<1>3. ~(i /\ a) /\ ~(i /\ b) /\ ~(a /\ b) /\ ~(i /\ t) /\ ~(a /\ t) /\ ~(b /\ t)
  <2>1. IsIpv4(ip) => ip[0] = 0
    BY KindsInBytes
  <2>2. (IsRFC6145(ip) => ip[0] = 0) /\ (IsRFC6052(ip) => ip[0] = 0)
    BY KindsInBytes
  <2>3. (a => ip[0] = 32 /\ ip[1] = 2) /\ (b => ip[0] = 32 /\ ip[1] = 1) /\ (t => ip[0] = 253)
    BY KindsInBytes
  <2>4. QED  BY <2>1, <2>2, <2>3
<1>4. c => ~i /\ ~a /\ ~t
  <2>1. c => ip[0] = 32 /\ ip[1] = 1 /\ ip[2] = 4
    BY StartInBytes
  <2>2. (IsIpv4(ip) => ip[0] = 0) /\ (IsRFC6145(ip) => ip[0] = 0) /\ (IsRFC6052(ip) => ip[0] = 0)
    BY KindsInBytes
  <2>3. (a => ip[1] = 2) /\ (t => ip[0] = 253)
    BY KindsInBytes
  <2>4. QED  BY <2>1, <2>2, <2>3
<1>5. c => ~b
  <2>1. c => ip[2] = 4
    BY StartInBytes
  <2>2. b => ip[2] = 0
    BY KindsInBytes
  <2>3. QED  BY <2>1, <2>2
<1>6. /\ Leading(ip, 12, 16) = <<ip[12], ip[13]>>
      /\ Leading(ip, 2, 16) = <<ip[2], ip[3]>>
      /\ Leading(ip, 0, 32) = <<ip[0], ip[1], ip[2], ip[3]>>
  <2>1. 12 \in 0..12 /\ 2 \in 0..12 /\ 12 + 1 = 13 /\ 2 + 1 = 3
    OBVIOUS
  <2>2. QED  BY ZenonT(40), <2>1, LeadingBytes
<1>7. IsNative(ip) /\ ~IsIpv4(ip) => ~i /\ ~a /\ ~b /\ ~t
  BY DEF IsNative
<1> HIDE DEF i, a, b, t, c
<1>8. /\ i => GetGroup(ip) = Group("ipv4", <<ip[12], ip[13]>>)
      /\ a => GetGroup(ip) = Group("ipv4", <<ip[2], ip[3]>>)
      /\ b => GetGroup(ip) = Group("ipv4", <<255 - ip[12], 255 - ip[13]>>)
      /\ ~i /\ ~a /\ ~b /\ ~t /\ c => GetGroup(ip) = Group("ipv6", Leading(ip, 0, 36))
      /\ ~i /\ ~a /\ ~b /\ ~t /\ ~c => GetGroup(ip) = Group("ipv6", <<ip[0], ip[1], ip[2], ip[3]>>)
  BY <1>2, <1>3, <1>4, <1>5, <1>6
<1>9. QED  BY <1>1, <1>7, <1>8 DEF i, a, b, t, c

\* An IPv4 address is its four bytes.
LEMMA Ipv4Bytes ==
  ASSUME NEW v4, Len(v4) = 4
  PROVE  LET x == SetIpv4(Nil, v4)
         IN /\ IsIpv4(x) /\ x = [n \in BytePositions |-> x[n]]
            /\ x[12] = v4[1] /\ x[13] = v4[2] /\ x[14] = v4[3] /\ x[15] = v4[4]
<1> DEFINE y == Overwrite(Nil, 0, PchIpv4)
           x == Overwrite(y, 12, v4)
<1>1. ~IsIpv4(Nil)
  BY KindsInBytes DEF Nil, BytePositions
<1>2. SetIpv4(Nil, v4) = x
  BY <1>1 DEF SetIpv4
<1>3. Len(PchIpv4) = 12 /\ (\A n \in 1..10 : PchIpv4[n] = 0) /\ PchIpv4[11] = 255 /\ PchIpv4[12] = 255
  BY DEF PchIpv4
<1>4. \A n \in 0..11 : y[n] = PchIpv4[n + 1]
  BY <1>3 DEF Overwrite, BytePositions
<1>5. \A n \in 0..9 : n + 1 \in 1..10 /\ n \in 0..11
  OBVIOUS
<1>6. (\A n \in 0..9 : y[n] = 0) /\ y[10] = 255 /\ y[11] = 255
  BY <1>3, <1>4, <1>5
<1>7. x = [n \in BytePositions |-> IF n \in 12..15 THEN v4[n - 11] ELSE y[n]]
  <2> HIDE DEF y
  <2>1. \A n \in BytePositions : 12 + 4 - 1 = 15 /\ n - 12 + 1 = n - 11
    BY DEF BytePositions
  <2>2. QED  BY <2>1 DEF Overwrite
<1> HIDE DEF y, x
<1>8. (\A n \in 0..11 : x[n] = y[n]) /\ \A n \in 12..15 : x[n] = v4[n - 11]
  BY <1>7 DEF BytePositions
<1>9. \A n \in 0..9 : n \in 0..11
  OBVIOUS
<1>10. IsIpv4(x)
  BY <1>6, <1>8, <1>9, KindsInBytes
<1>11. x[12] = v4[1] /\ x[13] = v4[2] /\ x[14] = v4[3] /\ x[15] = v4[4]
  BY <1>8
<1>12. x = [n \in BytePositions |-> x[n]]
  BY <1>7
<1>13. QED  BY <1>2, <1>10, <1>11, <1>12

\* An IPv4 address is the one that its last bytes make.
LEMMA Ipv4IsItsBytes ==
  ASSUME NEW ip, ip = [n \in BytePositions |-> ip[n]], IsIpv4(ip)
  PROVE  SetIpv4(Nil, Ipv4At(ip, 12)) = ip
<1> DEFINE v4 == Ipv4At(ip, 12)
           x == SetIpv4(Nil, v4)
<1>1. Len(v4) = 4 /\ v4[1] = ip[12] /\ v4[2] = ip[13] /\ v4[3] = ip[14] /\ v4[4] = ip[15]
  BY DEF Ipv4At
<1> HIDE DEF v4
<1>2. /\ IsIpv4(x) /\ x = [n \in BytePositions |-> x[n]]
      /\ x[12] = v4[1] /\ x[13] = v4[2] /\ x[14] = v4[3] /\ x[15] = v4[4]
  BY <1>1, Ipv4Bytes
<1> HIDE DEF x
<1>3. (\A n \in 0..9 : x[n] = 0 /\ ip[n] = 0) /\ x[10] = 255 /\ x[11] = 255 /\ ip[10] = 255 /\ ip[11] = 255
  BY <1>2, KindsInBytes
<1>4. \A n \in BytePositions : n \in 0..9 \/ n = 10 \/ n = 11 \/ n = 12 \/ n = 13 \/ n = 14 \/ n = 15
  BY DEF BytePositions
<1>5. \A n \in BytePositions : x[n] = ip[n]
  BY <1>1, <1>2, <1>3, <1>4
<1>6. QED  BY <1>2, <1>5 DEF x, v4

\* What travels inside an address, by the kind of it.
LEMMA TravelsInGroup == \A ip \in Bytes16 : TravelsAsIpv4(ip)
<1>1. SUFFICES ASSUME NEW ip \in Bytes16  PROVE TravelsAsIpv4(ip)
  OBVIOUS
<1> DEFINE e == EmbeddedIpv4(ip)
           x == SetIpv4(Nil, e)
           i == IsIpv4(ip) \/ IsRFC6145(ip) \/ IsRFC6052(ip)
           a == IsRFC3964(ip)
           b == IsRFC4380(ip)
<1>2. SUFFICES ASSUME IsRoutable(ip), IsRoutable(x)  PROVE GetGroup(ip) = GetGroup(x)
  BY Zenon DEF TravelsAsIpv4
<1>3. e = CASE i -> Ipv4At(ip, 12)
            [] a -> Ipv4At(ip, 2)
            [] b -> [k \in 1..4 |-> 255 - ip[11 + k]]
            [] OTHER -> <<0, 0, 0, 0>>
  BY Zenon DEF EmbeddedIpv4
<1>4. ~(i /\ a) /\ ~(i /\ b) /\ ~(a /\ b)
  <2>1. IsIpv4(ip) => ip[0] = 0
    BY KindsInBytes
  <2>2. (IsRFC6145(ip) => ip[0] = 0) /\ (IsRFC6052(ip) => ip[0] = 0)
    BY KindsInBytes
  <2>3. (a => ip[0] = 32 /\ ip[1] = 2) /\ (b => ip[0] = 32 /\ ip[1] = 1)
    BY KindsInBytes
  <2>4. QED  BY <2>1, <2>2, <2>3
<1>5. /\ i => GetGroup(ip) = Group("ipv4", <<ip[12], ip[13]>>)
      /\ a => GetGroup(ip) = Group("ipv4", <<ip[2], ip[3]>>)
      /\ b => GetGroup(ip) = Group("ipv4", <<255 - ip[12], 255 - ip[13]>>)
  BY <1>2, GroupOf
<1> HIDE DEF e, i, a, b
<1>6. Len(e) = 4 => /\ IsIpv4(x) /\ x[12] = e[1] /\ x[13] = e[2] /\ x[14] = e[3] /\ x[15] = e[4]
  BY Ipv4Bytes
<1>7. IsIpv4(x) => GetGroup(x) = Group("ipv4", <<x[12], x[13]>>)
  BY <1>2, GroupOf
<1>8. CASE i
  <2>1. e = Ipv4At(ip, 12)
    BY <1>3, <1>4, <1>8
  <2>2. Len(e) = 4 /\ e[1] = ip[12] /\ e[2] = ip[13]
    BY <2>1 DEF Ipv4At
  <2> HIDE DEF x
  <2>3. QED  BY <1>5, <1>6, <1>7, <1>8, <2>2
<1>9. CASE a
  <2>1. e = Ipv4At(ip, 2)
    BY <1>3, <1>4, <1>9
  <2>2. Len(e) = 4 /\ e[1] = ip[2] /\ e[2] = ip[3]
    BY <2>1 DEF Ipv4At
  <2> HIDE DEF x
  <2>3. QED  BY <1>5, <1>6, <1>7, <1>9, <2>2
<1>10. CASE b
  <2>1. e = [k \in 1..4 |-> 255 - ip[11 + k]]
    BY <1>3, <1>4, <1>10
  <2>2. Len(e) = 4 /\ e[1] = 255 - ip[12] /\ e[2] = 255 - ip[13]
    BY <2>1
  <2> HIDE DEF x
  <2>3. QED  BY <1>5, <1>6, <1>7, <1>10, <2>2
<1>11. CASE ~i /\ ~a /\ ~b
  <2>1. e = <<0, 0, 0, 0>>
    BY <1>3, <1>11
  <2>2. Len(e) = 4 /\ e[1] = 0 /\ e[2] = 0 /\ e[3] = 0 /\ e[4] = 0
    BY <2>1
  <2>3. IsIpv4(x) /\ Ipv4At(x, 12) = <<0, 0, 0, 0>>
    <3> HIDE DEF x
    <3>1. QED  BY <1>6, <2>2 DEF Ipv4At
  <2>4. IsValidIp(x)
    BY <1>2 DEF IsRoutable
  <2> HIDE DEF x
  <2>5. QED  BY <2>3, <2>4 DEF IsValidIp
<1>12. QED  BY <1>8, <1>9, <1>10, <1>11

-----------------------------------------------------------------------------
(* Networks. *)

\* One byte under one of a mask.
Under(x, y) == CASE y = 255 -> x [] y = 0 -> 0 [] OTHER -> BitAnd[<<x, y>>]

\* Two addresses are alike under a mask if they are byte by byte.
LEMMA AlikeUnderMask ==
  ASSUME NEW a, NEW b, NEW mask
  PROVE  Masked(a, mask) = Masked(b, mask) <=>
           \A n \in BytePositions : Under(a[n], mask[n]) = Under(b[n], mask[n])
<1>1. \A x : Masked(x, mask) = [n \in BytePositions |-> Under(x[n], mask[n])]
  BY Zenon DEF Masked, Under
<1>2. QED  BY <1>1

\* Masks of /16 in IPv4, of /32 and of /36.
LEMMA PrefixMasks ==
  /\ \A n \in BytePositions : PrefixMask(112)[n] = IF n < 14 THEN 255 ELSE 0
  /\ \A n \in BytePositions : PrefixMask(32)[n] = IF n < 4 THEN 255 ELSE 0
  /\ \A n \in BytePositions : PrefixMask(36)[n] = IF n < 4 THEN 255 ELSE IF n = 4 THEN 240 ELSE 0
<1>1. ASSUME NEW l \in Int, NEW n \in BytePositions
      PROVE  PrefixMask(l)[n] = CASE l - 8 * n >= 8 -> 255
                                  [] l - 8 * n <= 0 -> 0
                                  [] OTHER -> HighBits[l - 8 * n]
  BY Zenon DEF PrefixMask
<1>2. HighBits[4] = 240
  BY DEF HighBits
<1>3. \A n \in BytePositions : n \in Int /\ n >= 0
  BY DEF BytePositions
<1>4. ASSUME NEW n \in BytePositions  PROVE PrefixMask(112)[n] = IF n < 14 THEN 255 ELSE 0
  <2>1. n < 14 => 112 - 8 * n >= 8
    BY <1>3
  <2>2. ~(n < 14) => 112 - 8 * n <= 0 /\ ~(112 - 8 * n >= 8)
    BY <1>3
  <2>3. n < 14 => ~(112 - 8 * n <= 0)
    BY <1>3
  <2>4. PrefixMask(112)[n] = CASE 112 - 8 * n >= 8 -> 255
                               [] 112 - 8 * n <= 0 -> 0
                               [] OTHER -> HighBits[112 - 8 * n]
    BY <1>1
  <2>5. QED  BY <2>1, <2>2, <2>3, <2>4
<1>5. ASSUME NEW n \in BytePositions  PROVE PrefixMask(32)[n] = IF n < 4 THEN 255 ELSE 0
  <2>1. n < 4 => 32 - 8 * n >= 8
    BY <1>3
  <2>2. ~(n < 4) => 32 - 8 * n <= 0 /\ ~(32 - 8 * n >= 8)
    BY <1>3
  <2>3. n < 4 => ~(32 - 8 * n <= 0)
    BY <1>3
  <2>4. PrefixMask(32)[n] = CASE 32 - 8 * n >= 8 -> 255
                              [] 32 - 8 * n <= 0 -> 0
                              [] OTHER -> HighBits[32 - 8 * n]
    BY <1>1
  <2>5. QED  BY <2>1, <2>2, <2>3, <2>4
<1>6. ASSUME NEW n \in BytePositions
      PROVE  PrefixMask(36)[n] = IF n < 4 THEN 255 ELSE IF n = 4 THEN 240 ELSE 0
  <2>1. n < 4 => 36 - 8 * n >= 8 /\ ~(36 - 8 * n <= 0)
    BY <1>3
  <2>2. n = 4 => 36 - 8 * n = 4
    BY <1>3
  <2>3. ~(n < 4) /\ n # 4 => 36 - 8 * n <= 0 /\ ~(36 - 8 * n >= 8)
    BY <1>3
  <2>4. PrefixMask(36)[n] = CASE 36 - 8 * n >= 8 -> 255
                              [] 36 - 8 * n <= 0 -> 0
                              [] OTHER -> HighBits[36 - 8 * n]
    BY <1>1
  <2>5. QED  BY <1>2, <2>1, <2>2, <2>3, <2>4
<1>7. QED  BY <1>4, <1>5, <1>6

\* The network of a group, in the bytes it compares.
LEMMA NetworkOfGroup ==
  ASSUME NEW ip, NEW other, IsValidIp(other)
  PROVE  /\ IsIpv4(ip) =>
              (Match(SubNetOfPrefix(ip, 16), other) <=> \A n \in 0..13 : other[n] = ip[n])
         /\ ~IsIpv4(ip) =>
              (Match(SubNetOfPrefix(ip, 32), other) <=> \A n \in 0..3 : other[n] = ip[n])
         /\ ~IsIpv4(ip) =>
              (Match(SubNetOfPrefix(ip, 36), other) <=>
                 /\ \A n \in 0..3 : other[n] = ip[n]
                 /\ BitAnd[<<other[4], 240>>] = BitAnd[<<ip[4], 240>>])
<1>1. ASSUME NEW l \in Int, InRange(ip, l)
      PROVE  Match(SubNetOfPrefix(ip, l), other) <=>
               \A n \in BytePositions :
                 Under(other[n], PrefixMask(l + 8 * FirstPosition(ip))[n])
                   = Under(ip[n], PrefixMask(l + 8 * FirstPosition(ip))[n])
  <2> DEFINE mask == PrefixMask(l + 8 * FirstPosition(ip))
  <2>1. SubNetOfPrefix(ip, l) = [ip |-> Masked(ip, mask), mask |-> mask, valid |-> InRange(ip, l)]
    BY <1>1 DEF SubNetOfPrefix
  <2> HIDE DEF mask
  <2>2. Match(SubNetOfPrefix(ip, l), other) <=> Masked(other, mask) = Masked(ip, mask)
    BY <1>1, <2>1 DEF Match
  <2>3. QED  BY <2>2, AlikeUnderMask DEF mask
<1>2. ASSUME IsIpv4(ip)
      PROVE  Match(SubNetOfPrefix(ip, 16), other) <=> \A n \in 0..13 : other[n] = ip[n]
  <2>1. FirstPosition(ip) = 12 /\ InRange(ip, 16) /\ 16 + 8 * FirstPosition(ip) = 112
    BY <1>2 DEF FirstPosition, InRange
  <2>2. \A n \in BytePositions :
          PrefixMask(112)[n] = IF n < 14 THEN 255 ELSE 0
    BY PrefixMasks
  <2>3. Match(SubNetOfPrefix(ip, 16), other) <=>
          \A n \in BytePositions :
            Under(other[n], PrefixMask(112)[n]) = Under(ip[n], PrefixMask(112)[n])
    BY <1>1, <2>1
  <2>4. \A n \in BytePositions :
          Under(other[n], PrefixMask(112)[n]) = Under(ip[n], PrefixMask(112)[n])
            <=> (n < 14 => other[n] = ip[n])
    BY <2>2 DEF Under
  <2>5. \A n : n \in 0..13 <=> n \in BytePositions /\ n < 14
    BY DEF BytePositions
  <2>6. QED  BY <2>3, <2>4, <2>5
<1>3. ASSUME ~IsIpv4(ip)
      PROVE  Match(SubNetOfPrefix(ip, 32), other) <=> \A n \in 0..3 : other[n] = ip[n]
  <2>1. FirstPosition(ip) = 0 /\ InRange(ip, 32) /\ 32 + 8 * FirstPosition(ip) = 32
    BY <1>3 DEF FirstPosition, InRange
  <2>2. \A n \in BytePositions :
          PrefixMask(32)[n] = IF n < 4 THEN 255 ELSE 0
    BY PrefixMasks
  <2>3. Match(SubNetOfPrefix(ip, 32), other) <=>
          \A n \in BytePositions :
            Under(other[n], PrefixMask(32)[n]) = Under(ip[n], PrefixMask(32)[n])
    BY <1>1, <2>1
  <2>4. \A n \in BytePositions :
          Under(other[n], PrefixMask(32)[n]) = Under(ip[n], PrefixMask(32)[n])
            <=> (n < 4 => other[n] = ip[n])
    BY <2>2 DEF Under
  <2>5. \A n : n \in 0..3 <=> n \in BytePositions /\ n < 4
    BY DEF BytePositions
  <2>6. QED  BY <2>3, <2>4, <2>5
<1>4. ASSUME ~IsIpv4(ip)
      PROVE  Match(SubNetOfPrefix(ip, 36), other) <=>
               /\ \A n \in 0..3 : other[n] = ip[n]
               /\ BitAnd[<<other[4], 240>>] = BitAnd[<<ip[4], 240>>]
  <2>1. FirstPosition(ip) = 0 /\ InRange(ip, 36) /\ 36 + 8 * FirstPosition(ip) = 36
    BY <1>4 DEF FirstPosition, InRange
  <2>2. \A n \in BytePositions :
          PrefixMask(36)[n] = IF n < 4 THEN 255 ELSE IF n = 4 THEN 240 ELSE 0
    BY PrefixMasks
  <2>3. Match(SubNetOfPrefix(ip, 36), other) <=>
          \A n \in BytePositions :
            Under(other[n], PrefixMask(36)[n]) = Under(ip[n], PrefixMask(36)[n])
    BY <1>1, <2>1
  <2>4. \A n \in BytePositions :
          Under(other[n], PrefixMask(36)[n]) = Under(ip[n], PrefixMask(36)[n])
            <=> /\ n < 4 => other[n] = ip[n]
                /\ n = 4 => BitAnd[<<other[n], 240>>] = BitAnd[<<ip[n], 240>>]
    BY <2>2 DEF Under, BytePositions
  <2>5. 4 \in BytePositions /\ \A n : n \in 0..3 <=> n \in BytePositions /\ n < 4
    BY DEF BytePositions
  <2> DEFINE and(x) == BitAnd[<<x[4], 240>>]
             first == \A n \in BytePositions : n < 4 => other[n] = ip[n]
             fifth == \A n \in BytePositions :
                        n = 4 => BitAnd[<<other[n], 240>>] = BitAnd[<<ip[n], 240>>]
  <2>6. Match(SubNetOfPrefix(ip, 36), other) <=> first /\ fifth
    <3> DEFINE alike(n) == Under(other[n], PrefixMask(36)[n]) = Under(ip[n], PrefixMask(36)[n])
               one(n) == n < 4 => other[n] = ip[n]
               two(n) == n = 4 => BitAnd[<<other[n], 240>>] = BitAnd[<<ip[n], 240>>]
    <3>1. \A n \in BytePositions : alike(n) <=> one(n) /\ two(n)
      BY <2>4
    <3>2. Match(SubNetOfPrefix(ip, 36), other) <=> \A n \in BytePositions : alike(n)
      BY <2>3
    <3>3. /\ first <=> \A n \in BytePositions : one(n)
          /\ fifth <=> \A n \in BytePositions : two(n)
      OBVIOUS
    <3> HIDE DEF alike, one, two, first, fifth
    <3>4. QED  BY <3>1, <3>2, <3>3
  <2>7. first <=> \A n \in 0..3 : other[n] = ip[n]
    BY <2>5
  <2>8. fifth <=> and(other) = and(ip)
    BY <2>5
  <2>9. QED  BY <2>6, <2>7, <2>8
<1>5. QED  BY <1>2, <1>3, <1>4

\* Native addresses are of one group exactly if they are of one network.
LEMMA GroupsFollow == \A ip \in Bytes16 : Probes \subseteq Bytes16 => GroupsAreNetworks(ip)
<1>1. SUFFICES ASSUME NEW ip \in Bytes16, Probes \subseteq Bytes16, IsNative(ip),
                      NEW other \in Probes, IsNative(other)
               PROVE  LET length == CASE IsIpv4(ip) -> 16
                                      [] StartsWith(ip, <<32, 1, 4, 112>>) -> 36
                                      [] OTHER -> 32
                      IN GetGroup(other) = GetGroup(ip) <=>
                           (IsIpv4(other) <=> IsIpv4(ip)) /\ Match(SubNetOfPrefix(ip, length), other)
  BY Zenon DEF GroupsAreNetworks
<1> DEFINE He(x) == StartsWith(x, <<32, 1, 4, 112>>)
           length == CASE IsIpv4(ip) -> 16 [] He(ip) -> 36 [] OTHER -> 32
           m == Match(SubNetOfPrefix(ip, length), other)
           alike == GetGroup(other) = GetGroup(ip) <=> (IsIpv4(other) <=> IsIpv4(ip)) /\ m
<1>0. SUFFICES alike
  BY DEF He
<1>2. IsRoutable(ip) /\ IsRoutable(other) /\ IsValidIp(other)
  BY <1>1, GroupOf DEF IsNative
<1>3. \A x \in {ip, other} :
        GetGroup(x) = IF IsIpv4(x) THEN Group("ipv4", <<x[12], x[13]>>)
                      ELSE IF He(x) THEN Group("ipv6", Leading(x, 0, 36))
                      ELSE Group("ipv6", <<x[0], x[1], x[2], x[3]>>)
  BY ZenonT(40), <1>1, <1>2, GroupOf
<1>4. \A x : Leading(x, 0, 36) =
               <<x[0], x[1], x[2], x[3], BitAnd[<<x[4], 240>>] + 255 - 240>>
  BY LeadingBytes
<1>16. \A x, y : Leading(x, 0, 36) # <<y[0], y[1], y[2], y[3]>>
  <2>1. SUFFICES ASSUME NEW x, NEW y  PROVE Leading(x, 0, 36) # <<y[0], y[1], y[2], y[3]>>
    OBVIOUS
  <2> DEFINE u == <<x[0], x[1], x[2], x[3], BitAnd[<<x[4], 240>>] + 255 - 240>>
             v == <<y[0], y[1], y[2], y[3]>>
  <2>2. Len(u) = 5 /\ Len(v) = 4 /\ 5 # 4
    OBVIOUS
  <2>3. Leading(x, 0, 36) = u
    BY <1>4
  <2> HIDE DEF u, v
  <2>4. u # v
    BY <2>2
  <2>5. QED  BY <2>3, <2>4 DEF v
<1>5. \A x \in {ip, other} : BitAnd[<<x[4], 240>>] \in Nat
  <2>1. \A x \in {ip, other} : x[4] \in Nat
    BY <1>1 DEF Bytes16, BytePositions
  <2>2. QED  BY <2>1, BitAndEquation
<1>6. \A x : He(x) <=> x[0] = 32 /\ x[1] = 1 /\ x[2] = 4 /\ x[3] = 112
  BY StartInBytes
<1>7. \A x : IsIpv4(x) <=> (\A n \in 0..9 : x[n] = 0) /\ x[10] = 255 /\ x[11] = 255
  BY KindsInBytes
<1>8. \A n \in 0..3 : n = 0 \/ n = 1 \/ n = 2 \/ n = 3
  OBVIOUS
<1> HIDE DEF He, length
<1>9. \A x : IsIpv4(x) => ~He(x)
  BY <1>6, <1>7
<1>10. \A f, g, x, y : Group(f, x) = Group(g, y) <=> f = g /\ x = y
  BY DEF Group
<1>11. CASE IsIpv4(ip)
  <2>1. m <=> Match(SubNetOfPrefix(ip, 16), other)
    BY <1>9, <1>11 DEF length
  <2>2. m <=> \A n \in 0..13 : other[n] = ip[n]
    <3> HIDE DEF m
    <3>1. QED  BY ZenonT(40), <1>2, <1>11, <2>1, NetworkOfGroup
  <2>3. GetGroup(ip) = Group("ipv4", <<ip[12], ip[13]>>)
    BY <1>3, <1>11
  <2>4. CASE IsIpv4(other)
    <3>1. GetGroup(other) = GetGroup(ip) <=> other[12] = ip[12] /\ other[13] = ip[13]
      BY <1>3, <1>10, <2>3, <2>4
    <3>2. \A n \in 0..13 : n \in 0..9 \/ n = 10 \/ n = 11 \/ n = 12 \/ n = 13
      OBVIOUS
    <3>3. \A n \in 0..13 : n \notin {12, 13} => other[n] = ip[n]
      BY <1>7, <1>11, <2>4, <3>2
    <3>4. m <=> other[12] = ip[12] /\ other[13] = ip[13]
      BY <2>2, <3>3
    <3>5. QED  BY <1>11, <2>4, <3>1, <3>4
  <2>5. CASE ~IsIpv4(other)
    <3>1. GetGroup(other) # GetGroup(ip)
      BY <1>3, <1>10, <2>3, <2>5
    <3>2. QED  BY <1>11, <2>5, <3>1
  <2>6. QED  BY <2>4, <2>5
<1>12. CASE ~IsIpv4(ip) /\ He(ip)
  <2>1. m <=> Match(SubNetOfPrefix(ip, 36), other)
    BY <1>12 DEF length
  <2>2. m <=> /\ \A n \in 0..3 : other[n] = ip[n]
              /\ BitAnd[<<other[4], 240>>] = BitAnd[<<ip[4], 240>>]
    <3> HIDE DEF m
    <3>1. QED  BY <1>2, <1>12, <2>1, NetworkOfGroup
  <2>3. GetGroup(ip) = Group("ipv6", Leading(ip, 0, 36))
    BY <1>3, <1>12
  <2>4. CASE He(other)
    <3>1. ~IsIpv4(other)
      BY <1>9, <2>4
    <3>2. GetGroup(other) = GetGroup(ip) <=> Leading(other, 0, 36) = Leading(ip, 0, 36)
      BY <1>3, <1>10, <2>3, <2>4, <3>1
    <3>3. \A n \in 0..3 : other[n] = ip[n]
      BY <1>6, <1>8, <1>12, <2>4
    <3>4. Leading(other, 0, 36) = Leading(ip, 0, 36) <=>
            BitAnd[<<other[4], 240>>] = BitAnd[<<ip[4], 240>>]
      BY <1>4, <1>5, <1>6, <1>12, <2>4
    <3>5. QED  BY <1>12, <2>2, <3>1, <3>2, <3>3, <3>4
  <2>5. CASE ~He(other)
    <3>1. ~m
      BY <1>6, <1>12, <2>2, <2>5
    <3>2. GetGroup(other) # GetGroup(ip)
      <4>1. Leading(ip, 0, 36) # <<other[0], other[1], other[2], other[3]>>
        BY <1>16
      <4>2. QED  BY <1>3, <1>10, <2>3, <2>5, <4>1
    <3>3. QED  BY <3>1, <3>2
  <2>6. QED  BY <2>4, <2>5
<1>13. CASE ~IsIpv4(ip) /\ ~He(ip)
  <2>1. m <=> Match(SubNetOfPrefix(ip, 32), other)
    BY <1>13 DEF length
  <2>2. m <=> \A n \in 0..3 : other[n] = ip[n]
    <3> HIDE DEF m
    <3>1. QED  BY ZenonT(40), <1>2, <1>13, <2>1, NetworkOfGroup
  <2>3. GetGroup(ip) = Group("ipv6", <<ip[0], ip[1], ip[2], ip[3]>>)
    BY <1>3, <1>13
  <2>4. CASE IsIpv4(other)
    <3>1. GetGroup(other) # GetGroup(ip)
      BY <1>3, <1>10, <2>3, <2>4
    <3>2. QED  BY <1>13, <2>4, <3>1
  <2>5. CASE ~IsIpv4(other) /\ He(other)
    <3>1. GetGroup(other) # GetGroup(ip)
      <4>1. Leading(other, 0, 36) # <<ip[0], ip[1], ip[2], ip[3]>>
        BY <1>16
      <4>2. QED  BY <1>3, <1>10, <2>3, <2>5, <4>1
    <3>2. ~m
      BY <1>6, <1>13, <2>2, <2>5
    <3>3. QED  BY <1>13, <2>5, <3>1, <3>2
  <2>6. CASE ~IsIpv4(other) /\ ~He(other)
    <3>1. GetGroup(other) = GetGroup(ip) <=>
            <<other[0], other[1], other[2], other[3]>> = <<ip[0], ip[1], ip[2], ip[3]>>
      BY <1>3, <1>10, <2>3, <2>6
    <3>2. m <=> <<other[0], other[1], other[2], other[3]>> = <<ip[0], ip[1], ip[2], ip[3]>>
      BY <1>8, <2>2
    <3>3. QED  BY <1>13, <2>6, <3>1, <3>2
  <2>7. QED  BY <2>4, <2>5, <2>6
<1>14. QED  BY <1>11, <1>12, <1>13

-----------------------------------------------------------------------------
(* Reachability and sockets. *)

\* What is no routable address reaches nobody, and like reaches like best.
LEMMA RanksFollow == \A ip : ReachabilityRanks(ip)
<1>1. \A x : IsRoutable(x) => ~IsInternal(x) /\ GetFamily(x) \in {"ipv4", "tor", "ipv6"}
  BY GroupOf DEF GetFamily
<1>2. \A ours, theirs, tunnel : ReachabilityOf(ours, theirs, tunnel) \in 1..6
  BY DEF ReachabilityOf, ReachIpv4, ReachPrivate, ReachTeredo, ReachIpv6Weak, ReachIpv6Strong,
         ReachDefault
<1>3. \A x, y : /\ ~IsRoutable(x) => GetReachability(x, y) = 0
                /\ IsRoutable(x) => GetReachability(x, y) \in 1..6
  BY <1>1, <1>2 DEF GetReachability, ReachUnreachable
<1>4. /\ ReachabilityOf("ipv4", "ipv4", FALSE) = 4
      /\ ReachabilityOf("tor", "tor", FALSE) = 6
      /\ ReachabilityOf("ipv6", "ipv6", FALSE) = 5
  BY DEF ReachabilityOf, ReachIpv4, ReachPrivate, ReachIpv6Strong
<1>5. \A ours, tunnel : /\ ReachabilityOf(ours, "ipv4", tunnel) <= 4
                        /\ ReachabilityOf(ours, "ipv6", tunnel) <= 5
  BY DEF ReachabilityOf, ReachIpv4, ReachPrivate, ReachTeredo, ReachIpv6Weak, ReachIpv6Strong,
         ReachDefault
<1>6. ASSUME NEW ip, NEW partner, NEW other,
             IsRoutable(ip), GetFamily(ip) = GetExtFamily(partner),
             ~(IsRFC3964(ip) \/ IsRFC6052(ip) \/ IsRFC6145(ip) \/ IsRFC4380(ip))
      PROVE  GetReachability(ip, partner) >= GetReachability(other, partner)
  <2> DEFINE f == GetFamily(ip)
             tunnel == IsRFC3964(ip) \/ IsRFC6052(ip) \/ IsRFC6145(ip)
             t == IsRFC3964(other) \/ IsRFC6052(other) \/ IsRFC6145(other)
  <2>1. GetExtFamily(ip) = f /\ tunnel = FALSE
    BY <1>6 DEF GetExtFamily
  <2>2. GetReachability(ip, partner) = ReachabilityOf(f, f, FALSE)
    <3>1. GetReachability(ip, partner) =
            ReachabilityOf(GetExtFamily(ip), GetExtFamily(partner), tunnel)
      BY <1>1, <1>6 DEF GetReachability
    <3> HIDE DEF f, tunnel
    <3>2. QED  BY <1>6, <2>1, <3>1 DEF f
  <2>3. \/ GetReachability(other, partner) = 0
        \/ GetReachability(other, partner) = ReachabilityOf(GetExtFamily(other), f, t)
    BY <1>6 DEF GetReachability, ReachUnreachable
  <2>4. f \in {"ipv4", "tor", "ipv6"}
    BY <1>1, <1>6
  <2>5. GetReachability(other, partner) \in 0..6
    BY <1>3
  <2> HIDE DEF f, t
  <2> DEFINE own == GetReachability(ip, partner)
             rest == GetReachability(other, partner)
  <2>6. CASE f = "ipv4"
    <3>1. own = 4
      BY <1>4, <2>2, <2>6
    <3>2. rest <= 4
      BY <1>5, <2>3, <2>6
    <3> HIDE DEF own, rest
    <3>3. QED  BY <2>5, <3>1, <3>2 DEF own, rest
  <2>7. CASE f = "tor"
    <3>1. own = 6
      BY <1>4, <2>2, <2>7
    <3>2. QED  BY <2>5, <3>1
  <2>8. CASE f = "ipv6"
    <3>1. own = 5
      BY <1>4, <2>2, <2>8
    <3>2. rest <= 5
      BY <1>5, <2>3, <2>8
    <3>3. QED  BY <2>5, <3>1, <3>2
  <2>9. QED  BY <2>4, <2>6, <2>7, <2>8
<1>7. QED  BY <1>1, <1>3, <1>6 DEF ReachabilityRanks, ReachUnreachable

AddressType == addr \in [ip : Bytes16, port : Ports \cup {0}, scope : Scopes \cup {0}]

\* An address goes through a socket and back.
LEMMA ThroughSockets ==
  ASSUME NEW a \in [ip : Bytes16, port : Ports \cup {0}, scope : Scopes \cup {0}],
         ToSockAddr(a) # NoSockAddr
  PROVE  LET b == FromSockAddr(ToSockAddr(a))
         IN /\ b \in [ip : Bytes16, port : Ports \cup {0}, scope : Scopes \cup {0}]
            /\ b.ip = a.ip /\ b.port = a.port /\ ToSockAddr(b) = ToSockAddr(a)
<1> DEFINE s == ToSockAddr(a)
           b == FromSockAddr(s)
<1>1. /\ a = [ip |-> a.ip, port |-> a.port, scope |-> a.scope]
      /\ a.ip \in Bytes16 /\ a.port \in Ports \cup {0} /\ a.scope \in Scopes \cup {0}
  OBVIOUS
<1>2. CASE IsIpv4(a.ip)
  <2>1. s = [family |-> "inet", ip |-> Ipv4At(a.ip, 12), port |-> a.port]
    BY <1>2 DEF ToSockAddr, IsIpv6
  <2>2. SetIpv4(Nil, Ipv4At(a.ip, 12)) = a.ip
    BY <1>1, <1>2, Ipv4IsItsBytes DEF Bytes16
  <2>3. b = [ip |-> a.ip, port |-> a.port, scope |-> 0]
    <3> HIDE DEF s
    <3>1. b = [NewAddr EXCEPT !.ip = SetIpv4(Nil, s.ip), !.port = s.port]
      BY <2>1 DEF FromSockAddr
    <3>2. QED  BY <2>1, <2>2, <3>1 DEF NewAddr
  <2> HIDE DEF b
  <2>4. ToSockAddr(b) = [family |-> "inet", ip |-> Ipv4At(a.ip, 12), port |-> a.port]
    BY <1>2, <2>3 DEF ToSockAddr, IsIpv6
  <2>5. QED  BY <1>1, <2>1, <2>3, <2>4 DEF b
<1>3. CASE ~IsIpv4(a.ip) /\ IsIpv6(a.ip)
  <2>1. s = [family |-> "inet6", ip |-> a.ip, port |-> a.port, scope |-> a.scope]
    BY <1>3 DEF ToSockAddr
  <2>2. b = a
    BY <1>1, <2>1 DEF FromSockAddr
  <2>3. QED  BY <1>1, <2>2
<1>4. CASE ~IsIpv4(a.ip) /\ ~IsIpv6(a.ip)
  <2>1. s = NoSockAddr
    BY <1>4 DEF ToSockAddr
  <2>2. QED  BY <2>1
<1>5. QED  BY <1>2, <1>3, <1>4

\* A socket gives back the address it was given.
LEMMA SocketsFollow == AddressType => SocketKeepsAddress
  BY ThroughSockets DEF AddressType, SocketKeepsAddress, Identity

-----------------------------------------------------------------------------
(* Networks made of an address, and their keys. *)

Masks16 == [BytePositions -> 0..255]

\* The networks that are made of an address.
MadeOf(ip) ==
  {SubNetOf(ip)} \cup {SubNetOfPrefix(ip, l) : l \in PrefixLengths}
                 \cup {SubNetOfMask(ip, m) : m \in Masks}

\* The mask of a prefix has bytes, and all bits before it is over.
LEMMA PrefixMaskBytes ==
  ASSUME NEW l \in Int
  PROVE  /\ PrefixMask(l) \in Masks16
         /\ \A n \in BytePositions : l - 8 * n >= 8 => PrefixMask(l)[n] = 255
<1>1. \A k \in 1..7 : HighBits[k] \in 0..255
  <2>1. \A k \in 1..7 : k = 1 \/ k = 2 \/ k = 3 \/ k = 4 \/ k = 5 \/ k = 6 \/ k = 7
    OBVIOUS
  <2>2. QED  BY <2>1 DEF HighBits
<1>2. ASSUME NEW n \in BytePositions
      PROVE  (CASE l - 8 * n >= 8 -> 255 [] l - 8 * n <= 0 -> 0 [] OTHER -> HighBits[l - 8 * n])
               \in 0..255
  <2>1. n \in Int
    BY DEF BytePositions
  <2>2. l - 8 * n >= 8 \/ l - 8 * n <= 0 \/ l - 8 * n \in 1..7
    BY <2>1
  <2>3. ~(l - 8 * n >= 8 /\ l - 8 * n <= 0)
    BY <2>1
  <2>4. QED  BY <1>1, <2>2, <2>3
<1>3. PrefixMask(l) =
        [n \in BytePositions |->
           CASE l - 8 * n >= 8 -> 255 [] l - 8 * n <= 0 -> 0 [] OTHER -> HighBits[l - 8 * n]]
  BY Zenon DEF PrefixMask
<1>4. PrefixMask(l) \in Masks16
  BY <1>2, <1>3 DEF Masks16
<1>5. ASSUME NEW n \in BytePositions, l - 8 * n >= 8  PROVE PrefixMask(l)[n] = 255
  <2>1. ~(l - 8 * n <= 0)
    BY <1>5 DEF BytePositions
  <2>2. QED  BY <1>3, <1>5, <2>1
<1>6. QED  BY <1>4, <1>5

\* What is under a mask stays as it is under it.
LEMMA MaskedOnce ==
  ASSUME NEW ip \in Bytes16, NEW mask \in Masks16
  PROVE  LET x == Masked(ip, mask)
         IN /\ x = [n \in BytePositions |-> x[n]] /\ Masked(x, mask) = x
            /\ \A n \in BytePositions : mask[n] = 255 => x[n] = ip[n]
<1>1. \A x : Masked(x, mask) = [n \in BytePositions |-> Under(x[n], mask[n])]
  BY Zenon DEF Masked, Under
<1>2. ASSUME NEW a \in Nat, NEW m \in Nat  PROVE Under(Under(a, m), m) = Under(a, m)
  BY BitAndOnce DEF Under
<1>3. \A n \in BytePositions : ip[n] \in Nat /\ mask[n] \in Nat
  BY DEF Bytes16, Masks16
<1>4. \A a : Under(a, 255) = a
  BY DEF Under
<1> DEFINE x == Masked(ip, mask)
<1>5. \A n \in BytePositions : x[n] = Under(ip[n], mask[n])
  BY <1>1
<1>6. Masked(x, mask) = [n \in BytePositions |-> Under(x[n], mask[n])]
  BY <1>1
<1>7. x = [n \in BytePositions |-> x[n]]
  BY <1>1
<1> HIDE DEF x
<1>8. \A n \in BytePositions : Under(x[n], mask[n]) = x[n]
  BY <1>2, <1>3, <1>5
<1>9. Masked(x, mask) = x
  BY <1>6, <1>7, <1>8
<1>10. \A n \in BytePositions : mask[n] = 255 => x[n] = ip[n]
  BY <1>4, <1>5
<1>11. QED  BY <1>7, <1>9, <1>10 DEF x

\* A network of an address is that address under its mask.
LEMMA NetFacts ==
  ASSUME NEW ip \in Bytes16, NEW s \in MadeOf(ip)
  PROVE  /\ s.mask \in Masks16 /\ s.ip = Masked(ip, s.mask)
         /\ IsIpv4(ip) => \A n \in 0..11 : s.mask[n] = 255
<1>1. AllOnes \in Masks16 /\ \A n \in BytePositions : AllOnes[n] = 255
  BY DEF AllOnes, Masks16
<1>2. \A n \in 0..11 : n \in BytePositions /\ n \in Int /\ n <= 11
  BY DEF BytePositions
<1>3. CASE s = SubNetOf(ip)
  <2>1. s.mask = AllOnes /\ s.ip = ip
    BY <1>3 DEF SubNetOf
  <2>2. Masked(ip, AllOnes) = ip
    <3>1. Masked(ip, AllOnes) = [n \in BytePositions |-> ip[n]]
      BY <1>1 DEF Masked
    <3>2. QED  BY <3>1 DEF Bytes16
  <2>3. QED  BY <1>1, <1>2, <2>1, <2>2
<1>4. ASSUME NEW l \in PrefixLengths, s = SubNetOfPrefix(ip, l)
      PROVE  /\ s.mask \in Masks16 /\ s.ip = Masked(ip, s.mask)
             /\ IsIpv4(ip) => \A n \in 0..11 : s.mask[n] = 255
  <2> DEFINE m == IF InRange(ip, l) THEN PrefixMask(l + 8 * FirstPosition(ip)) ELSE AllOnes
  <2>1. s = [ip |-> Masked(ip, m), mask |-> m, valid |-> InRange(ip, l)]
    BY <1>4 DEF SubNetOfPrefix
  <2>2. l \in Int /\ FirstPosition(ip) \in Nat /\ (IsIpv4(ip) => FirstPosition(ip) = 12)
    BY AddressAssumption DEF FirstPosition
  <2>3. l + 8 * FirstPosition(ip) \in Int
    BY <2>2
  <2>4. m \in Masks16
    BY <1>1, <2>3, PrefixMaskBytes
  <2>5. ASSUME IsIpv4(ip), NEW n \in 0..11  PROVE m[n] = 255
    <3>1. CASE InRange(ip, l)
      <4> DEFINE k == l + 8 * FirstPosition(ip)
      <4>1. k - 8 * n >= 8
        BY <1>2, <2>2, <2>5, <3>1 DEF InRange
      <4>2. k \in Int /\ n \in BytePositions
        BY <1>2, <2>3
      <4>3. m = PrefixMask(k)
        BY <3>1
      <4> HIDE DEF k
      <4>4. PrefixMask(k)[n] = 255
        BY <4>1, <4>2, PrefixMaskBytes
      <4>5. QED  BY <4>3, <4>4
    <3>2. CASE ~InRange(ip, l)
      BY <1>1, <1>2, <3>2
    <3>3. QED  BY <3>1, <3>2
  <2> HIDE DEF m
  <2>6. QED  BY <2>1, <2>4, <2>5
<1>5. ASSUME NEW o \in Masks, s = SubNetOfMask(ip, o)
      PROVE  /\ s.mask \in Masks16 /\ s.ip = Masked(ip, s.mask)
             /\ IsIpv4(ip) => \A n \in 0..11 : s.mask[n] = 255
  <2> DEFINE m == [n \in BytePositions |-> IF n < FirstPosition(ip) THEN 255 ELSE o[n]]
  <2>1. s = [ip |-> Masked(ip, m), mask |-> m, valid |-> TRUE]
    BY <1>5 DEF SubNetOfMask
  <2>2. \A n \in BytePositions : o[n] \in 0..255
    BY AddressAssumption DEF BytePositions
  <2>3. m \in Masks16
    BY <2>2 DEF Masks16
  <2>4. IsIpv4(ip) => \A n \in 0..11 : m[n] = 255
    BY <1>2 DEF FirstPosition
  <2> HIDE DEF m
  <2>5. QED  BY <2>1, <2>3, <2>4
<1>6. QED  BY <1>3, <1>4, <1>5 DEF MadeOf

\* Tor, internal and IPv4 addresses are apart.
LEMMA KindsApart ==
  \A x : ~(IsTor(x) /\ IsInternal(x)) /\ ~(IsTor(x) /\ IsIpv4(x)) /\ ~(IsInternal(x) /\ IsIpv4(x))
  BY KindsInBytes

\* The text of an address, by its kind.
LEMMA TextOf ==
  ASSUME NEW x
  PROVE  /\ IsTor(x) => AddrText(x) = [form |-> "onion", bytes |-> [i \in 1..10 |-> x[5 + i]]]
         /\ IsInternal(x) =>
              AddrText(x) = [form |-> "internal", bytes |-> [i \in 1..10 |-> x[5 + i]]]
         /\ IsIpv4(x) => AddrText(x) = [form |-> "dotted", bytes |-> Ipv4At(x, 12)]
         /\ IsIpv6(x) => AddrText(x) = [form |-> "colons", bytes |-> [i \in 1..16 |-> x[i - 1]]]
  BY KindsApart DEF AddrText, IsIpv6

\* The text of an address names it.
LEMMA TextNamesAddress ==
  ASSUME NEW x \in Bytes16, NEW y \in Bytes16, AddrText(x) = AddrText(y)
  PROVE  x = y
<1>1. \/ IsTor(x) \/ IsInternal(x) \/ IsIpv4(x) \/ IsIpv6(x)
  BY DEF IsIpv6
<1>2. \/ IsTor(y) \/ IsInternal(y) \/ IsIpv4(y) \/ IsIpv6(y)
  BY DEF IsIpv6
<1>3. x = [n \in BytePositions |-> x[n]] /\ y = [n \in BytePositions |-> y[n]]
  BY DEF Bytes16
<1>4. /\ \A n \in BytePositions : n \in 0..5 \/ n - 5 \in 1..10
      /\ \A n \in 0..5 : n = 0 \/ n = 1 \/ n = 2 \/ n = 3 \/ n = 4 \/ n = 5
      /\ \A n \in BytePositions : n + 1 \in 1..16
  BY DEF BytePositions
<1>5. ASSUME [i \in 1..10 |-> x[5 + i]] = [i \in 1..10 |-> y[5 + i]], \A n \in 0..5 : x[n] = y[n]
      PROVE  x = y
  <2>1. \A i \in 1..10 : x[5 + i] = y[5 + i]
    <3> DEFINE u == [i \in 1..10 |-> x[5 + i]]
               v == [i \in 1..10 |-> y[5 + i]]
    <3>1. \A i \in 1..10 : u[i] = x[5 + i] /\ v[i] = y[5 + i]
      OBVIOUS
    <3>2. u = v
      BY <1>5
    <3> HIDE DEF u, v
    <3>3. QED  BY <3>1, <3>2
  <2>2. ASSUME NEW n \in BytePositions  PROVE x[n] = y[n]
    <3>1. CASE n \in 0..5
      BY <1>5, <3>1
    <3>2. CASE n - 5 \in 1..10
      <4>1. 5 + (n - 5) = n
        BY DEF BytePositions
      <4>2. QED  BY <2>1, <3>2, <4>1
    <3>3. QED  BY <1>4, <3>1, <3>2
  <2>3. QED  BY <1>3, <2>2
<1>6. CASE IsTor(x)
  <2>1. IsTor(y)
    BY <1>2, <1>6, TextOf
  <2>2. [i \in 1..10 |-> x[5 + i]] = [i \in 1..10 |-> y[5 + i]]
    BY <1>6, <2>1, TextOf
  <2>3. \A n \in 0..5 : x[n] = y[n]
    BY <1>4, <1>6, <2>1, KindsInBytes
  <2>4. QED  BY <1>5, <2>2, <2>3
<1>7. CASE IsInternal(x)
  <2>1. IsInternal(y)
    BY <1>2, <1>7, TextOf
  <2>2. [i \in 1..10 |-> x[5 + i]] = [i \in 1..10 |-> y[5 + i]]
    BY <1>7, <2>1, TextOf
  <2>3. \A n \in 0..5 : x[n] = y[n]
    BY <1>4, <1>7, <2>1, KindsInBytes
  <2>4. QED  BY <1>5, <2>2, <2>3
<1>8. CASE IsIpv4(x)
  <2>1. IsIpv4(y)
    BY <1>2, <1>8, TextOf
  <2>2. Ipv4At(x, 12) = Ipv4At(y, 12)
    BY <1>8, <2>1, TextOf
  <2>3. SetIpv4(Nil, Ipv4At(x, 12)) = x /\ SetIpv4(Nil, Ipv4At(y, 12)) = y
    BY <1>3, <1>8, <2>1, Ipv4IsItsBytes
  <2>4. QED  BY <2>2, <2>3
<1>9. CASE IsIpv6(x)
  <2>1. IsIpv6(y)
    BY <1>2, <1>9, TextOf
  <2> DEFINE u == [i \in 1..16 |-> x[i - 1]]
             v == [i \in 1..16 |-> y[i - 1]]
  <2>2. u = v
    BY <1>9, <2>1, TextOf
  <2>3. \A n \in BytePositions : n + 1 \in 1..16 /\ n + 1 - 1 = n
    BY DEF BytePositions
  <2>4. \A i \in 1..16 : u[i] = x[i - 1] /\ v[i] = y[i - 1]
    OBVIOUS
  <2> HIDE DEF u, v
  <2>5. ASSUME NEW n \in BytePositions  PROVE x[n] = y[n]
    <3>1. PICK k \in 1..16 : k = n + 1 /\ k - 1 = n
      BY DEF BytePositions
    <3>2. x[k - 1] = y[k - 1]
      BY <2>2, <2>4
    <3>3. QED  BY <3>1, <3>2
  <2>6. QED  BY <1>3, <2>5
<1>10. QED  BY <1>1, <1>6, <1>7, <1>8, <1>9

\* A text that was looked up is of the address it was written for.
LEMMA LookedIsWritten ==
  ASSUME NEW ip, ip = [n \in BytePositions |-> ip[n]], NEW x \in Looked(AddrText(ip))
  PROVE  x = ip /\ ~IsTor(ip) /\ ~IsInternal(ip)
<1>1. ~IsTor(ip) /\ ~IsInternal(ip)
  BY TextOf DEF Looked
<1>2. CASE IsIpv4(ip)
  <2>1. AddrText(ip) = [form |-> "dotted", bytes |-> Ipv4At(ip, 12)]
    BY <1>2, TextOf
  <2>2. x = SetIpv4(Nil, Ipv4At(ip, 12))
    BY <2>1 DEF Looked
  <2>3. QED  BY <1>1, <1>2, <2>2, Ipv4IsItsBytes
<1>3. CASE IsIpv6(ip)
  <2> DEFINE u == [i \in 1..16 |-> ip[i - 1]]
  <2>1. AddrText(ip) = [form |-> "colons", bytes |-> u]
    BY <1>3, TextOf
  <2>2. x = Make(u)
    <3> HIDE DEF u
    <3>1. QED  BY <2>1 DEF Looked
  <2>3. Make(u) = [n \in BytePositions |-> ip[n]]
    <3>1. \A n \in BytePositions : n + 1 \in 1..16 /\ n + 1 - 1 = n
      BY DEF BytePositions
    <3>2. \A i \in 1..16 : u[i] = ip[i - 1]
      OBVIOUS
    <3> HIDE DEF u
    <3>3. ASSUME NEW n \in BytePositions  PROVE u[n + 1] = ip[n]
      <4>1. PICK k \in 1..16 : k = n + 1 /\ k - 1 = n
        BY DEF BytePositions
      <4>2. u[k] = ip[k - 1]
        BY <3>2
      <4>3. QED  BY <4>1, <4>2
    <3>4. QED  BY <3>3 DEF Make
  <2>4. QED  BY <1>1, <2>2, <2>3
<1>4. QED  BY <1>1, <1>2, <1>3 DEF IsIpv6

-----------------------------------------------------------------------------
(* A key that is read back. *)

\* The mask as text: a length whose mask it is where it counts, or its bytes.
LEMMA MaskTextOf ==
  ASSUME NEW s
  PROVE  LET first == FirstPosition(s.ip)
         IN \/ \E n \in 0..128 - 8 * first :
                 /\ MaskText(s) = [form |-> "number", bytes |-> <<n>>]
                 /\ \A p \in first..15 : s.mask[p] = PrefixMask(n + 8 * first)[p]
            \/ first = 12 /\ MaskText(s) = [form |-> "dotted", bytes |-> Ipv4At(s.mask, 12)]
            \/ first = 0 /\ MaskText(s) = [form |-> "colons", bytes |-> [i \in 1..16 |-> s.mask[i - 1]]]
<1> DEFINE first == FirstPosition(s.ip)
           Cidr == {n \in 0..128 - 8 * first :
                      \A p \in first..15 : s.mask[p] = PrefixMask(n + 8 * first)[p]}
           c == CHOOSE n \in Cidr : TRUE
           u == [i \in 1..16 |-> s.mask[i - 1]]
<1>1. first \in {0, 12}
  BY DEF FirstPosition
<1>2. MaskText(s) = CASE Cidr # {} -> [form |-> "number", bytes |-> <<c>>]
                      [] Cidr = {} /\ first = 12 -> [form |-> "dotted", bytes |-> Ipv4At(s.mask, 12)]
                      [] OTHER -> [form |-> "colons", bytes |-> u]
  BY Zenon DEF MaskText
<1>3. Cidr # {} => c \in Cidr
  <2> HIDE DEF Cidr
  <2>1. QED  OBVIOUS
<1>4. CASE Cidr # {}
  <2>1. MaskText(s) = [form |-> "number", bytes |-> <<c>>]
    <3> HIDE DEF Cidr, c, u, first
    <3>1. QED  BY <1>2, <1>4
  <2>2. c \in 0..128 - 8 * first /\ \A p \in first..15 : s.mask[p] = PrefixMask(c + 8 * first)[p]
    <3> HIDE DEF c
    <3>1. QED  BY <1>3, <1>4
  <2> HIDE DEF c
  <2>3. QED  BY <2>1, <2>2
<1>5. CASE Cidr = {}
  <2> HIDE DEF Cidr, c
  <2>1. QED  BY <1>1, <1>2, <1>5
<1>6. QED  BY <1>4, <1>5

\* A valid network is what its key is read as.
LEMMA ReadBack ==
  ASSUME NEW ip \in Bytes16, NEW s \in MadeOf(ip), NEW b \in LookupSubNet(ToText(s)),
         IsIpv4(s.ip) => IsIpv4(ip)
  PROVE  b.ip = s.ip /\ b.mask = s.mask /\ b.valid = TRUE /\ ~IsTor(s.ip) /\ ~IsInternal(s.ip)
<1> DEFINE first == FirstPosition(s.ip)
           text == ToText(s)
<1>1. /\ s.mask \in Masks16 /\ s.ip = Masked(ip, s.mask)
      /\ IsIpv4(ip) => \A n \in 0..11 : s.mask[n] = 255
  BY NetFacts
<1>2. s.ip = [n \in BytePositions |-> s.ip[n]] /\ Masked(s.ip, s.mask) = s.ip
  BY <1>1, MaskedOnce
<1>3. text.address = AddrText(s.ip) /\ text.mask = MaskText(s)
  BY DEF ToText
<1>4. first \in {0, 12} /\ (first = 12 => IsIpv4(s.ip))
  BY DEF FirstPosition
<1>5. \A n \in BytePositions : n \in Int /\ (n < first => s.mask[n] = 255) /\ (~(n < first) => n \in first..15)
  <2>1. \A n \in BytePositions : n \in Int /\ n >= 0 /\ n <= 15 /\ (n < 12 => n \in 0..11)
    BY DEF BytePositions
  <2>2. QED  BY <1>1, <1>4, <2>1
<1>6. s.mask = [n \in BytePositions |-> s.mask[n]]
  BY <1>1 DEF Masks16
<1>7. \A x \in Looked(text.address) : x = s.ip /\ ~IsTor(s.ip) /\ ~IsInternal(s.ip)
  <2> HIDE DEF text
  <2>1. QED  BY <1>2, <1>3, LookedIsWritten
<1>8. \/ \E x \in Looked(text.address) :
           text.mask.form = "number" /\ b = SubNetOfPrefix(x, text.mask.bytes[1])
      \/ \E x \in Looked(text.address), y \in Looked(text.mask) : b = SubNetOfMask(x, y)
  <2> HIDE DEF text
  <2>1. b \in LookupSubNet(text)
    BY DEF text
  <2>2. QED  BY <2>1 DEF LookupSubNet
<1> HIDE DEF text, first
<1>9. CASE \E x \in Looked(text.address) :
             text.mask.form = "number" /\ b = SubNetOfPrefix(x, text.mask.bytes[1])
  <2>1. b = SubNetOfPrefix(s.ip, text.mask.bytes[1]) /\ text.mask.form = "number"
    BY <1>7, <1>9
  <2>2. PICK n \in 0..128 - 8 * first :
          /\ text.mask = [form |-> "number", bytes |-> <<n>>]
          /\ \A p \in first..15 : s.mask[p] = PrefixMask(n + 8 * first)[p]
    BY <1>3, <2>1, MaskTextOf DEF first
  <2> DEFINE k == n + 8 * first
  <2>3. b = SubNetOfPrefix(s.ip, n) /\ InRange(s.ip, n) /\ k \in Int
    BY <1>4, <2>1, <2>2 DEF InRange, first
  <2>4. b = [ip |-> Masked(s.ip, PrefixMask(k)), mask |-> PrefixMask(k), valid |-> TRUE]
    BY <2>3 DEF SubNetOfPrefix, first
  <2>5. \A p \in BytePositions : p < first => k - 8 * p >= 8
    BY <1>4, <1>5, <2>2
  <2> HIDE DEF k
  <2>6. PrefixMask(k) \in Masks16 /\ \A p \in BytePositions : p < first => PrefixMask(k)[p] = 255
    BY <2>3, <2>5, PrefixMaskBytes
  <2>7. \A p \in BytePositions : PrefixMask(k)[p] = s.mask[p]
    BY <1>5, <2>2, <2>6 DEF k
  <2>8. PrefixMask(k) = s.mask
    <3>1. PrefixMask(k) = [p \in BytePositions |-> PrefixMask(k)[p]]
      BY <2>6 DEF Masks16
    <3>2. QED  BY <1>6, <2>7, <3>1
  <2>9. QED  BY <1>2, <1>7, <1>9, <2>4, <2>8
<1>10. CASE \E x \in Looked(text.address), y \in Looked(text.mask) : b = SubNetOfMask(x, y)
  <2>1. PICK y \in Looked(text.mask) : b = SubNetOfMask(s.ip, y)
    BY <1>7, <1>10
  <2>2. ASSUME \A p \in first..15 : y[p] = s.mask[p]
        PROVE  b.ip = s.ip /\ b.mask = s.mask /\ b.valid = TRUE
    <3> DEFINE m == [n \in BytePositions |-> IF n < first THEN 255 ELSE y[n]]
    <3>1. b = [ip |-> Masked(s.ip, m), mask |-> m, valid |-> TRUE]
      BY <2>1 DEF SubNetOfMask, first
    <3>2. \A n \in BytePositions : (IF n < first THEN 255 ELSE y[n]) = s.mask[n]
      BY <1>5, <2>2
    <3>3. m = s.mask
      BY <1>6, <3>2
    <3> HIDE DEF m
    <3>4. QED  BY <1>2, <3>1, <3>3
  <2>3. text.mask.form # "number"
    <3>1. text.mask.form = "number" => Looked(text.mask) = {}
      BY DEF Looked
    <3>2. QED  BY <3>1
  <2>4. CASE first = 12 /\ text.mask = [form |-> "dotted", bytes |-> Ipv4At(s.mask, 12)]
    <3> DEFINE v4 == Ipv4At(s.mask, 12)
    <3>1. Len(v4) = 4 /\ v4[1] = s.mask[12] /\ v4[2] = s.mask[13] /\ v4[3] = s.mask[14] /\ v4[4] = s.mask[15]
      BY DEF Ipv4At
    <3> HIDE DEF v4
    <3>2. y = SetIpv4(Nil, v4)
      BY <2>4 DEF Looked, v4
    <3>3. y[12] = v4[1] /\ y[13] = v4[2] /\ y[14] = v4[3] /\ y[15] = v4[4]
      BY <3>1, <3>2, Ipv4Bytes
    <3>4. \A p \in 12..15 : p = 12 \/ p = 13 \/ p = 14 \/ p = 15
      OBVIOUS
    <3>5. QED  BY <1>7, <1>10, <2>2, <2>4, <3>1, <3>3, <3>4
  <2>5. CASE first = 0 /\ text.mask = [form |-> "colons", bytes |-> [i \in 1..16 |-> s.mask[i - 1]]]
    <3> DEFINE u == [i \in 1..16 |-> s.mask[i - 1]]
    <3>1. y = Make(u)
      <4> HIDE DEF u
      <4>1. text.mask = [form |-> "colons", bytes |-> u]
        BY <2>5 DEF u
      <4>2. QED  BY <4>1 DEF Looked
    <3>2. \A i \in 1..16 : u[i] = s.mask[i - 1]
      OBVIOUS
    <3> HIDE DEF u
    <3>3. ASSUME NEW p \in 0..15  PROVE y[p] = s.mask[p]
      <4>1. PICK k \in 1..16 : k = p + 1 /\ k - 1 = p
        OBVIOUS
      <4>2. y[p] = u[k]
        BY <3>1, <4>1 DEF Make, BytePositions
      <4>3. QED  BY <3>2, <4>1, <4>2
    <3>4. QED  BY <1>7, <1>10, <2>2, <2>5, <3>3
  <2>6. QED
    <3>1. \/ text.mask.form = "number"
          \/ first = 12 /\ text.mask = [form |-> "dotted", bytes |-> Ipv4At(s.mask, 12)]
          \/ first = 0 /\ text.mask = [form |-> "colons", bytes |-> [i \in 1..16 |-> s.mask[i - 1]]]
      BY <1>3, MaskTextOf DEF first
    <3>2. QED  BY <2>3, <2>4, <2>5, <3>1
<1>11. QED  BY <1>8, <1>9, <1>10

-----------------------------------------------------------------------------
(* The inductive invariant. *)

\* What is made and read is of the address that is looked at.
AddressIInv ==
  /\ AddressType
  /\ net = NoNet => key = NoNet /\ back = NoNet
  /\ net # NoNet => net \in MadeOf(addr.ip)
  /\ key # NoNet => key = ToText(net)
  /\ back # NoNet => key # NoNet /\ back \in LookupSubNet(key)

\* So many bytes.
AreBytes(bytes, n) == Len(bytes) = n /\ \A i \in 1..n : bytes[i] \in 0..255

\* Bytes over an IP are an IP.
LEMMA OverwriteBytes ==
  ASSUME NEW ip \in Bytes16, NEW first \in 0..15, NEW n \in Nat, NEW bytes, AreBytes(bytes, n)
  PROVE  Overwrite(ip, first, bytes) \in Bytes16
<1>1. ASSUME NEW p \in BytePositions, p \in first..first + n - 1  PROVE bytes[p - first + 1] \in 0..255
  BY <1>1 DEF BytePositions, AreBytes
<1>2. QED  BY <1>1 DEF Overwrite, Bytes16, AreBytes

\* The setters keep the type of an IP.
LEMMA SettersKeep ==
  /\ Nil \in Bytes16
  /\ \A ip \in Bytes16, v4 \in Ipv4s : SetIpv4(ip, v4) \in Bytes16
  /\ \A ip \in Bytes16, hash \in Hashes : SetInternal(ip, hash) \in Bytes16
<1>1. Nil \in Bytes16
  BY DEF Nil, Bytes16
<1>2. \A ip \in Bytes16 : Overwrite(ip, 0, PchIpv4) \in Bytes16
  <2>1. AreBytes(PchIpv4, 12)
    <3>1. \A i \in 1..12 : \/ i = 1 \/ i = 2 \/ i = 3 \/ i = 4 \/ i = 5 \/ i = 6
                           \/ i = 7 \/ i = 8 \/ i = 9 \/ i = 10 \/ i = 11 \/ i = 12
      OBVIOUS
    <3>2. Len(PchIpv4) = 12
      BY DEF PchIpv4
    <3>3. QED  BY <3>1, <3>2 DEF AreBytes, PchIpv4
  <2>2. 0 \in 0..15 /\ 12 \in Nat
    OBVIOUS
  <2>3. QED  BY <2>1, <2>2, OverwriteBytes
<1>3. \A ip \in Bytes16 : Overwrite(ip, 0, BtcIpPrefix) \in Bytes16
  <2>1. AreBytes(BtcIpPrefix, 6)
    <3>1. \A i \in 1..6 : i = 1 \/ i = 2 \/ i = 3 \/ i = 4 \/ i = 5 \/ i = 6
      OBVIOUS
    <3>2. QED  BY <3>1 DEF AreBytes, BtcIpPrefix
  <2>2. 0 \in 0..15 /\ 6 \in Nat
    OBVIOUS
  <2>3. QED  BY <2>1, <2>2, OverwriteBytes
<1>4. ASSUME NEW ip \in Bytes16, NEW v4 \in Ipv4s  PROVE SetIpv4(ip, v4) \in Bytes16
  <2>1. AreBytes(v4, 4)
    <3>1. v4 \in [1..4 -> 0..255]
      BY AddressAssumption
    <3>2. Len(v4) = 4
      BY <3>1
    <3>3. QED  BY <3>1, <3>2 DEF AreBytes
  <2>2. 12 \in 0..15 /\ 4 \in Nat
    OBVIOUS
  <2>3. \A x \in Bytes16 : Overwrite(x, 12, v4) \in Bytes16
    BY <2>1, <2>2, OverwriteBytes
  <2>4. QED  BY <1>2, <2>3 DEF SetIpv4
<1>5. ASSUME NEW ip \in Bytes16, NEW hash \in Hashes  PROVE SetInternal(ip, hash) \in Bytes16
  <2> DEFINE h == SubSeq(hash, 1, 10)
  <2>1. AreBytes(h, 10)
    <3>1. hash \in [1..32 -> 0..255]
      BY AddressAssumption
    <3>2. \A i \in 1..10 : i \in 1..32 /\ hash[i] \in 0..255
      BY <3>1
    <3>3. Len(h) = 10 /\ \A i \in 1..10 : h[i] = hash[i]
      <4>1. \A i \in 1..10 : hash[i] \in 0..255
        BY <3>2
      <4>2. 1 \in Int /\ 10 \in Int
        OBVIOUS
      <4>3. /\ Len(h) = IF 1 <= 10 THEN 10 - 1 + 1 ELSE 0
            /\ \A i \in 1..10 - 1 + 1 : h[i] = hash[1 + i - 1]
        BY <4>1, <4>2, SubSeqProperties
      <4> HIDE DEF h
      <4>4. QED  BY <4>3
    <3> HIDE DEF h
    <3>4. QED  BY <3>2, <3>3 DEF AreBytes
  <2> HIDE DEF h
  <2>2. 6 \in 0..15 /\ 10 \in Nat
    OBVIOUS
  <2>3. \A x \in Bytes16 : Overwrite(x, 6, h) \in Bytes16
    BY <2>1, <2>2, OverwriteBytes
  <2>4. QED  BY <1>3, <2>3 DEF SetInternal, h
<1>6. QED  BY <1>1, <1>4, <1>5

\* The empty address keeps it.
LEMMA AddressInitIInv == AddressInit => AddressIInv
<1>1. SUFFICES ASSUME AddressInit  PROVE AddressIInv
  OBVIOUS
<1>2. addr = [ip |-> Nil, port |-> 0, scope |-> 0] /\ net = NoNet /\ key = NoNet /\ back = NoNet
  BY <1>1 DEF AddressInit, NewAddr
<1>3. AddressType
  BY <1>2, SettersKeep DEF AddressType
<1>4. QED  BY <1>2, <1>3 DEF AddressIInv

\* So does every setter, socket, network, key and key that is read.
LEMMA AddressNextIInv == AddressIInv /\ [AddressNext]_addressState => AddressIInv'
<1> SUFFICES ASSUME AddressIInv, [AddressNext]_addressState  PROVE AddressIInv'
  OBVIOUS
<1>1. /\ addr = [ip |-> addr.ip, port |-> addr.port, scope |-> addr.scope]
      /\ addr.ip \in Bytes16 /\ addr.port \in Ports \cup {0} /\ addr.scope \in Scopes \cup {0}
  BY DEF AddressIInv, AddressType
<1>2. /\ net = NoNet => key = NoNet /\ back = NoNet
      /\ net # NoNet => net \in MadeOf(addr.ip)
      /\ key # NoNet => key = ToText(net)
      /\ back # NoNet => key # NoNet /\ back \in LookupSubNet(key)
      /\ AddressType
  BY DEF AddressIInv
<1> DEFINE Addrs == [ip : Bytes16, port : Ports \cup {0}, scope : Scopes \cup {0}]
<1>3. ASSUME NEW a \in Addrs, Assign(a)  PROVE AddressIInv'
  <2>1. addr' = a /\ net' = NoNet /\ key' = NoNet /\ back' = NoNet
    BY <1>2, <1>3 DEF Assign
  <2>2. QED  BY <2>1 DEF AddressIInv, AddressType
<1>4. CASE SetterCalled
  <2>1. ASSUME NEW ip \in Bytes16, Assign([addr EXCEPT !.ip = ip])  PROVE AddressIInv'
    <3>1. [addr EXCEPT !.ip = ip] \in Addrs
      BY <1>1
    <3>2. QED  BY <1>3, <2>1, <3>1
  <2>2. ASSUME NEW v4 \in Ipv4s, Assign([addr EXCEPT !.ip = SetIpv4(@, v4)])  PROVE AddressIInv'
    <3>1. SetIpv4(addr.ip, v4) \in Bytes16
      BY <1>1, SettersKeep
    <3>2. QED  BY <2>1, <2>2, <3>1
  <2>3. ASSUME NEW ip \in Ips, Assign([addr EXCEPT !.ip = ip])  PROVE AddressIInv'
    <3>1. ip \in Bytes16
      BY AddressAssumption DEF Bytes16, BytePositions
    <3>2. QED  BY <2>1, <2>3, <3>1
  <2>4. ASSUME NEW hash \in Hashes, Assign([addr EXCEPT !.ip = SetInternal(@, hash)])
        PROVE  AddressIInv'
    <3>1. SetInternal(addr.ip, hash) \in Bytes16
      BY <1>1, SettersKeep
    <3>2. QED  BY <2>1, <2>4, <3>1
  <2>5. ASSUME NEW p \in Ports, Assign([addr EXCEPT !.port = p])  PROVE AddressIInv'
    <3>1. [addr EXCEPT !.port = p] \in Addrs
      BY <1>1
    <3>2. QED  BY <1>3, <2>5, <3>1
  <2>6. ASSUME NEW s \in Scopes, Assign([addr EXCEPT !.scope = s])  PROVE AddressIInv'
    <3>1. [addr EXCEPT !.scope = s] \in Addrs
      BY <1>1
    <3>2. QED  BY <1>3, <2>6, <3>1
  <2>7. CASE Assign([addr EXCEPT !.ip = Nil, !.port = 0])
    <3>1. [addr EXCEPT !.ip = Nil, !.port = 0] \in Addrs
      BY <1>1, SettersKeep
    <3>2. QED  BY <1>3, <2>7, <3>1
  <2>8. QED  BY <1>4, <2>2, <2>3, <2>4, <2>5, <2>6, <2>7 DEF SetterCalled
<1>5. CASE ThroughSocket
  <2> DEFINE b == FromSockAddr(ToSockAddr(addr))
  <2>1. b \in Addrs
    BY <1>2, <1>5, ThroughSockets DEF ThroughSocket, AddressType
  <2>2. Assign(b)
    BY <1>5 DEF ThroughSocket
  <2> HIDE DEF b, Addrs
  <2>3. QED  BY <1>3, <2>1, <2>2
<1>6. CASE MakeSubNet
  <2>1. PICK s \in MadeOf(addr.ip) : MakeNet(s)
    BY <1>6 DEF MakeSubNet, MadeOf
  <2>2. net' = s /\ addr' = addr /\ key' = NoNet /\ back' = NoNet
    BY <1>2, <2>1 DEF MakeNet
  <2>3. (net \in MadeOf(addr.ip))'
    BY <2>2 DEF MadeOf
  <2>4. AddressType'
    BY <1>2, <2>2 DEF AddressType
  <2>5. QED  BY <2>2, <2>3, <2>4 DEF AddressIInv
<1>7. CASE WriteKey
  <2>1. /\ net # NoNet /\ net' = net /\ addr' = addr /\ back' = back /\ back = NoNet
        /\ key' = ToText(net)
    BY <1>2, <1>7 DEF WriteKey
  <2>2. (key = ToText(net))'
    BY <2>1
  <2>3. AddressType' /\ (net \in MadeOf(addr.ip))'
    BY <1>2, <2>1 DEF AddressType
  <2>4. QED  BY <2>1, <2>2, <2>3 DEF AddressIInv
<1>8. CASE ReadKey
  <2>1. /\ key # NoNet /\ back = NoNet /\ back' \in LookupSubNet(key)
        /\ key' = key /\ net' = net /\ addr' = addr
    BY <1>8 DEF ReadKey
  <2>2. (back \in LookupSubNet(key))' /\ (key = ToText(net))'
    BY <1>2, <2>1
  <2>3. AddressType' /\ net # NoNet /\ (net \in MadeOf(addr.ip))'
    BY <1>2, <2>1 DEF AddressType
  <2>4. QED  BY <2>1, <2>2, <2>3 DEF AddressIInv
<1>9. CASE AnotherAddress
  <2>1. addr' = addr /\ net' = NoNet /\ key' = NoNet /\ back' = NoNet
    BY <1>9 DEF AnotherAddress
  <2>2. AddressType'
    BY <1>2, <2>1 DEF AddressType
  <2>3. QED  BY <2>1, <2>2 DEF AddressIInv
<1>10. CASE UNCHANGED addressState
  <2>1. addr' = addr /\ net' = net /\ key' = key /\ back' = back
    BY <1>10 DEF addressState
  <2>2. AddressType' /\ (net # NoNet => net \in MadeOf(addr.ip))'
    BY <1>2, <2>1 DEF AddressType
  <2>3. (key # NoNet => key = ToText(net))' /\ (back # NoNet => key # NoNet /\ back \in LookupSubNet(key))'
    BY <1>2, <2>1
  <2>4. QED  BY <1>2, <2>1, <2>2, <2>3 DEF AddressIInv
<1>11. QED  BY <1>4, <1>5, <1>6, <1>7, <1>8, <1>9, <1>10 DEF AddressNext

\* All that probes is an IP.
LEMMA ProbesAreIps == Probes \subseteq Bytes16
<1>1. Ips \subseteq Bytes16
  BY AddressAssumption DEF Bytes16, BytePositions
<1>2. \A v4 \in Ipv4s : SetIpv4(Nil, v4) \in Bytes16
  BY SettersKeep
<1>3. QED  BY <1>1, <1>2 DEF Probes

\* Keys name networks.
LEMMA KeysFollow == AddressIInv => BanKeyNamesNetwork
<1> SUFFICES ASSUME AddressIInv, key # NoNet  PROVE
      /\ net = SubNetOf(addr.ip) =>
           \A other \in Probes : (ToText(SubNetOf(other)) = key) = (other = addr.ip)
      /\ net.valid /\ IsValidIp(Masked(addr.ip, net.mask)) => Match(net, Masked(addr.ip, net.mask))
      /\ back # NoNet /\ net.valid /\ (IsIpv4(net.ip) => IsIpv4(addr.ip)) =>
           \A other \in Probes : Match(back, other) = Match(net, other)
      /\ IsTor(net.ip) \/ IsInternal(net.ip) => back = NoNet
  BY Zenon DEF BanKeyNamesNetwork
<1>1. /\ addr.ip \in Bytes16 /\ net \in MadeOf(addr.ip) /\ key = ToText(net)
      /\ back # NoNet => back \in LookupSubNet(ToText(net))
  BY DEF AddressIInv, AddressType
<1>2. /\ net.mask \in Masks16 /\ net.ip = Masked(addr.ip, net.mask)
      /\ Masked(net.ip, net.mask) = net.ip
  BY <1>1, NetFacts, MaskedOnce
<1>3. ASSUME net = SubNetOf(addr.ip), NEW other \in Probes
      PROVE  (ToText(SubNetOf(other)) = key) = (other = addr.ip)
  <2>1. other \in Bytes16
    BY ProbesAreIps
  <2>2. \A x : ToText(SubNetOf(x)).address = AddrText(x)
    BY DEF ToText, SubNetOf
  <2>3. ToText(SubNetOf(other)) = key => AddrText(other) = AddrText(addr.ip)
    BY <1>1, <1>3, <2>2
  <2>4. ToText(SubNetOf(other)) = key => other = addr.ip
    BY <1>1, <2>1, <2>3, TextNamesAddress
  <2>5. other = addr.ip => ToText(SubNetOf(other)) = key
    BY <1>1, <1>3
  <2>6. QED  BY <2>4, <2>5
<1>4. ASSUME net.valid, IsValidIp(Masked(addr.ip, net.mask))
      PROVE  Match(net, Masked(addr.ip, net.mask))
  BY <1>2, <1>4 DEF Match
<1>5. ASSUME back # NoNet, net.valid, IsIpv4(net.ip) => IsIpv4(addr.ip), NEW other \in Probes
      PROVE  Match(back, other) = Match(net, other)
  <2>1. back.ip = net.ip /\ back.mask = net.mask /\ back.valid = TRUE
    BY <1>1, <1>5, ReadBack
  <2>2. Match(back, other) <=> Match(net, other)
    BY <1>5, <2>1 DEF Match
  <2>3. QED  BY <2>2 DEF Match
<1>6. ASSUME back # NoNet  PROVE ~IsTor(net.ip) /\ ~IsInternal(net.ip)
  <2>1. net.ip = [n \in BytePositions |-> net.ip[n]]
    BY <1>1, <1>2, MaskedOnce
  <2> DEFINE text == ToText(net)
  <2>2. back \in LookupSubNet(text) /\ text.address = AddrText(net.ip)
    <3>1. text.address = AddrText(net.ip)
      BY DEF ToText
    <3>2. QED  BY <1>1, <1>6, <3>1
  <2> HIDE DEF text
  <2>3. PICK x \in Looked(text.address) : TRUE
    BY <2>2 DEF LookupSubNet
  <2>4. x \in Looked(AddrText(net.ip))
    BY <2>2
  <2>5. QED  BY <2>1, <2>4, LookedIsWritten
<1>7. QED  BY <1>3, <1>4, <1>5, <1>6

\* What is said of addresses and of keys follows.
LEMMA AddressIInvSafe == AddressIInv => AddressSafe
<1> SUFFICES ASSUME AddressIInv  PROVE AddressSafe
  OBVIOUS
<1>1. addr.ip \in Bytes16 /\ AddressType
  BY DEF AddressIInv, AddressType
<1>2. TravelsAsIpv4(addr.ip)
  BY <1>1, TravelsInGroup
<1>3. GroupsAreNetworks(addr.ip)
  BY <1>1, GroupsFollow, ProbesAreIps
<1>4. ReachabilityRanks(addr.ip)
  BY RanksFollow
<1>5. SocketKeepsAddress
  BY <1>1, SocketsFollow
<1>6. BanKeyNamesNetwork
  BY KeysFollow
<1>7. QED  BY <1>2, <1>3, <1>4, <1>5, <1>6 DEF AddressSafe

\* NetAddr, SubNet (network_address.cpp): whatever calls came before, an address is of the group
\* of the IPv4 address that travels in it, native addresses are of one group exactly if a network
\* of the length of that group matches both, reachability ranks as the enumeration says, a
\* socket gives back what it was given, and the key of a ban names its network.
THEOREM AddressIsSafe == AddressSpec => []AddressSafe
<1>1. AddressInit => AddressIInv
  BY AddressInitIInv
<1>2. AddressIInv /\ [AddressNext]_addressState => AddressIInv'
  BY AddressNextIInv
<1>3. AddressIInv => AddressSafe
  BY AddressIInvSafe
<1>4. QED  BY <1>1, <1>2, <1>3, PTL DEF AddressSpec

-----------------------------------------------------------------------------
(***************************************************************************)
(* Encodings.  First, what two recursions of one equation have in common.  *)
(***************************************************************************)

\* Along s, m goes down to Stop; what f and g are is decided alike by what they are below.
Descends(D, m, Stop, s) ==
  m \in [D -> Nat] /\ \A b \in D : b \in Stop \/ (s[b] \in D /\ m[s[b]] < m[b])
DecidedAlike(D, Stop, s, f, g) ==
  \A b \in D : (b \in Stop \/ g[s[b]] = f[s[b]]) => g[b] = f[b]

\* Then they are the same.
LEMMA SameDown ==
  ASSUME NEW D, NEW m, NEW Stop, NEW s, Descends(D, m, Stop, s),
         NEW f, NEW g, DecidedAlike(D, Stop, s, f, g)
  PROVE  \A b \in D : g[b] = f[b]
<1> USE DEF Descends, DecidedAlike
<1> DEFINE T == {j \in Nat : \A b \in D : m[b] < j => g[b] = f[b]}
<1>1. 0 \in T
  OBVIOUS
<1>2. ASSUME NEW j \in T  PROVE j + 1 \in T
  <2>1. ASSUME NEW b \in D, m[b] < j + 1  PROVE g[b] = f[b]
    <3>1. CASE b \in Stop
      BY <3>1
    <3>2. CASE b \notin Stop
      <4>1. s[b] \in D /\ m[s[b]] < j
        BY <2>1, <3>2
      <4>2. g[s[b]] = f[s[b]]
        BY <4>1
      <4>3. QED  BY <4>2
    <3>3. QED  BY <3>1, <3>2
  <2>2. QED  BY <2>1
<1>3. T = Nat
  <2>1. T \subseteq Nat
    OBVIOUS
  <2> HIDE DEF T
  <2>2. QED  BY <1>1, <1>2, <2>1, NatSetInduction
<1>4. ASSUME NEW b \in D  PROVE g[b] = f[b]
  <2>1. m[b] + 1 \in Nat /\ m[b] < m[b] + 1
    OBVIOUS
  <2>2. m[b] + 1 \in T
    <3> HIDE DEF T
    <3>1. QED  BY <1>3, <2>1
  <2>3. QED  BY <2>1, <2>2
<1>5. QED  BY <1>4

-----------------------------------------------------------------------------
(* Quotients, remainders and powers. *)

\* A quotient and a remainder are those of one division.
LEMMA Division ==
  ASSUME NEW d \in Nat \ {0}
  PROVE  /\ \A a \in Int : a \div d \in Int /\ a % d \in 0..d - 1 /\ a = (d * (a \div d)) + (a % d)
         /\ \A a \in Nat : a \div d \in Nat
         /\ \A q \in Int, r \in 0..d - 1 : ((d * q) + r) \div d = q /\ ((d * q) + r) % d = r
<1>1. \A a \in Int : a \div d \in Int /\ a % d \in 0..d - 1 /\ a = (d * (a \div d)) + (a % d)
  OBVIOUS
<1>2. \A a \in Nat : a \div d \in Nat
  OBVIOUS
<1>3. ASSUME NEW q \in Int, NEW p \in Int, NEW r \in 0..d - 1, NEW s \in 0..d - 1,
             (d * q) + r = (d * p) + s
      PROVE  q = p
  <2>1. q < p => (d * q) + d <= d * p
    OBVIOUS
  <2>2. p < q => (d * p) + d <= d * q
    OBVIOUS
  <2>3. QED  BY <1>3, <2>1, <2>2
<1>4. ASSUME NEW q \in Int, NEW r \in 0..d - 1
      PROVE  ((d * q) + r) \div d = q /\ ((d * q) + r) % d = r
  <2> DEFINE a == (d * q) + r
  <2>1. a \in Int
    OBVIOUS
  <2>2. a \div d \in Int /\ a % d \in 0..d - 1 /\ a = (d * (a \div d)) + (a % d)
    BY <1>1, <2>1
  <2>3. a \div d = q
    BY <1>3, <2>2
  <2>4. QED  BY <2>2, <2>3
<1>5. QED  BY <1>1, <1>2, <1>4

\* The radix is even and at least 4; its half is the sign bit.
LEMMA RadixFacts == Radix \in Nat /\ Radix >= 4 /\ SignBit \in Nat /\ SignBit >= 2 /\ Radix = 2 * SignBit
  BY EncodingsAssumption DEF SignBit

\* Powers obey their equation.
LEMMA PowerEquation ==
  /\ Power \in [Nat -> Nat \ {0}] /\ Power[0] = 1
  /\ \A k \in Nat : Power[k + 1] = Radix * Power[k]
<1> DEFINE m == [k \in Nat |-> k]
           Stop == {0}
           s == [k \in Nat |-> k - 1]
           r == [k \in Nat |-> 1]
           R == Nat \ {0}
           h == [q \in Nat \X R |-> Radix * q[2]]
           F(g) == [k \in Nat |-> IF k = 0 THEN 1 ELSE Radix * g[k - 1]]
<1>1. \A b \in Nat : b \in Stop \/ (s[b] \in Nat /\ m[s[b]] < m[b])
  OBVIOUS
<1>2. m \in [Nat -> Nat] /\ r \in [Nat -> R] /\ h \in [Nat \X R -> R]
  <2>1. \A x \in R : Radix * x \in R
    BY RadixFacts
  <2>2. QED  BY <2>1
<1>3. GoesDown(Nat, m, Stop, s, R, r, h)
  <2> HIDE DEF m, Stop, s, R, r, h
  <2>1. QED  BY <1>1, <1>2 DEF GoesDown
<1>4. PICK f \in [Nat -> R] : \A k \in Nat : f[k] = IF k \in Stop THEN r[k] ELSE h[<<k, f[s[k]]>>]
  <2> HIDE DEF m, Stop, s, R, r, h
  <2>1. QED  BY <1>3, Recursion
<1>5. ASSUME NEW k \in Nat  PROVE f[k] = IF k = 0 THEN 1 ELSE Radix * f[k - 1]
  <2>1. CASE k = 0
    BY <1>4, <2>1
  <2>2. CASE k # 0
    <3>1. k - 1 \in Nat /\ s[k] = k - 1 /\ k \notin Stop
      BY <2>2
    <3>2. f[k - 1] \in R
      BY <3>1
    <3>3. h[<<k, f[k - 1]>>] = Radix * f[k - 1]
      BY <3>2
    <3> HIDE DEF Stop, s, h, r, R
    <3>4. QED  BY <1>4, <2>2, <3>1, <3>3
  <2>3. QED  BY <2>1, <2>2
<1>6. f = F(f)
  <2> HIDE DEF R
  <2>1. QED  BY <1>5
<1>7. Power = F(Power)
  <2>1. \E g : g = F(g)
    BY <1>6
  <2>2. QED  BY <2>1, Zenon DEF Power
<1>8. \A k \in Nat : Power[k] = IF k = 0 THEN 1 ELSE Radix * Power[k - 1]
  <2> DEFINE P == Power
  <2> HIDE DEF P
  <2>1. P = F(P)
    BY <1>7 DEF P
  <2>2. QED  BY <2>1 DEF P
<1>9. \A k \in Nat : Power[k] = f[k]
  <2>1. DecidedAlike(Nat, Stop, s, f, Power)
    BY <1>5, <1>8 DEF DecidedAlike
  <2>2. Descends(Nat, m, Stop, s)
    BY <1>1, <1>2 DEF Descends
  <2> HIDE DEF m, Stop, s
  <2>3. QED  BY <2>1, <2>2, SameDown
<1>10. Power = [k \in Nat |-> Power[k]]
  <2> DEFINE P == Power
  <2> HIDE DEF P
  <2>1. P = F(P)
    BY <1>7 DEF P
  <2>2. QED  BY <2>1 DEF P
<1>11. Power \in [Nat -> R]
  <2> HIDE DEF R
  <2>1. QED  BY <1>9, <1>10
<1>12. \A k \in Nat : k + 1 \in Nat /\ k + 1 # 0 /\ k + 1 - 1 = k
  OBVIOUS
<1>13. QED  BY <1>8, <1>11, <1>12

\* They grow, and multiply.
LEMMA PowersGrow ==
  /\ \A i \in Nat, j \in Nat : i <= j => Power[i] <= Power[j]
  /\ \A i \in Nat, j \in Nat : Power[i + j] = Power[i] * Power[j]
  /\ \A i \in Nat, j \in Nat : i < j => Radix * Power[i] <= Power[j]
<1>1. \A k \in Nat : Power[k] \in Nat \ {0} /\ Power[k + 1] = Radix * Power[k]
  BY PowerEquation
<1> DEFINE T == {j \in Nat : \A i \in Nat : Power[i] <= Power[i + j]
                               /\ Power[i + j] = Power[i] * Power[j]}
<1>2. 0 \in T
  BY <1>1, PowerEquation
<1>3. ASSUME NEW j \in T  PROVE j + 1 \in T
  <2>1. ASSUME NEW i \in Nat
        PROVE  Power[i] <= Power[i + (j + 1)] /\ Power[i + (j + 1)] = Power[i] * Power[j + 1]
    <3>1. i + (j + 1) = (i + j) + 1 /\ i + j \in Nat
      OBVIOUS
    <3>2. Power[i + (j + 1)] = Radix * Power[i + j]
      BY <1>1, <3>1
    <3> DEFINE a == Power[i]
               b == Power[j]
               c == Power[i + j]
    <3>3. a \in Nat /\ b \in Nat /\ c \in Nat /\ a <= c /\ c = a * b
      BY <1>1
    <3> HIDE DEF a, b, c
    <3>4. Radix * c = a * (Radix * b) /\ a <= Radix * c
      <4>1. Radix \in Nat /\ Radix >= 1
        BY RadixFacts
      <4>2. c <= Radix * c
        BY <3>3, <4>1
      <4>3. Radix * (a * b) = a * (Radix * b)
        BY <3>3, <4>1
      <4>4. Radix * c \in Nat
        BY <3>3, <4>1
      <4>5. QED  BY <3>3, <4>2, <4>3, <4>4
    <3>5. Power[j + 1] = Radix * b
      BY <1>1 DEF b
    <3>6. QED  BY <3>2, <3>4, <3>5 DEF a, c
  <2>2. QED  BY <2>1
<1>4. T = Nat
  <2>1. T \subseteq Nat
    OBVIOUS
  <2> HIDE DEF T
  <2>2. QED  BY <1>2, <1>3, <2>1, NatSetInduction
<1>5. \A i \in Nat, j \in Nat : Power[i] <= Power[i + j] /\ Power[i + j] = Power[i] * Power[j]
  <2>1. \A j \in Nat : j \in T
    <3> HIDE DEF T
    <3>1. QED  BY <1>4
  <2>2. QED  BY <2>1
<1>6. ASSUME NEW i \in Nat, NEW j \in Nat, i <= j  PROVE Power[i] <= Power[j]
  <2>1. j - i \in Nat /\ i + (j - i) = j
    BY <1>6
  <2>2. Power[i] <= Power[i + (j - i)]
    BY <1>5, <2>1
  <2>3. QED  BY <2>1, <2>2
<1>7. ASSUME NEW i \in Nat, NEW j \in Nat, i < j  PROVE Radix * Power[i] <= Power[j]
  <2>1. Power[i + 1] <= Power[j]
    BY <1>6, <1>7
  <2>2. QED  BY <1>1, <2>1
<1>8. QED  BY <1>5, <1>6, <1>7

-----------------------------------------------------------------------------
(* The size of a number and its digits. *)

\* A number is its lowest digit and the others.
LEMMA ByRadix ==
  \A n \in Nat : n \div Radix \in Nat /\ n % Radix \in 0..Radix - 1
                 /\ n = (Radix * (n \div Radix)) + (n % Radix)
<1> DEFINE d == Radix
<1>1. d \in Nat \ {0}
  BY RadixFacts
<1> HIDE DEF d
<1>2. \A n \in Nat : n \div d \in Nat /\ n % d \in 0..d - 1 /\ n = (d * (n \div d)) + (n % d)
  BY <1>1
<1>3. QED  BY <1>2 DEF d

\* The size obeys its equation.
LEMMA SizeEquation ==
  /\ LogicalSize \in [Nat -> Nat]
  /\ \A n \in Nat : LogicalSize[n] = IF n = 0 THEN 0 ELSE 1 + LogicalSize[n \div Radix]
<1> DEFINE m == [n \in Nat |-> n]
           Stop == {0}
           s == [n \in Nat |-> n \div Radix]
           r == [n \in Nat |-> 0]
           h == [q \in Nat \X Nat |-> 1 + q[2]]
           F(g) == [n \in Nat |-> IF n = 0 THEN 0 ELSE 1 + g[n \div Radix]]
<1>0. \A n \in Nat : n \div Radix \in Nat /\ (n # 0 => n \div Radix < n)
  <2>1. ASSUME NEW n \in Nat  PROVE n \div Radix \in Nat /\ (n # 0 => n \div Radix < n)
    <3> DEFINE q == n \div Radix
               x == n % Radix
    <3>1. q \in Nat /\ x \in Nat /\ n = (Radix * q) + x
      BY ByRadix
    <3> HIDE DEF q, x
    <3>2. q = 0 \/ q < Radix * q
      BY <3>1, RadixFacts
    <3>3. Radix * q \in Nat
      BY <3>1, RadixFacts
    <3>4. q \in Nat /\ (n # 0 => q < n)
      BY <3>1, <3>2, <3>3
    <3>5. QED  BY <3>4 DEF q
  <2>2. QED  BY <2>1
<1>1. \A b \in Nat : b \in Stop \/ (s[b] \in Nat /\ m[s[b]] < m[b])
  BY <1>0
<1>2. m \in [Nat -> Nat] /\ r \in [Nat -> Nat] /\ h \in [Nat \X Nat -> Nat]
  OBVIOUS
<1>3. GoesDown(Nat, m, Stop, s, Nat, r, h)
  <2> HIDE DEF m, Stop, s, r, h
  <2>1. QED  BY <1>1, <1>2 DEF GoesDown
<1>4. PICK f \in [Nat -> Nat] : \A k \in Nat : f[k] = IF k \in Stop THEN r[k] ELSE h[<<k, f[s[k]]>>]
  <2> HIDE DEF m, Stop, s, r, h
  <2>1. QED  BY <1>3, Recursion
<1>5. ASSUME NEW n \in Nat  PROVE f[n] = IF n = 0 THEN 0 ELSE 1 + f[n \div Radix]
  <2>1. CASE n = 0
    BY <1>4, <2>1
  <2>2. CASE n # 0
    <3>1. n \div Radix \in Nat /\ s[n] = n \div Radix /\ n \notin Stop
      BY <1>0, <2>2
    <3>2. f[n \div Radix] \in Nat
      BY <3>1
    <3>3. h[<<n, f[n \div Radix]>>] = 1 + f[n \div Radix]
      BY <3>2
    <3> HIDE DEF Stop, s, h, r
    <3>4. QED  BY <1>4, <2>2, <3>1, <3>3
  <2>3. QED  BY <2>1, <2>2
<1>6. f = F(f)
  BY <1>5
<1>7. LogicalSize = F(LogicalSize)
  <2>1. \E g : g = F(g)
    BY <1>6
  <2>2. QED  BY <2>1, Zenon DEF LogicalSize
<1> DEFINE L == LogicalSize
<1> HIDE DEF L
<1>8. L = [n \in Nat |-> L[n]] /\ \A n \in Nat : L[n] = IF n = 0 THEN 0 ELSE 1 + L[n \div Radix]
  <2>1. L = F(L)
    BY <1>7 DEF L
  <2>2. QED  BY <2>1
<1>9. \A n \in Nat : L[n] = f[n]
  <2>1. DecidedAlike(Nat, Stop, s, f, L)
    BY <1>5, <1>8 DEF DecidedAlike
  <2>2. Descends(Nat, m, Stop, s)
    BY <1>1, <1>2 DEF Descends
  <2> HIDE DEF m, Stop, s
  <2>3. QED  BY <2>1, <2>2, SameDown
<1>10. L \in [Nat -> Nat]
  BY <1>8, <1>9
<1>11. QED  BY <1>8, <1>10 DEF L

\* A number is between the powers of its size.
LEMMA SizeBounds ==
  \A n \in Nat :
    /\ LogicalSize[n] \in Nat /\ n < Power[LogicalSize[n]]
    /\ n = 0 <=> LogicalSize[n] = 0
    /\ n # 0 => LogicalSize[n] - 1 \in Nat /\ Power[LogicalSize[n] - 1] <= n
<1> DEFINE Bounded(n) == /\ n < Power[LogicalSize[n]]
                         /\ n = 0 <=> LogicalSize[n] = 0
                         /\ n # 0 => Power[LogicalSize[n] - 1] <= n
           T == {j \in Nat : \A n \in Nat : n < j => Bounded(n)}
<1>1. 0 \in T
  OBVIOUS
<1>2. ASSUME NEW j \in T  PROVE j + 1 \in T
  <2>1. ASSUME NEW n \in Nat, n < j + 1  PROVE Bounded(n)
    <3>1. CASE n = 0
      BY <3>1, SizeEquation, PowerEquation
    <3>2. CASE n # 0
      <4> DEFINE q == n \div Radix
                 x == n % Radix
                 l == LogicalSize[q]
      <4>1. q \in Nat /\ x \in 0..Radix - 1 /\ n = (Radix * q) + x
        BY ByRadix
      <4>2. l \in Nat /\ LogicalSize[n] = 1 + l
        BY <3>2, <4>1, SizeEquation
      <4> HIDE DEF q, x
      <4>3. q < j /\ Radix * q \in Nat
        <5>1. q = 0 \/ q < Radix * q
          BY <4>1, RadixFacts
        <5>2. Radix * q \in Nat
          BY <4>1, RadixFacts
        <5>3. q < n
          BY <3>2, <4>1, <5>1, <5>2
        <5>4. QED  BY <2>1, <4>1, <5>2, <5>3
      <4>4. Bounded(q)
        BY <4>1, <4>3
      <4> DEFINE p == Power[l]
      <4>5. p \in Nat /\ Power[l + 1] = Radix * p
        BY <4>2, PowerEquation
      <4>6. q + 1 <= p
        BY <4>1, <4>4, <4>5
      <4>7. Radix * (q + 1) <= Radix * p
        <5> HIDE DEF p, l
        <5>1. QED  BY <4>1, <4>5, <4>6, RadixFacts
      <4>8. Radix * (q + 1) = (Radix * q) + Radix
        BY <4>1, RadixFacts
      <4>9. n < Power[l + 1]
        <5> HIDE DEF p, l
        <5>1. Radix * p \in Nat
          BY <4>5, RadixFacts
        <5>2. QED  BY <4>1, <4>3, <4>5, <4>7, <4>8, <5>1, RadixFacts
      <4>10. Power[l] <= n
        <5>1. CASE q = 0
          <6>1. l = 0
            BY <5>1, SizeEquation
          <6>2. QED  BY <3>2, <6>1, PowerEquation
        <5>2. CASE q # 0
          <6>1. l - 1 \in Nat /\ Power[l - 1] <= q
            BY <4>1, <4>2, <4>4, <5>2
          <6>2. Power[l] = Radix * Power[l - 1] /\ Power[l - 1] \in Nat
            <7>1. l - 1 + 1 = l
              BY <4>2
            <7>2. QED  BY <6>1, <7>1, PowerEquation
          <6> DEFINE t == Power[l - 1]
          <6>3. Radix * t <= Radix * q
            <7>1. t \in Nat /\ t <= q
              BY <6>1, <6>2
            <7> HIDE DEF t
            <7>2. QED  BY <4>1, <7>1, RadixFacts
          <6>4. Radix * t \in Nat
            BY <6>2, RadixFacts
          <6>5. Power[l] = Radix * t
            BY <6>2
          <6> HIDE DEF t
          <6>6. QED  BY <4>1, <4>3, <6>3, <6>4, <6>5
        <5>3. QED  BY <5>1, <5>2
      <4>11. LogicalSize[n] = l + 1 /\ l + 1 # 0 /\ LogicalSize[n] - 1 = l
        BY <4>2
      <4>12. QED  BY <3>2, <4>9, <4>10, <4>11
    <3>3. QED  BY <3>1, <3>2
  <2>2. QED  BY <2>1
<1>3. T = Nat
  <2>1. T \subseteq Nat
    OBVIOUS
  <2> HIDE DEF T
  <2>2. QED  BY <1>1, <1>2, <2>1, NatSetInduction
<1>4. ASSUME NEW n \in Nat  PROVE Bounded(n)
  <2>1. n + 1 \in Nat /\ n < n + 1
    OBVIOUS
  <2>2. n + 1 \in T
    <3> HIDE DEF T
    <3>1. QED  BY <1>3, <2>1
  <2>3. QED  BY <2>1, <2>2
<1>5. \A n \in Nat : LogicalSize[n] \in Nat
  BY SizeEquation
<1>6. QED  BY <1>4, <1>5

\* Only its size does that, and no power above a number is below its size.
LEMMA SizeIsThat ==
  ASSUME NEW n \in Nat, NEW j \in Nat
  PROVE  /\ n < Power[j] => LogicalSize[n] <= j
         /\ n < Power[j] /\ (j # 0 => Power[j - 1] <= n) => LogicalSize[n] = j
<1> DEFINE l == LogicalSize[n]
<1>1. l \in Nat /\ n < Power[l] /\ (n # 0 => l - 1 \in Nat /\ Power[l - 1] <= n) /\ (n = 0 <=> l = 0)
  BY SizeBounds
<1> HIDE DEF l
<1>2. \A k \in Nat : Power[k] \in Nat
  BY PowerEquation
<1>3. ASSUME n < Power[j]  PROVE l <= j
  <2>1. SUFFICES ASSUME ~(l <= j)  PROVE FALSE
    OBVIOUS
  <2>2. j <= l - 1 /\ l - 1 \in Nat /\ n # 0
    BY <1>1, <2>1
  <2>3. Power[j] <= Power[l - 1]
    BY <2>2, PowersGrow
  <2>4. QED  BY <1>1, <1>2, <1>3, <2>2, <2>3
<1>4. ASSUME n < Power[j], j # 0 => Power[j - 1] <= n  PROVE l = j
  <2>1. SUFFICES ASSUME l < j  PROVE FALSE
    BY <1>1, <1>3, <1>4
  <2>2. l <= j - 1 /\ j - 1 \in Nat /\ j # 0
    BY <1>1, <2>1
  <2>3. Power[l] <= Power[j - 1]
    BY <1>1, <2>2, PowersGrow
  <2>4. QED  BY <1>1, <1>2, <1>4, <2>2, <2>3
<1>5. QED  BY <1>3, <1>4 DEF l

-----------------------------------------------------------------------------
(* The number that bytes make. *)

\* No bytes are zero, one more byte counts by the power of its place.
LEMMA NumberSteps ==
  /\ Number(<<>>) = 0
  /\ \A b \in Seq(Nat), x \in Nat : Number(b) \in Nat /\ Number(Append(b, x)) = Number(b) + (Power[Len(b)] * x)
<1> DEFINE F(b, g) == [k \in 0..Len(b) |-> IF k = 0 THEN 0 ELSE g[k - 1] + Power[k - 1] * b[k]]
           Lows(b) == CHOOSE g : g = F(b, g)
<1>1. ASSUME NEW b \in Seq(Nat)
      PROVE  /\ Lows(b)[0] = 0
             /\ \A k \in 1..Len(b) : Lows(b)[k] = Lows(b)[k - 1] + Power[k - 1] * b[k]
             /\ \A k \in 0..Len(b) : Lows(b)[k] \in Nat
  <2> DEFINE D == 0..Len(b)
             m == [k \in D |-> k]
             Stop == {0}
             s == [k \in D |-> k - 1]
             r == [k \in D |-> 0]
             c == [k \in D |-> IF k = 0 THEN 0 ELSE Power[k - 1] * b[k]]
             h == [q \in D \X Nat |-> q[2] + c[q[1]]]
  <2>1. \A k \in D : k \in Stop \/ (s[k] \in D /\ m[s[k]] < m[k])
    OBVIOUS
  <2>2. c \in [D -> Nat]
    <3> DEFINE e(k) == Power[k - 1] * b[k]
    <3>1. ASSUME NEW k \in D, k # 0  PROVE e(k) \in Nat
      <4>1. k - 1 \in Nat /\ k \in 1..Len(b)
        BY <3>1
      <4>2. b[k] \in Nat
        BY <4>1
      <4>3. Power[k - 1] \in Nat
        BY <4>1, PowerEquation
      <4>4. QED  BY <4>2, <4>3
    <3>2. c = [k \in D |-> IF k = 0 THEN 0 ELSE e(k)]
      OBVIOUS
    <3> HIDE DEF e, D, c
    <3>3. QED  BY <3>1, <3>2
  <2>3. m \in [D -> Nat] /\ r \in [D -> Nat] /\ h \in [D \X Nat -> Nat]
    <3>1. m \in [D -> Nat] /\ r \in [D -> Nat]
      OBVIOUS
    <3> HIDE DEF D, c
    <3>2. h \in [D \X Nat -> Nat]
      BY <2>2
    <3>3. QED  BY <3>1, <3>2
  <2>4. GoesDown(D, m, Stop, s, Nat, r, h)
    <3> HIDE DEF D, m, Stop, s, r, h
    <3>1. QED  BY <2>1, <2>3 DEF GoesDown
  <2>5. PICK f \in [D -> Nat] : \A k \in D : f[k] = IF k \in Stop THEN r[k] ELSE h[<<k, f[s[k]]>>]
    <3> HIDE DEF D, m, Stop, s, r, h
    <3>1. QED  BY <2>4, Recursion
  <2>6. ASSUME NEW k \in D  PROVE f[k] = IF k = 0 THEN 0 ELSE f[k - 1] + Power[k - 1] * b[k]
    <3>1. CASE k = 0
      BY <2>5, <3>1
    <3>2. CASE k # 0
      <4>1. k - 1 \in D /\ s[k] = k - 1 /\ k \notin Stop
        BY <3>2
      <4>2. f[k - 1] \in Nat /\ c[k] = Power[k - 1] * b[k]
        BY <3>2, <4>1
      <4> HIDE DEF D, c
      <4>3. h[<<k, f[k - 1]>>] = f[k - 1] + c[k]
        BY <4>2
      <4> HIDE DEF Stop, s, r, h
      <4>4. QED  BY <2>5, <3>2, <4>1, <4>2, <4>3
    <3>3. QED  BY <3>1, <3>2
  <2>7. f = F(b, f)
    <3>1. f = [k \in D |-> IF k = 0 THEN 0 ELSE f[k - 1] + Power[k - 1] * b[k]]
      <4> HIDE DEF D
      <4>1. QED  BY <2>6
    <3>2. QED  BY <3>1
  <2> DEFINE L == Lows(b)
  <2>8. L = F(b, L)
    <3>1. \E g : g = F(b, g)
      BY <2>7
    <3> HIDE DEF F
    <3>2. QED  BY <3>1, Zenon
  <2> HIDE DEF L
  <2>9. \A k \in D : L[k] = IF k = 0 THEN 0 ELSE L[k - 1] + Power[k - 1] * b[k]
    BY <2>8
  <2>10. \A k \in D : L[k] = f[k]
    <3>1. DecidedAlike(D, Stop, s, f, L)
      BY <2>6, <2>9 DEF DecidedAlike
    <3>2. Descends(D, m, Stop, s)
      BY <2>1, <2>3 DEF Descends
    <3> HIDE DEF D, m, Stop, s
    <3>3. QED  BY <3>1, <3>2, SameDown
  <2>11. Len(b) \in Nat
    OBVIOUS
  <2>12. L[0] = 0 /\ \A k \in 1..Len(b) : L[k] = L[k - 1] + Power[k - 1] * b[k]
    BY <2>9, <2>11
  <2>13. \A k \in 0..Len(b) : L[k] \in Nat
    BY <2>10
  <2>14. QED  BY <2>12, <2>13 DEF L
<1>2. \A b : Number(b) = Lows(b)[Len(b)]
  BY Zenon DEF Number
<1> HIDE DEF Lows
<1>3. \A b \in Seq(Nat) : Number(b) \in Nat
  BY <1>1, <1>2
<1>4. Number(<<>>) = 0
  <2>1. <<>> \in Seq(Nat) /\ Len(<<>>) = 0
    OBVIOUS
  <2>2. Lows(<<>>)[0] = 0
    BY <1>1, <2>1
  <2>3. QED  BY <1>2, <2>1, <2>2
<1>5. ASSUME NEW b \in Seq(Nat), NEW x \in Nat
      PROVE  Number(Append(b, x)) = Number(b) + (Power[Len(b)] * x)
  <2> DEFINE a == Append(b, x)
             n == Len(b)
  <2>1. a \in Seq(Nat) /\ n \in Nat /\ Len(a) = n + 1 /\ a[n + 1] = x /\ \A k \in 1..n : a[k] = b[k]
    OBVIOUS
  <2> DEFINE f == Lows(a)
             g == Lows(b)
             T == {k \in Nat : k <= n => f[k] = g[k]}
  <2>2. /\ f[0] = 0 /\ g[0] = 0
        /\ \A k \in 1..n + 1 : f[k] = f[k - 1] + Power[k - 1] * a[k]
        /\ \A k \in 1..n : g[k] = g[k - 1] + Power[k - 1] * b[k]
    BY <1>1, <2>1
  <2> HIDE DEF a, f, g, n
  <2>3. 0 \in T
    BY <2>2
  <2>4. ASSUME NEW k \in T  PROVE k + 1 \in T
    <3>1. SUFFICES ASSUME k + 1 <= n  PROVE f[k + 1] = g[k + 1]
      OBVIOUS
    <3>2. k + 1 \in 1..n /\ k + 1 \in 1..n + 1 /\ k + 1 - 1 = k /\ f[k] = g[k]
      BY <2>1, <3>1
    <3>3. f[k + 1] = f[k] + Power[k] * a[k + 1] /\ g[k + 1] = g[k] + Power[k] * b[k + 1]
      BY <2>2, <3>2
    <3>4. QED  BY <2>1, <3>2, <3>3
  <2>5. T = Nat
    <3>1. T \subseteq Nat
      OBVIOUS
    <3> HIDE DEF T
    <3>2. QED  BY <2>3, <2>4, <3>1, NatSetInduction
  <2>6. f[n] = g[n]
    BY <2>1, <2>5
  <2>7. f[n + 1] = f[n] + Power[n] * x
    <3>1. n + 1 \in 1..n + 1 /\ n + 1 - 1 = n
      BY <2>1
    <3>2. QED  BY <2>1, <2>2, <3>1
  <2>8. Number(b) = g[n] /\ Number(a) = f[n + 1]
    BY <1>2, <2>1 DEF f, g, n
  <2>9. QED  BY <2>6, <2>7, <2>8 DEF a, n
<1>6. QED  BY <1>3, <1>4, <1>5

\* The digits of a number, so many as are taken, make what remains of it.
LEMMA DigitsFacts ==
  ASSUME NEW n \in Nat, NEW k \in Nat
  PROVE  /\ Digits(n, k) \in Seq(0..Radix - 1) /\ Digits(n, k) \in Seq(Nat) /\ Len(Digits(n, k)) = k
         /\ \A i \in 1..k : Digits(n, k)[i] = (n \div Power[i - 1]) % Radix
         /\ Number(Digits(n, k)) = n % Power[k]
         /\ n < Power[k] => Number(Digits(n, k)) = n
<1>1. \A i \in Nat : Power[i] \in Nat \ {0} /\ Power[i + 1] = Radix * Power[i]
  BY PowerEquation
<1>2. \A i \in Nat : n \div Power[i] \in Nat /\ n % Power[i] \in 0..Power[i] - 1
                     /\ n = (Power[i] * (n \div Power[i])) + (n % Power[i])
  <2>1. ASSUME NEW p \in Nat \ {0}  PROVE n \div p \in Nat /\ n % p \in 0..p - 1 /\ n = (p * (n \div p)) + (n % p)
    OBVIOUS
  <2>2. QED  BY <1>1, <2>1
<1>3. \A i \in Nat : (n \div Power[i]) % Radix \in 0..Radix - 1
  BY <1>2, ByRadix
<1>4. ASSUME NEW j \in Nat
      PROVE  /\ Digits(n, j) \in Seq(0..Radix - 1) /\ Digits(n, j) \in Seq(Nat) /\ Len(Digits(n, j)) = j
             /\ \A i \in 1..j : Digits(n, j)[i] = (n \div Power[i - 1]) % Radix
  <2> DEFINE x(i) == (n \div Power[i - 1]) % Radix
  <2>1. \A i \in 1..j : x(i) \in 0..Radix - 1
    <3>1. \A i \in 1..j : i - 1 \in Nat
      OBVIOUS
    <3>2. QED  BY <1>3, <3>1
  <2>2. Digits(n, j) = [i \in 1..j |-> x(i)]
    BY DEF Digits
  <2> HIDE DEF x
  <2>3. Digits(n, j) \in Seq(0..Radix - 1) /\ Len(Digits(n, j)) = j /\ \A i \in 1..j : Digits(n, j)[i] = x(i)
    BY <2>1, <2>2
  <2>4. Digits(n, j) \in Seq(Nat)
    <3>1. \A i \in 1..j : x(i) \in Nat
      BY <2>1
    <3>2. QED  BY <2>2, <3>1
  <2>5. QED  BY <2>3, <2>4 DEF x
<1> DEFINE T == {j \in Nat : Number(Digits(n, j)) = n % Power[j]}
<1>5. 0 \in T
  <2>1. Digits(n, 0) = <<>>
    BY DEF Digits
  <2>2. n % Power[0] = 0
    BY PowerEquation
  <2>3. QED  BY <2>1, <2>2, NumberSteps
<1>6. ASSUME NEW j \in T  PROVE j + 1 \in T
  <2> DEFINE p == Power[j]
             q == n \div p
             d == q % Radix
             e == q \div Radix
             y == n % p
  <2>1. Digits(n, j + 1) = Append(Digits(n, j), d)
    <3>1. /\ Digits(n, j + 1) \in Seq(0..Radix - 1) /\ Len(Digits(n, j + 1)) = j + 1
          /\ \A i \in 1..j + 1 : Digits(n, j + 1)[i] = (n \div Power[i - 1]) % Radix
      BY <1>4
    <3>2. /\ Digits(n, j) \in Seq(0..Radix - 1) /\ Len(Digits(n, j)) = j
          /\ \A i \in 1..j : Digits(n, j)[i] = (n \div Power[i - 1]) % Radix
      BY <1>4
    <3>3. d \in 0..Radix - 1 /\ j + 1 - 1 = j
      BY <1>3
    <3>4. Digits(n, j + 1)[j + 1] = d
      BY <3>1, <3>3
    <3> HIDE DEF d
    <3> DEFINE u == Digits(n, j + 1)
               v == Digits(n, j)
    <3>5. \A i \in 1..j : u[i] = v[i]
      BY <3>1, <3>2
    <3>6. u \in Seq(0..Radix - 1) /\ v \in Seq(0..Radix - 1) /\ Len(u) = j + 1 /\ Len(v) = j /\ u[j + 1] = d
      BY <3>1, <3>2, <3>4
    <3> HIDE DEF u, v
    <3>7. u = Append(v, d)
      BY <3>3, <3>5, <3>6
    <3>8. QED  BY <3>7 DEF u, v
  <2>2. Digits(n, j) \in Seq(Nat) /\ Len(Digits(n, j)) = j /\ d \in Nat
    <3>1. Digits(n, j) \in Seq(Nat) /\ Len(Digits(n, j)) = j /\ d \in 0..Radix - 1
      BY <1>3, <1>4
    <3>2. QED  BY <3>1
  <2>3. Number(Digits(n, j + 1)) = y + (p * d)
    BY <2>1, <2>2, NumberSteps
  <2>4. /\ p \in Nat \ {0} /\ q \in Nat /\ y \in 0..p - 1 /\ n = (p * q) + y
        /\ d \in 0..Radix - 1 /\ e \in Nat /\ q = (Radix * e) + d /\ Power[j + 1] = Radix * p
    BY <1>1, <1>2, ByRadix
  <2> DEFINE P == Radix * p
             z == (p * d) + y
  <2> HIDE DEF p, q, d, e, y
  <2>5. P \in Nat \ {0} /\ z \in 0..P - 1 /\ n = (P * e) + z
    <3>1. Radix \in Nat /\ Radix >= 4
      BY RadixFacts
    <3>2. p * d <= p * (Radix - 1) /\ p * (Radix - 1) = P - p
      BY <2>4, <3>1
    <3>3. p * d \in Nat /\ P \in Nat \ {0}
      BY <2>4, <3>1
    <3> DEFINE pd == p * d
    <3>4. pd \in Nat /\ pd <= P - p
      BY <3>2, <3>3
    <3>5. z = pd + y
      OBVIOUS
    <3>6. p * q = (P * e) + pd
      BY <2>4, <3>1
    <3>7. P * e \in Nat
      BY <2>4, <3>3
    <3> DEFINE Pe == P * e
    <3>8. n = (Pe + pd) + y /\ Pe \in Nat
      BY <2>4, <3>6, <3>7
    <3> HIDE DEF pd, P, z, Pe
    <3>9. z \in 0..P - 1 /\ n = Pe + z
      BY <2>4, <3>3, <3>4, <3>5, <3>8
    <3>10. QED  BY <3>3, <3>9 DEF Pe
  <2> HIDE DEF P, z
  <2>6. n % P = z
    <3>1. \A a \in Int, b \in 0..P - 1 : ((P * a) + b) % P = b
      BY <2>5, Division
    <3>2. e \in Int /\ z \in 0..P - 1
      BY <2>4, <2>5
    <3>3. ((P * e) + z) % P = z
      BY <3>1, <3>2
    <3>4. QED  BY <2>5, <3>3
  <2>7. y + (p * d) = z
    <3>1. p * d \in Nat /\ y \in Nat
      BY <2>4
    <3>2. QED  BY <3>1 DEF z
  <2>8. QED  BY <2>3, <2>4, <2>6, <2>7 DEF P
<1>7. T = Nat
  <2>1. T \subseteq Nat
    OBVIOUS
  <2> HIDE DEF T
  <2>2. QED  BY <1>5, <1>6, <2>1, NatSetInduction
<1>8. Number(Digits(n, k)) = n % Power[k]
  BY <1>7
<1>9. ASSUME n < Power[k]  PROVE n % Power[k] = n
  <2> DEFINE p == Power[k]
  <2>1. p \in Nat \ {0} /\ n < p
    BY <1>1, <1>9
  <2> HIDE DEF p
  <2>2. n = (p * 0) + n /\ n \in 0..p - 1
    BY <2>1
  <2>3. n % p = n
    BY <2>1, <2>2
  <2>4. QED  BY <2>3 DEF p
<1>10. QED  BY <1>4, <1>8, <1>9

\* Of a number n from 1 on: the highest digit is what remains above all others.
LEMMA HighestDigit ==
  ASSUME NEW n \in Nat \ {0}
  PROVE  LET l == LogicalSize[n]
             b == Digits(n, l)
         IN /\ l \in Nat \ {0} /\ b \in Seq(0..Radix - 1) /\ b \in Seq(Nat) /\ Len(b) = l /\ Number(b) = n
            /\ Last(b) = b[l] /\ b[l] \in 1..Radix - 1
            /\ b[l] >= SignBit <=> n >= SignBit * Power[l - 1]
<1> DEFINE l == LogicalSize[n]
           b == Digits(n, l)
           p == Power[l - 1]
           q == n \div p
           y == n % p
<1>1. l \in Nat \ {0} /\ l - 1 \in Nat /\ n < Power[l] /\ p <= n
  BY SizeBounds
<1>2. /\ b \in Seq(0..Radix - 1) /\ b \in Seq(Nat) /\ Len(b) = l /\ Number(b) = n
      /\ \A i \in 1..l : b[i] = (n \div Power[i - 1]) % Radix
  BY <1>1, DigitsFacts
<1>3. b[l] = q % Radix
  BY <1>1, <1>2
<1>4. p \in Nat \ {0} /\ Power[l] = Radix * p
  <2>1. l - 1 + 1 = l
    BY <1>1
  <2>2. QED  BY <1>1, <2>1, PowerEquation
<1>5. q \in Nat /\ y \in 0..p - 1 /\ n = (p * q) + y
  <2> HIDE DEF p
  <2>1. QED  BY <1>4
<1> HIDE DEF l, p, q, y
<1>6. q \in 1..Radix - 1
  <2>1. q # 0
    BY <1>1, <1>4, <1>5
  <2>2. ASSUME q >= Radix  PROVE FALSE
    <3>1. p * Radix <= p * q /\ p * q \in Nat /\ p * Radix = Radix * p
      BY <1>4, <1>5, <2>2, RadixFacts
    <3> DEFINE pq == p * q
    <3>2. pq \in Nat /\ Power[l] <= pq /\ n = pq + y
      BY <1>4, <1>5, <3>1
    <3> HIDE DEF pq
    <3>3. Power[l] \in Nat
      BY <1>1, PowerEquation
    <3>4. QED  BY <1>1, <1>5, <3>2, <3>3
  <2>3. QED  BY <1>5, <2>1, <2>2, RadixFacts
<1>7. q % Radix = q
  <2>1. q = (Radix * 0) + q /\ q \in 0..Radix - 1 /\ Radix \in Nat \ {0}
    BY <1>6, RadixFacts
  <2>2. QED  BY <1>6, RadixFacts
<1>8. q >= SignBit <=> n >= SignBit * p
  <2>1. p * q \in Nat /\ SignBit * p \in Nat /\ SignBit \in Nat
    BY <1>4, <1>5, RadixFacts
  <2>2. ASSUME q >= SignBit  PROVE SignBit * p <= p * q
    BY <1>4, <1>5, <2>2, RadixFacts
  <2>3. ASSUME q < SignBit  PROVE (p * q) + p <= SignBit * p
    <3>1. p * (q + 1) <= p * SignBit
      BY <1>4, <1>5, <2>3, RadixFacts
    <3>2. p * (q + 1) = (p * q) + p /\ p * SignBit = SignBit * p
      BY <1>4, <1>5, RadixFacts
    <3>3. QED  BY <3>1, <3>2
  <2> DEFINE pq == p * q
             sp == SignBit * p
  <2>4. pq \in Nat /\ sp \in Nat /\ (q >= SignBit => sp <= pq) /\ (q < SignBit => pq + p <= sp) /\ n = pq + y
    BY <1>5, <2>1, <2>2, <2>3
  <2> HIDE DEF pq, sp
  <2>5. q >= SignBit <=> n >= sp
    BY <1>4, <1>5, <2>1, <2>4
  <2>6. QED  BY <2>5 DEF sp
<1>9. Last(b) = b[l]
  BY <1>2 DEF Last
<1> HIDE DEF b
<1>10. QED
  <2>1. /\ l \in Nat \ {0} /\ b \in Seq(0..Radix - 1) /\ b \in Seq(Nat) /\ Len(b) = l /\ Number(b) = n
        /\ Last(b) = b[l] /\ b[l] \in 1..Radix - 1
        /\ b[l] >= SignBit <=> n >= SignBit * p
    BY <1>1, <1>2, <1>3, <1>6, <1>7, <1>8, <1>9
  <2>2. QED  BY <2>1 DEF l, b, p

\* BytesEncoding (script.h): bytes, and not many.
LEMMA EncodedBytes ==
  ASSUME NEW n \in Nat
  PROVE  /\ BytesEncoding(n) \in Seq(0..Radix - 1)
         /\ Len(BytesEncoding(n)) <= LogicalSize[n] + 1
<1>1. CASE n = 0
  <2>1. BytesEncoding(n) = Digits(0, LogicalSize[0])
    BY <1>1 DEF BytesEncoding
  <2>2. LogicalSize[0] = 0
    BY SizeEquation
  <2>3. Digits(0, 0) \in Seq(0..Radix - 1) /\ Len(Digits(0, 0)) = 0
    BY DigitsFacts
  <2>4. QED  BY <1>1, <2>1, <2>2, <2>3
<1>2. CASE n # 0
  <2> DEFINE b == Digits(n, LogicalSize[n])
             l == LogicalSize[n]
  <2>1. l \in Nat /\ b \in Seq(0..Radix - 1) /\ Len(b) = l
    BY <1>2, HighestDigit
  <2>2. BytesEncoding(n) = b \/ BytesEncoding(n) = Append(b, 0)
    BY DEF BytesEncoding
  <2> HIDE DEF b, l
  <2>3. 0 \in 0..Radix - 1
    BY RadixFacts
  <2>4. Append(b, 0) \in Seq(0..Radix - 1) /\ Len(Append(b, 0)) = l + 1
    BY <2>1, <2>3
  <2> DEFINE c == Append(b, 0)
  <2> HIDE DEF c
  <2>5. BytesEncoding(n) \in Seq(0..Radix - 1) /\ Len(BytesEncoding(n)) <= l + 1
    <3>1. l <= l + 1
      BY <2>1
    <3>2. BytesEncoding(n) = c => Len(BytesEncoding(n)) = l + 1
      BY <2>4 DEF c
    <3>3. BytesEncoding(n) = b \/ BytesEncoding(n) = c
      BY <2>2 DEF c
    <3>4. c \in Seq(0..Radix - 1)
      BY <2>4 DEF c
    <3>5. l + 1 <= l + 1
      BY <2>1
    <3>6. CASE BytesEncoding(n) = b
      BY <2>1, <3>1, <3>6
    <3>7. CASE BytesEncoding(n) = c
      BY <3>2, <3>4, <3>5, <3>7
    <3>8. QED  BY <3>3, <3>6, <3>7
  <2>6. QED  BY <2>5 DEF l
<1>3. QED  BY <1>1, <1>2

\* ScriptInt (script.h): a number of no more bytes than an int is accepted and read as
\* itself: the byte added above a sign bit is what makes it so.
LEMMA NumberReadsBack ==
  ASSUME NEW n \in 1..IntMax
  PROVE  LET b == BytesEncoding(n)
         IN ~Refused(b, TRUE) /\ ScriptInt(b) = n /\ IntValue(ScriptInt(b)) = n
<1> DEFINE l == LogicalSize[n]
           d == Digits(n, l)
           b == BytesEncoding(n)
           p == Power[IntBytes - 1]
<1>1. IntBytes \in Nat \ {0} /\ IntBytes - 1 \in Nat /\ IntBytes - 1 + 1 = IntBytes
  BY EncodingsAssumption
<1>2. p \in Nat \ {0} /\ Power[IntBytes] = Radix * p
  BY <1>1, PowerEquation
<1>3. IntMax = (SignBit * p) - 1 /\ IntMax < Power[IntBytes] /\ n \in Nat \ {0} /\ SignBit * p \in Nat
  <2> HIDE DEF p
  <2>1. SignBit * p \in Nat /\ Radix * p = 2 * (SignBit * p)
    BY <1>2, RadixFacts
  <2> DEFINE sp == SignBit * p
  <2> HIDE DEF sp
  <2>2. sp \in Nat /\ Power[IntBytes] = 2 * sp
    BY <1>2, <2>1 DEF sp
  <2>3. (2 * sp) \div 2 = sp
    BY <2>2
  <2>4. IntMax = sp - 1
    BY <2>2, <2>3 DEF IntMax
  <2>5. QED  BY <2>2, <2>4 DEF sp
<1>4. /\ l \in Nat \ {0} /\ d \in Seq(0..Radix - 1) /\ d \in Seq(Nat) /\ Len(d) = l /\ Number(d) = n
      /\ Last(d) = d[l] /\ d[l] \in 1..Radix - 1
      /\ d[l] >= SignBit <=> n >= SignBit * Power[l - 1]
  BY <1>3, HighestDigit
<1>5. l <= IntBytes
  <2>1. n < Power[IntBytes]
    <3>1. Power[IntBytes] \in Nat
      BY <1>1, PowerEquation
    <3>2. QED  BY <1>3, <3>1
  <2>2. QED  BY <1>1, <1>3, <2>1, SizeIsThat
<1>6. ASSUME d[l] >= SignBit  PROVE l + 1 <= IntBytes
  <2>1. SUFFICES ASSUME l = IntBytes  PROVE FALSE
    BY <1>1, <1>4, <1>5
  <2>2. n >= SignBit * p
    BY <1>4, <1>6, <2>1
  <2> HIDE DEF p
  <2>3. QED  BY <1>3, <2>2
<1>7. b = IF d[l] >= SignBit THEN Append(d, 0) ELSE d
  <2>1. n > 0
    BY <1>3
  <2>2. QED  BY <1>4, <2>1 DEF BytesEncoding
<1> HIDE DEF d, l, b, p
<1>8. /\ b \in Seq(Nat) /\ b # <<>> /\ Len(b) <= IntBytes /\ Number(b) = n
      /\ Last(b) < SignBit /\ Last(b) \in Nat
      /\ ~NonMinimal(b)
  <2>1. CASE d[l] >= SignBit
    <3>1. b = Append(d, 0)
      BY <1>7, <2>1
    <3>2. b \in Seq(Nat) /\ Len(b) = l + 1 /\ b[l + 1] = 0 /\ b[l] = d[l]
      BY <1>4, <3>1
    <3>3. Last(b) = 0
      BY <3>2 DEF Last
    <3>4. Number(b) = n
      <4>1. Number(b) = Number(d) + (Power[l] * 0)
        BY <1>4, <3>1, NumberSteps
      <4>2. Power[l] * 0 = 0
        BY <1>4, PowerEquation
      <4>3. QED  BY <1>3, <1>4, <4>1, <4>2
    <3>5. ~NonMinimal(b)
      <4>1. Len(b) >= 2 /\ b[Len(b) - 1] >= SignBit
        BY <1>4, <2>1, <3>2
      <4>2. QED  BY <1>4, <3>2, <4>1, RadixFacts DEF NonMinimal
    <3>6. QED  BY <1>4, <1>6, <2>1, <3>2, <3>3, <3>4, <3>5, RadixFacts
  <2>2. CASE ~(d[l] >= SignBit)
    <3>1. b = d /\ Last(b) = d[l] /\ d[l] \in 1..SignBit - 1
      BY <1>4, <1>7, <2>2, RadixFacts
    <3>2. d[l] % SignBit # 0
      <4>1. \A x \in 1..SignBit - 1 : x % SignBit = x
        BY RadixFacts
      <4>2. QED  BY <3>1, <4>1
    <3>3. ~NonMinimal(b)
      BY <3>1, <3>2 DEF NonMinimal
    <3>4. QED  BY <1>4, <1>5, <3>1, <3>3, RadixFacts
  <2>3. QED  BY <2>1, <2>2
<1>9. ~Refused(b, TRUE)
  BY <1>1, <1>8 DEF Refused
<1>10. ScriptInt(b) = n
  <2>1. ~(Last(b) >= SignBit) /\ n - 0 = n
    BY <1>3, <1>8, RadixFacts
  <2>2. QED  BY <1>8, <2>1 DEF ScriptInt
<1>11. IntValue(n) = n
  <2>1. n \in Int /\ IntMax \in Int /\ ~(n > IntMax) /\ ~(n < - IntMax - 1)
    <3> DEFINE sp == SignBit * p
    <3>1. sp \in Nat /\ IntMax = sp - 1
      BY <1>3
    <3> HIDE DEF sp
    <3>2. QED  BY <3>1
  <2>2. QED  BY <2>1 DEF IntValue
<1>12. QED  BY <1>9, <1>10, <1>11 DEF b

\* ScriptInt of any bytes it takes is the number they mean, but for what the sign bit of the
\* last of four does.
LEMMA BytesMean ==
  ASSUME NEW b \in Seq(0..Radix - 1), ~Refused(b, FALSE)
  PROVE  ScriptInt(b) = Meant(b) + (IF Len(b) = IntBytes /\ Last(b) >= SignBit THEN Power[IntBytes] ELSE 0)
<1> DEFINE v == Number(b)
           P == Power[IntBytes]
           t == SignBit * Power[Len(b) - 1]
           S == b # <<>> /\ Last(b) >= SignBit
<1>1. v \in Nat
  <2>1. Len(b) \in Nat /\ \A i \in 1..Len(b) : b[i] \in Nat
    BY RadixFacts
  <2>2. b = [i \in 1..Len(b) |-> b[i]]
    OBVIOUS
  <2>3. b \in Seq(Nat)
    BY <2>1, <2>2
  <2>4. QED  BY <2>3, NumberSteps
<1>2. P \in Nat /\ IntBytes # 0
  BY PowerEquation, EncodingsAssumption
<1>3. b # <<>> => t \in Nat
  <2>1. ASSUME b # <<>>  PROVE t \in Nat
    <3>1. Len(b) - 1 \in Nat
      BY <2>1
    <3>2. Power[Len(b) - 1] \in Nat
      BY <3>1, PowerEquation
    <3>3. QED  BY <3>2, RadixFacts
  <2>2. QED  BY <2>1
<1>4. /\ ScriptInt(b) = IF S THEN - ((v - (IF S /\ Len(b) = IntBytes THEN P ELSE 0)) - t)
                        ELSE v - (IF S /\ Len(b) = IntBytes THEN P ELSE 0)
      /\ Meant(b) = IF S THEN - (v - t) ELSE v
  BY Zenon DEF ScriptInt, Meant
<1>5. b = <<>> => Len(b) # IntBytes
  BY <1>2
<1> DEFINE wide == Len(b) = IntBytes
           sign == Last(b) >= SignBit
           empty == b = <<>>
<1>6. /\ ScriptInt(b) = IF S THEN - ((v - (IF S /\ wide THEN P ELSE 0)) - t) ELSE v - (IF S /\ wide THEN P ELSE 0)
      /\ Meant(b) = IF S THEN - (v - t) ELSE v
      /\ (S <=> ~empty /\ sign) /\ (empty => ~wide) /\ (~empty => t \in Nat)
  BY <1>3, <1>4, <1>5
<1> HIDE DEF v, P, t, S, wide, sign, empty
<1>7. ScriptInt(b) = Meant(b) + (IF wide /\ sign THEN P ELSE 0)
  <2>1. CASE S
    <3>1. ~empty /\ sign /\ t \in Nat
      BY <1>6, <2>1
    <3>2. CASE wide
      <4>1. ScriptInt(b) = - ((v - P) - t) /\ Meant(b) = - (v - t)
        BY <1>6, <2>1, <3>2
      <4>2. ScriptInt(b) = Meant(b) + P
        BY <1>1, <1>2, <3>1, <4>1
      <4>3. QED  BY <3>1, <3>2, <4>2
    <3>3. CASE ~wide
      <4>1. ScriptInt(b) = - ((v - 0) - t) /\ Meant(b) = - (v - t)
        BY <1>6, <2>1, <3>3
      <4>2. ScriptInt(b) = Meant(b) + 0
        BY <1>1, <3>1, <4>1
      <4>3. QED  BY <3>3, <4>2
    <3>4. QED  BY <3>2, <3>3
  <2>2. CASE ~S
    <3>1. ScriptInt(b) = v - 0 /\ Meant(b) = v /\ ~(wide /\ sign)
      BY <1>6, <2>2
    <3>2. ScriptInt(b) = Meant(b) + 0
      BY <1>1, <3>1
    <3>3. QED  BY <3>1, <3>2
  <2>3. QED  BY <2>1, <2>2
<1>8. QED  BY <1>7 DEF wide, sign, P

-----------------------------------------------------------------------------
(* Scripts. *)

Byte == 0..Radix - 1

\* What was pushed, as bytes.
Chunk(item) ==
  IF item.op = 0 \/ item.op > PushData4 THEN <<item.op>> ELSE SizeBytes(Len(item.data)) \o item.data

PushedItems == [op : Byte, data : Seq(Byte), n : Int]

\* An opcode without data, or data and the opcode that says its size.
ItemSound(item) ==
  /\ item \in PushedItems
  /\ item.op = 0 \/ item.op > PushData4 => item.data = <<>>
  /\ item.op # 0 /\ item.op <= PushData4 =>
       Len(item.data) \in 1..Power[4] - 1 /\ item.op = SizeBytes(Len(item.data))[1]
  /\ item.n \in 1..IntMax => item.data = BytesEncoding(item.n)

\* Where the items end in what was written.
EndsAt(ends) ==
  /\ ends \in [0..Len(pushed) -> Nat] /\ ends[0] = 0
  /\ \A i \in 1..Len(pushed) : ends[i] = ends[i - 1] + Len(Chunk(pushed[i]))

\* The script is that, or the beginning of it.
WrittenIn(ends) ==
  /\ Len(script) <= ends[Len(pushed)]
  /\ walk.at = "writing" => Len(script) = ends[Len(pushed)] /\ walk.popped = <<>>
  /\ \A i \in 1..Len(pushed) : \A j \in 1..Len(Chunk(pushed[i])) :
       ends[i - 1] + j <= Len(script) => script[ends[i - 1] + j] = Chunk(pushed[i])[j]

\* As long as the reader is in step it is at the end of what it has read, which is what was
\* pushed first.
ReadIn(ends) ==
  /\ walk.pc <= Len(script)
  /\ \A i \in 1..Len(walk.popped) :
       InStep(i - 1) => i <= Len(pushed) /\ walk.popped[i] = AsRead(pushed[i])
  /\ InStep(Len(walk.popped)) =>
       /\ Len(walk.popped) <= Len(pushed) /\ walk.pc = ends[Len(walk.popped)]
       /\ walk.at = "failed" => Len(walk.popped) < Len(pushed)

ScriptType ==
  /\ script \in Seq(Byte)
  /\ pushed \in Seq(PushedItems)
  /\ walk \in [at : {"writing", "reading", "failed", "stuck"}, pc : Nat,
               popped : Seq([op : Byte, data : Seq(Byte)]), skips : BOOLEAN]

ScriptIInv ==
  /\ ScriptType
  /\ \A i \in 1..Len(pushed) : ItemSound(pushed[i])
  /\ \E ends : EndsAt(ends) /\ WrittenIn(ends) /\ ReadIn(ends)

\* A piece of a sequence is the sequence it equals cell by cell.
LEMMA PieceIs ==
  ASSUME NEW S, NEW s \in Seq(S), NEW d \in Seq(S), NEW a \in Nat, a + Len(d) <= Len(s),
         \A j \in 1..Len(d) : s[a + j] = d[j]
  PROVE  SubSeq(s, a + 1, a + Len(d)) = d
<1> DEFINE u == SubSeq(s, a + 1, a + Len(d))
           n == Len(d)
<1>1. n \in Nat /\ Len(s) \in Nat
  OBVIOUS
<1>2. a + 1 \in 1..Len(s) + 1 /\ a + n \in a + 1 - 1..Len(s)
  BY <1>1
<1>3. /\ u \in Seq(S) /\ Len(u) = (a + n) - (a + 1) + 1
      /\ \A i \in 1..(a + n) - (a + 1) + 1 : u[i] = s[(a + 1) + i - 1]
  BY <1>1, <1>2, SubSeqProperties
<1> HIDE DEF u, n
<1>4. (a + n) - (a + 1) + 1 = n /\ \A i \in 1..n : (a + 1) + i - 1 = a + i
  BY <1>1
<1>5. u \in Seq(S) /\ Len(u) = n /\ \A i \in 1..n : u[i] = s[a + i]
  BY <1>3, <1>4
<1>6. \A i \in 1..n : u[i] = d[i]
  BY <1>5 DEF n
<1>7. u = d
  BY <1>5, <1>6 DEF n
<1>8. QED  BY <1>7 DEF u, n

\* A first byte, and the others after it.
LEMMA HeadThen ==
  ASSUME NEW S, NEW x \in S, NEW d \in Seq(S)
  PROVE  /\ <<x>> \o d \in Seq(S) /\ Len(<<x>> \o d) = 1 + Len(d) /\ (<<x>> \o d)[1] = x
         /\ \A j \in 1..Len(d) : (<<x>> \o d)[1 + j] = d[j]
<1>1. <<x>> \in Seq(S) /\ Len(<<x>>) = 1 /\ <<x>>[1] = x
  OBVIOUS
<1>2. QED  BY <1>1

\* The first powers.
LEMMA FirstPowers ==
  /\ \A k \in 1..4 : Power[k] \in Nat \ {0}
  /\ Power[1] = Radix /\ Power[2] = Radix * Power[1] /\ Power[3] = Radix * Power[2]
  /\ Power[4] = Radix * Power[3]
  /\ 16 <= Power[2] /\ Radix <= Power[2] /\ Power[2] <= Power[3] /\ Power[3] <= Power[4]
<1>1. \A k \in Nat : Power[k] \in Nat \ {0} /\ Power[k + 1] = Radix * Power[k]
  BY PowerEquation
<1>2. /\ 0 + 1 = 1 /\ 1 + 1 = 2 /\ 2 + 1 = 3 /\ 3 + 1 = 4
      /\ 0 \in Nat /\ 1 \in Nat /\ 2 \in Nat /\ 3 \in Nat /\ 4 \in Nat
  OBVIOUS
<1>3. Power[0 + 1] = Radix * Power[0] /\ Power[0] = 1
  BY <1>1, <1>2, PowerEquation
<1>4. Power[1] = Radix
  BY <1>2, <1>3, RadixFacts
<1>5. Power[1 + 1] = Radix * Power[1] /\ Power[2 + 1] = Radix * Power[2] /\ Power[3 + 1] = Radix * Power[3]
  BY <1>1, <1>2
<1>6. Power[2] = Radix * Power[1] /\ Power[3] = Radix * Power[2] /\ Power[4] = Radix * Power[3]
  BY <1>2, <1>5
<1>7. Power[1] \in Nat \ {0} /\ Power[2] \in Nat \ {0} /\ Power[3] \in Nat \ {0} /\ Power[4] \in Nat \ {0}
  BY <1>1, <1>2
<1>8. \A x \in Nat : x <= Radix * x
  BY RadixFacts
<1>9. Power[1] <= Power[2] /\ Power[2] <= Power[3] /\ Power[3] <= Power[4]
  BY <1>6, <1>7, <1>8
<1>10. 16 <= Radix * Radix
  BY RadixFacts
<1>11. \A k \in 1..4 : k = 1 \/ k = 2 \/ k = 3 \/ k = 4
  OBVIOUS
<1>12. \A k \in 1..4 : Power[k] \in Nat \ {0}
  BY <1>7, <1>11
<1>13. QED  BY <1>4, <1>6, <1>9, <1>10, <1>12

\* The bytes that say a size, in each of the four forms.
LEMMA SizeForms ==
  ASSUME NEW n \in 0..Power[4] - 1
  PROVE  /\ SizeBytes(n) \in Seq(Byte) /\ Len(SizeBytes(n)) \in Nat \ {0}
         /\ SizeBytes(n)[1] \in 0..PushData4 /\ (SizeBytes(n)[1] = 0 <=> n = 0)
         /\ n = 0 => SizeBytes(n) = <<0>>
         /\ \/ SizeBytes(n)[1] < PushData1 /\ Len(SizeBytes(n)) = 1 /\ n = SizeBytes(n)[1]
            \/ SizeBytes(n)[1] = PushData1 /\ Len(SizeBytes(n)) = 2 /\ n = SizeBytes(n)[2]
            \/ /\ SizeBytes(n)[1] = PushData2 /\ Len(SizeBytes(n)) = 3 /\ n < Power[2]
               /\ \A j \in 1..2 : SizeBytes(n)[1 + j] = Digits(n, 2)[j]
            \/ /\ SizeBytes(n)[1] = PushData4 /\ Len(SizeBytes(n)) = 5
               /\ \A j \in 1..4 : SizeBytes(n)[1 + j] = Digits(n, 4)[j]
<1> DEFINE z == SizeBytes(n)
<1>1. /\ PushData1 \in Nat /\ PushData2 \in Nat /\ PushData4 \in Nat
      /\ 0 < PushData1 /\ PushData1 < PushData2 /\ PushData2 < PushData4 /\ PushData4 < Radix
  BY EncodingsAssumption
<1>2. /\ n \in Nat /\ Radix \in Nat /\ Power[2] \in Nat
  BY RadixFacts, PowerEquation
<1>3. /\ Digits(n, 2) \in Seq(Byte) /\ Len(Digits(n, 2)) = 2
      /\ Digits(n, 4) \in Seq(Byte) /\ Len(Digits(n, 4)) = 4
  <2>1. 2 \in Nat /\ 4 \in Nat
    OBVIOUS
  <2>2. QED  BY <1>2, <2>1, DigitsFacts DEF Byte
<1>4. CASE n < PushData1
  <2>1. z = <<n>>
    <3>1. n < PushData1 /\ ~(n >= PushData1) /\ n < Radix /\ ~(n >= Radix)
      BY <1>1, <1>2, <1>4
    <3>2. QED  BY Zenon, <3>1 DEF SizeBytes
  <2>2. n \in Byte
    BY <1>1, <1>2, <1>4 DEF Byte
  <2> HIDE DEF z
  <2>3. z \in Seq(Byte) /\ Len(z) = 1 /\ z[1] = n
    BY <2>1, <2>2
  <2>4. n = 0 => z = <<0>>
    BY <2>1
  <2>5. QED  BY <1>1, <1>2, <1>4, <2>3, <2>4 DEF z
<1>5. CASE n >= PushData1 /\ n < Radix
  <2>1. z = <<PushData1, n>>
    <3>1. ~(n < PushData1) /\ n >= PushData1 /\ n < Radix /\ ~(n >= Radix)
      BY <1>1, <1>2, <1>5
    <3>2. QED  BY Zenon, <3>1 DEF SizeBytes
  <2>2. n \in Byte /\ PushData1 \in Byte /\ n # 0
    BY <1>1, <1>2, <1>5 DEF Byte
  <2> HIDE DEF z
  <2>3. z \in Seq(Byte) /\ Len(z) = 2 /\ z[1] = PushData1 /\ z[2] = n
    BY <2>1, <2>2
  <2>4. QED  BY <1>1, <1>2, <1>5, <2>2, <2>3 DEF z
<1>6. CASE n >= Radix /\ n < Power[2]
  <2>1. z = <<PushData2>> \o Digits(n, 2)
    <3>1. ~(n < PushData1) /\ ~(n < Radix)
      BY <1>1, <1>2, <1>6
    <3>2. QED  BY Zenon, <1>6, <3>1 DEF SizeBytes
  <2>2. PushData2 \in Byte /\ n # 0
    BY <1>1, <1>2, <1>6 DEF Byte
  <2> HIDE DEF z
  <2>3. z \in Seq(Byte) /\ Len(z) = 3 /\ z[1] = PushData2 /\ \A j \in 1..2 : z[1 + j] = Digits(n, 2)[j]
    BY <1>3, <2>1, <2>2, HeadThen
  <2>4. QED  BY <1>1, <1>2, <1>6, <2>2, <2>3 DEF z
<1>7. CASE n >= Power[2]
  <2>1. Power[2] >= Radix
    BY FirstPowers
  <2>2. z = <<PushData4>> \o Digits(n, 4)
    <3>1. ~(n < PushData1) /\ ~(n < Radix) /\ ~(n < Power[2])
      BY <1>1, <1>2, <1>7, <2>1
    <3>2. QED  BY Zenon, <3>1 DEF SizeBytes
  <2>3. PushData4 \in Byte /\ n # 0
    BY <1>1, <1>2, <1>7, <2>1 DEF Byte
  <2> HIDE DEF z
  <2>4. z \in Seq(Byte) /\ Len(z) = 5 /\ z[1] = PushData4 /\ \A j \in 1..4 : z[1 + j] = Digits(n, 4)[j]
    BY <1>3, <2>2, <2>3, HeadThen
  <2>5. QED  BY <1>1, <1>2, <1>7, <2>3, <2>4 DEF z
<1>8. QED  BY <1>1, <1>2, <1>4, <1>5, <1>6, <1>7

\* Every kind of push adds a sound item's bytes, or is refused.
LEMMA PushedItem ==
  ASSUME NEW b \in Seq(Byte), Len(b) < Power[4], NEW n \in Int, n \in 1..IntMax => b = BytesEncoding(n)
  PROVE  LET bytes == SizeBytes(Len(b)) \o b
             item == [op |-> bytes[1], data |-> b, n |-> n]
         IN ItemSound(item) /\ Chunk(item) = bytes
<1> DEFINE l == Len(b)
           z == SizeBytes(l)
           bytes == z \o b
           item == [op |-> bytes[1], data |-> b, n |-> n]
<1>1. l \in 0..Power[4] - 1
  BY FirstPowers
<1>2. /\ z \in Seq(Byte) /\ Len(z) \in Nat \ {0} /\ z[1] \in 0..PushData4
      /\ z[1] = 0 <=> l = 0
      /\ l = 0 => z = <<0>>
  <2> HIDE DEF l
  <2>1. QED  BY <1>1, SizeForms
<1>3. bytes[1] = z[1] /\ z[1] \in Byte
  <2> HIDE DEF z
  <2>1. 1 \in 1..Len(z)
    BY <1>2
  <2>2. QED  BY <1>2, <2>1
<1> HIDE DEF z, l
<1>4. item.op = z[1] /\ item.data = b /\ item.n = n /\ item \in PushedItems
  <2> HIDE DEF bytes
  <2>1. QED  BY <1>3 DEF PushedItems
<1>5. ItemSound(item)
  <2>1. PushData4 \in Nat
    BY EncodingsAssumption
  <2>2. ~(z[1] > PushData4)
    BY <1>2, <2>1
  <2>3. l = 0 => b = <<>>
    BY DEF l
  <2>4. l # 0 => l \in 1..Power[4] - 1
    BY <1>1, FirstPowers
  <2>5. z = SizeBytes(Len(item.data)) /\ l = Len(item.data)
    BY <1>4 DEF z, l
  <2> HIDE DEF item
  <2>6. QED  BY <1>2, <1>4, <2>2, <2>3, <2>4, <2>5 DEF ItemSound
<1>6. Chunk(item) = bytes
  <2>1. PushData4 \in Nat
    BY EncodingsAssumption
  <2>2. ~(z[1] > PushData4)
    BY <1>2, <2>1
  <2>3. CASE z[1] = 0
    <3>1. z = <<0>> /\ b = <<>>
      BY <1>2, <2>3 DEF l
    <3>2. z \o b = <<0>>
      BY <3>1
    <3>3. Chunk(item) = <<item.op>> /\ item.op = 0
      BY <1>4, <2>3 DEF Chunk
    <3>4. QED  BY <3>2, <3>3
  <2>4. CASE z[1] # 0
    <3>1. Chunk(item) = SizeBytes(Len(item.data)) \o item.data
      <4> HIDE DEF item
      <4>1. QED  BY <1>4, <2>2, <2>4 DEF Chunk
    <3>2. QED  BY <1>4, <3>1 DEF z, l
  <2>5. QED  BY <2>3, <2>4
<1>7. QED  BY <1>5, <1>6 DEF z, l

\* So is an opcode on its own.
LEMMA PushedOpcode ==
  ASSUME NEW op \in Byte, op > PushData4
  PROVE  LET item == [op |-> <<op>>[1], data |-> <<>>, n |-> 0]
         IN ItemSound(item) /\ Chunk(item) = <<op>>
<1> DEFINE item == [op |-> <<op>>[1], data |-> <<>>, n |-> 0]
<1>1. item.op = op /\ item.data = <<>> /\ item.n = 0 /\ item \in PushedItems
  <2>1. <<>> \in Seq(Byte)
    OBVIOUS
  <2>2. QED  BY <2>1 DEF PushedItems
<1>2. ~(op <= PushData4) /\ 0 \notin 1..IntMax
  BY EncodingsAssumption, RadixFacts DEF Byte
<1> HIDE DEF item
<1>3. ItemSound(item) /\ Chunk(item) = <<op>>
  BY <1>1, <1>2 DEF ItemSound, Chunk
<1>4. QED  BY <1>3 DEF item

\* What is pushed on a script that is being written.
Pushed(item) ==
  /\ ItemSound(item) /\ walk.at = "writing"
  /\ script' = script \o Chunk(item) /\ pushed' = Append(pushed, item)
  /\ walk' = walk

\* Every operation that pushes, pushes a sound item.
LEMMA PushesAreSound ==
  /\ \A n \in Numbers : PushNumber(n) \/ PushScriptInt(n) => \E item : Pushed(item)
  /\ \A b \in Data : PushData(b) => \E item : Pushed(item)
  /\ \A op \in OtherOpcodes : PushOpcode(op) => \E item : Pushed(item)
<1>1. ASSUME NEW b \in Seq(Byte), Len(b) < Power[4], NEW n \in Int, n \in 1..IntMax => b = BytesEncoding(n),
             PushBytes(b, n)
      PROVE  \E item : Pushed(item)
  <2> DEFINE bytes == SizeBytes(Len(b)) \o b
             item == [op |-> bytes[1], data |-> b, n |-> n]
  <2>1. ItemSound(item) /\ Chunk(item) = bytes
    BY <1>1, PushedItem
  <2> HIDE DEF bytes
  <2>2. walk.at = "writing" /\ script' = script \o bytes /\ pushed' = Append(pushed, item) /\ walk' = walk
    BY <1>1 DEF PushBytes, Pushing, bytes
  <2> HIDE DEF item
  <2>3. Pushed(item)
    BY <2>1, <2>2 DEF Pushed
  <2>4. QED  BY <2>3
<1>2. ASSUME NEW op \in Byte, op > PushData4, Pushing(<<op>>, <<>>, 0)
      PROVE  \E item : Pushed(item)
  <2> DEFINE item == [op |-> <<op>>[1], data |-> <<>>, n |-> 0]
  <2>1. ItemSound(item) /\ Chunk(item) = <<op>>
    BY <1>2, PushedOpcode
  <2>2. walk.at = "writing" /\ script' = script \o <<op>> /\ pushed' = Append(pushed, item) /\ walk' = walk
    BY <1>2 DEF Pushing
  <2> HIDE DEF item
  <2>3. Pushed(item)
    BY <2>1, <2>2 DEF Pushed
  <2>4. QED  BY <2>3
<1>3. ASSUME NEW n \in Numbers, ~Endless(n), PushBytes(BytesEncoding(n), n)
      PROVE  \E item : Pushed(item)
  <2>1. n \in Nat /\ n < Power[8]
    BY <1>3, EncodingsAssumption DEF Endless
  <2>2. BytesEncoding(n) \in Seq(Byte) /\ Len(BytesEncoding(n)) <= LogicalSize[n] + 1
    BY <2>1, EncodedBytes DEF Byte
  <2>3. LogicalSize[n] <= 8 /\ LogicalSize[n] \in Nat
    BY <2>1, SizeIsThat, SizeBounds
  <2>4. Len(BytesEncoding(n)) < Power[4]
    <3>1. Len(BytesEncoding(n)) \in Nat
      BY <2>2
    <3>2. 4 \in 1..4 /\ 3 \in 1..4 /\ 2 \in 1..4
      OBVIOUS
    <3>3. 16 <= Power[4] /\ Power[4] \in Nat
      BY <3>2, FirstPowers
    <3>4. QED  BY <2>2, <2>3, <3>1, <3>3
  <2>5. QED  BY <1>1, <1>3, <2>1, <2>2, <2>4
<1>4. ASSUME NEW n \in Numbers, PushNumber(n) \/ PushScriptInt(n)
      PROVE  \E item : Pushed(item)
  <2>1. CASE Small(n) /\ Pushing(<<Op1 + n - 1>>, <<>>, 0)
    <3>1. Op1 + n - 1 \in Byte /\ Op1 + n - 1 > PushData4
      <4>1. n = -1 \/ n \in 1..SmallNumbers
        BY <2>1 DEF Small
      <4>2. QED  BY <4>1, EncodingsAssumption DEF Byte
    <3>2. QED  BY <1>2, <2>1, <3>1
  <2>2. CASE ~Endless(n) /\ PushBytes(BytesEncoding(n), n)
    BY <1>3, <2>2
  <2>3. QED  BY <1>4, <2>1, <2>2 DEF PushNumber, PushScriptInt
<1>5. ASSUME NEW b \in Data, PushData(b)  PROVE \E item : Pushed(item)
  <2>1. b \in Seq(Byte) /\ Len(b) < Power[4]
    BY EncodingsAssumption DEF Byte
  <2>2. 0 \in Int /\ ~(0 \in 1..IntMax)
    OBVIOUS
  <2>3. QED  BY <1>1, <1>5, <2>1, <2>2 DEF PushData
<1>6. ASSUME NEW op \in OtherOpcodes, PushOpcode(op)  PROVE \E item : Pushed(item)
  <2>1. op \in Byte /\ op > PushData4
    BY EncodingsAssumption DEF Byte
  <2>2. QED  BY <1>2, <1>6, <2>1 DEF PushOpcode
<1>7. QED  BY <1>4, <1>5, <1>6

\* The bytes of a sound item are bytes, the first of them its opcode; all others are its data
\* after the bytes of the size.
LEMMA ChunkFacts ==
  ASSUME NEW item, ItemSound(item)
  PROVE  /\ Chunk(item) \in Seq(Byte) /\ Len(Chunk(item)) \in Nat \ {0} /\ Chunk(item)[1] = item.op
         /\ item.op # 0 /\ item.op <= PushData4 =>
              LET z == SizeBytes(Len(item.data))
              IN /\ Len(Chunk(item)) = Len(z) + Len(item.data)
                 /\ \A j \in 1..Len(z) : Chunk(item)[j] = z[j]
                 /\ \A j \in 1..Len(item.data) : Chunk(item)[Len(z) + j] = item.data[j]
<1> DEFINE op == item.op
           d == item.data
           z == SizeBytes(Len(d))
           c == Chunk(item)
<1>1. op \in Byte /\ d \in Seq(Byte)
  BY DEF ItemSound, PushedItems
<1>2. PushData4 \in Nat /\ op \in Nat
  BY <1>1, EncodingsAssumption, RadixFacts DEF Byte
<1>3. CASE op = 0 \/ op > PushData4
  <2>1. c = <<op>>
    BY <1>3 DEF Chunk
  <2> HIDE DEF c, op
  <2>2. c \in Seq(Byte) /\ Len(c) = 1 /\ c[1] = op
    BY <1>1, <2>1
  <2>3. ~(op # 0 /\ op <= PushData4)
    BY <1>2, <1>3 DEF op
  <2>4. ~(item.op # 0 /\ item.op <= PushData4)
    BY <2>3 DEF op
  <2>5. Chunk(item) \in Seq(Byte) /\ Len(Chunk(item)) \in Nat \ {0} /\ Chunk(item)[1] = item.op
    BY <2>2 DEF c, op
  <2>6. QED  BY Zenon, <2>4, <2>5
<1>4. CASE ~(op = 0 \/ op > PushData4)
  <2>1. c = z \o d /\ op # 0 /\ op <= PushData4
    <3>1. c = z \o d
      BY Zenon, <1>4 DEF Chunk
    <3>2. op # 0 /\ op <= PushData4
      <4> HIDE DEF op
      <4>1. QED  BY <1>2, <1>4
    <3>3. QED  BY <3>1, <3>2
  <2>2. Len(d) \in 1..Power[4] - 1 /\ op = z[1]
    BY <2>1 DEF ItemSound
  <2>3. z \in Seq(Byte) /\ Len(z) \in Nat \ {0}
    <3>1. Len(d) \in 0..Power[4] - 1
      BY <2>2
    <3>2. QED  BY <3>1, SizeForms
  <2> HIDE DEF c, z, op, d
  <2>4. /\ c \in Seq(Byte) /\ Len(c) = Len(z) + Len(d)
        /\ \A j \in 1..Len(z) : c[j] = z[j]
        /\ \A j \in 1..Len(d) : c[Len(z) + j] = d[j]
    BY <1>1, <2>1, <2>3
  <2>5. c[1] = op /\ Len(c) \in Nat \ {0}
    BY <1>1, <2>2, <2>3, <2>4
  <2>6. QED  BY <2>4, <2>5 DEF c, z, op, d
<1>5. QED  BY <1>3, <1>4

\* What is pushed keeps the invariant: its bytes go where the others end.
LEMMA PushedKeeps ==
  ASSUME ScriptIInv, NEW item, Pushed(item)
  PROVE  ScriptIInv'
<1>1. PICK ends : EndsAt(ends) /\ WrittenIn(ends) /\ ReadIn(ends)
  BY DEF ScriptIInv
<1> DEFINE n == Len(pushed)
           c == Chunk(item)
           q == Append(pushed, item)
           t == script \o c
<1>2. /\ script \in Seq(Byte) /\ pushed \in Seq(PushedItems)
      /\ walk \in [at : {"writing", "reading", "failed", "stuck"}, pc : Nat,
                   popped : Seq([op : Byte, data : Seq(Byte)]), skips : BOOLEAN]
      /\ \A i \in 1..n : ItemSound(pushed[i])
  BY DEF ScriptIInv, ScriptType
<1>3. ItemSound(item) /\ item \in PushedItems /\ walk.at = "writing" /\ script' = t /\ pushed' = q /\ walk' = walk
  BY DEF Pushed, ItemSound
<1>4. c \in Seq(Byte) /\ Len(c) \in Nat \ {0}
  BY <1>3, ChunkFacts
<1>5. n \in Nat /\ ends \in [0..n -> Nat] /\ ends[0] = 0 /\ \A i \in 1..n : ends[i] = ends[i - 1] + Len(Chunk(pushed[i]))
  BY <1>1, <1>2 DEF EndsAt
<1>6. /\ Len(script) = ends[n] /\ walk.popped = <<>>
      /\ \A i \in 1..n : \A j \in 1..Len(Chunk(pushed[i])) :
           ends[i - 1] + j <= Len(script) => script[ends[i - 1] + j] = Chunk(pushed[i])[j]
  BY <1>1, <1>3 DEF WrittenIn
<1>7. walk.pc = 0
  <2>1. Len(walk.popped) = 0
    BY <1>6
  <2>2. InStep(0)
    BY DEF InStep
  <2>3. QED  BY <1>1, <1>5, <2>1, <2>2 DEF ReadIn
<1>8. q \in Seq(PushedItems) /\ Len(q) = n + 1 /\ q[n + 1] = item /\ \A i \in 1..n : q[i] = pushed[i]
  BY <1>2, <1>3
<1>9. /\ t \in Seq(Byte) /\ Len(t) = Len(script) + Len(c)
      /\ \A k \in 1..Len(script) : t[k] = script[k]
      /\ \A k \in 1..Len(c) : t[Len(script) + k] = c[k]
  BY <1>2, <1>4
<1>10. PICK e \in [0..n + 1 -> Nat] : e[n + 1] = ends[n] + Len(c) /\ \A i \in 0..n : e[i] = ends[i]
  <2> DEFINE e == [i \in 0..n + 1 |-> IF i = n + 1 THEN ends[n] + Len(c) ELSE ends[i]]
  <2>1. ends[n] + Len(c) \in Nat
    BY <1>4, <1>5
  <2>2. \A i \in 0..n : i # n + 1 /\ i \in 0..n + 1
    BY <1>5
  <2>3. \A i \in 0..n + 1 : i # n + 1 => i \in 0..n
    BY <1>5
  <2> DEFINE x == ends[n] + Len(c)
  <2>4. x \in Nat /\ e = [i \in 0..n + 1 |-> IF i = n + 1 THEN x ELSE ends[i]] /\ n + 1 \in 0..n + 1
    BY <1>5, <2>1
  <2> HIDE DEF x, n, e, c
  <2>5. e \in [0..n + 1 -> Nat] /\ e[n + 1] = x /\ \A i \in 0..n : e[i] = ends[i]
    BY <1>5, <2>2, <2>3, <2>4
  <2>6. QED  BY <2>5 DEF x
<1>11. c = Chunk(item) /\ n = Len(pushed)
  OBVIOUS
<1> HIDE DEF n, c, q, t
<1>12. EndsAt(e)'
  <2>1. ASSUME NEW i \in 1..n + 1  PROVE e[i] = e[i - 1] + Len(Chunk(q[i]))
    <3>1. CASE i = n + 1
      <4>1. i - 1 = n /\ n \in 0..n
        BY <1>5, <3>1
      <4>2. q[i] = item /\ e[i] = ends[n] + Len(c) /\ e[i - 1] = ends[n]
        BY <1>8, <1>10, <3>1, <4>1
      <4>3. QED  BY <1>11, <4>2
    <3>2. CASE i # n + 1
      <4>1. i \in 1..n /\ i \in 0..n /\ i - 1 \in 0..n
        BY <1>5, <3>2
      <4>2. QED  BY <1>5, <1>8, <1>10, <4>1
    <3>3. QED  BY <3>1, <3>2
  <2>2. e[0] = 0
    <3>1. 0 \in 0..n
      BY <1>5
    <3>2. QED  BY <1>5, <1>10, <3>1
  <2>3. QED  BY <1>3, <1>8, <1>10, <2>1, <2>2 DEF EndsAt
<1>13. WrittenIn(e)'
  <2>1. Len(t) = e[n + 1]
    BY <1>6, <1>9, <1>10
  <2>2. Len(t) <= e[n + 1]
    <3>1. Len(t) \in Nat
      BY <1>9
    <3>2. QED  BY <2>1, <3>1
  <2>3. ASSUME NEW i \in 1..n + 1, NEW j \in 1..Len(Chunk(q[i])), e[i - 1] + j <= Len(t)
        PROVE  t[e[i - 1] + j] = Chunk(q[i])[j]
    <3>1. CASE i = n + 1
      <4>1. i - 1 = n /\ n \in 0..n
        BY <1>5, <3>1
      <4>2. q[i] = item /\ e[i - 1] = Len(script)
        BY <1>6, <1>8, <1>10, <3>1, <4>1
      <4>3. QED  BY <1>9, <1>11, <4>2
    <3>2. CASE i # n + 1
      <4>1. i \in 1..n /\ i \in 0..n /\ i - 1 \in 0..n
        BY <1>5, <3>2
      <4>2. q[i] = pushed[i] /\ e[i - 1] = ends[i - 1] /\ ends[i - 1] \in Nat /\ ends[i] \in Nat
        BY <1>5, <1>8, <1>10, <4>1
      <4>3. j \in 1..Len(Chunk(pushed[i])) /\ ends[i] = ends[i - 1] + Len(Chunk(pushed[i]))
        BY <1>5, <4>1, <4>2
      <4>4. Len(Chunk(pushed[i])) \in Nat
        BY <1>2, <4>1, ChunkFacts
      <4>5. ends[i] <= ends[n]
        <5> DEFINE T == {k \in Nat : i + k <= n => ends[i] <= ends[i + k]}
        <5>1. 0 \in T
          BY <4>1, <4>2
        <5>2. ASSUME NEW k \in T  PROVE k + 1 \in T
          <6>1. SUFFICES ASSUME i + (k + 1) <= n  PROVE ends[i] <= ends[i + (k + 1)]
            OBVIOUS
          <6> DEFINE m == i + (k + 1)
          <6>2. m \in 1..n /\ m - 1 = i + k /\ m - 1 \in 0..n /\ i + k <= n
            BY <1>5, <4>1, <6>1
          <6> HIDE DEF m
          <6>3. ends[m] = ends[m - 1] + Len(Chunk(pushed[m])) /\ Len(Chunk(pushed[m])) \in Nat
            BY <1>2, <1>5, <6>2, ChunkFacts
          <6>4. ends[m - 1] \in Nat
            BY <1>5, <6>2
          <6>5. ends[i] <= ends[m - 1]
            BY <6>2
          <6>6. ends[i] <= ends[m]
            BY <4>2, <6>3, <6>4, <6>5
          <6>7. QED  BY <6>6 DEF m
        <5>3. T = Nat
          <6>1. T \subseteq Nat
            OBVIOUS
          <6> HIDE DEF T
          <6>2. QED  BY <5>1, <5>2, <6>1, NatSetInduction
        <5>4. n - i \in T /\ i + (n - i) = n
          <6>1. n - i \in Nat /\ i + (n - i) = n
            BY <1>5, <4>1
          <6> HIDE DEF T
          <6>2. QED  BY <5>3, <6>1
        <5>5. n - i \in Nat /\ i + (n - i) <= n
          BY <1>5, <4>1
        <5>6. QED  BY <5>4, <5>5
      <4>6. ends[i - 1] + j <= Len(script) /\ ends[i - 1] + j \in 1..Len(script)
        <5>1. ends[n] \in Nat
          BY <1>5
        <5>2. QED  BY <1>6, <4>2, <4>3, <4>4, <4>5, <5>1
      <4>7. script[ends[i - 1] + j] = Chunk(pushed[i])[j]
        BY <1>6, <4>1, <4>3, <4>6
      <4>8. t[ends[i - 1] + j] = script[ends[i - 1] + j]
        BY <1>9, <4>6
      <4>9. QED  BY <4>2, <4>7, <4>8
    <3>3. QED  BY <3>1, <3>2
  <2>4. QED  BY <1>3, <1>6, <1>8, <2>1, <2>2, <2>3 DEF WrittenIn
<1>14. ReadIn(e)'
  <2>1. Len(walk.popped) = 0 /\ 0 \in 0..n
    BY <1>5, <1>6
  <2>2. e[0] = 0 /\ Len(t) \in Nat
    BY <1>5, <1>9, <1>10, <2>1
  <2>3. QED  BY <1>3, <1>5, <1>7, <1>8, <2>1, <2>2 DEF ReadIn
<1>15. ScriptType'
  BY <1>2, <1>3, <1>8, <1>9 DEF ScriptType
<1>16. \A i \in 1..n + 1 : ItemSound(q[i])
  <2>1. ASSUME NEW i \in 1..n + 1  PROVE ItemSound(q[i])
    <3>1. CASE i = n + 1
      BY <1>3, <1>8, <3>1
    <3>2. CASE i # n + 1
      <4>1. i \in 1..n
        BY <1>5, <3>2
      <4>2. QED  BY <1>2, <1>8, <4>1
    <3>3. QED  BY <3>1, <3>2
  <2>2. QED  BY <2>1
<1>17. \A i \in 1..Len(pushed') : ItemSound(pushed'[i])
  BY <1>3, <1>8, <1>16
<1>18. (\A i \in 1..Len(pushed) : ItemSound(pushed[i]))'
  BY <1>17 DEF ItemSound
<1>19. QED  BY <1>12, <1>13, <1>14, <1>15, <1>18 DEF ScriptIInv

\* So does the script's arriving as far as it does.
LEMMA ReceivedKeeps ==
  ASSUME ScriptIInv, Received
  PROVE  ScriptIInv'
<1>1. PICK ends : EndsAt(ends) /\ WrittenIn(ends) /\ ReadIn(ends)
  BY DEF ScriptIInv
<1>2. PICK k \in 0..Len(script) : script' = SubSeq(script, 1, k)
  BY DEF Received
<1>3. /\ script \in Seq(Byte) /\ pushed \in Seq(PushedItems)
      /\ walk \in [at : {"writing", "reading", "failed", "stuck"}, pc : Nat,
                   popped : Seq([op : Byte, data : Seq(Byte)]), skips : BOOLEAN]
      /\ \A i \in 1..Len(pushed) : ItemSound(pushed[i])
  BY DEF ScriptIInv, ScriptType
<1>4. PICK skips \in BOOLEAN : walk' = [walk EXCEPT !.at = "reading", !.skips = skips]
  BY Zenon DEF Received
<1>15. walk.at = "writing" /\ pushed' = pushed
  BY DEF Received
<1> DEFINE t == SubSeq(script, 1, k)
<1>5. t \in Seq(Byte) /\ Len(t) = k /\ k <= Len(script) /\ \A i \in 1..k : t[i] = script[i]
  <2>1. Len(script) \in Nat /\ k \in Nat
    BY <1>3
  <2>2. 1 \in 1..Len(script) + 1 /\ k \in 1 - 1..Len(script) /\ k - 1 + 1 = k
    BY <2>1
  <2>3. t \in Seq(Byte) /\ Len(t) = k /\ \A i \in 1..k : t[i] = script[1 + i - 1]
    BY <1>3, <2>2, SubSeqProperties
  <2>4. \A i \in 1..k : 1 + i - 1 = i
    BY <2>1
  <2>5. QED  BY <2>1, <2>3, <2>4
<1>6. script' = t
  BY <1>2
<1> HIDE DEF t
<1>7. walk'.at = "reading" /\ walk'.pc = walk.pc /\ walk'.popped = walk.popped
      /\ walk' \in [at : {"writing", "reading", "failed", "stuck"}, pc : Nat,
                    popped : Seq([op : Byte, data : Seq(Byte)]), skips : BOOLEAN]
  BY <1>3, <1>4, <1>15
<1>8. EndsAt(ends)'
  BY <1>1, <1>4, <1>15 DEF EndsAt
<1>9. Len(script) = ends[Len(pushed)] /\ walk.popped = <<>> /\ walk.pc = 0
  <2>1. Len(script) = ends[Len(pushed)] /\ walk.popped = <<>>
    BY <1>1, <1>4, <1>15 DEF WrittenIn
  <2>2. Len(walk.popped) = 0 /\ InStep(0)
    BY <2>1 DEF InStep
  <2>3. QED  BY <1>1, <2>1, <2>2 DEF ReadIn, EndsAt
<1>10. WrittenIn(ends)'
  <2>1. Len(t) <= ends[Len(pushed)]
    BY <1>5, <1>9
  <2>2. ASSUME NEW i \in 1..Len(pushed), NEW j \in 1..Len(Chunk(pushed[i])), ends[i - 1] + j <= Len(t)
        PROVE  t[ends[i - 1] + j] = Chunk(pushed[i])[j]
    <3>1. ends[i - 1] \in Nat
      <4>1. i - 1 \in 0..Len(pushed) /\ Len(pushed) \in Nat
        BY <1>3
      <4>2. QED  BY <1>1, <4>1 DEF EndsAt
    <3>2. Len(Chunk(pushed[i])) \in Nat
      BY <1>3, ChunkFacts
    <3>3. ends[i - 1] + j \in 1..k /\ ends[i - 1] + j <= Len(script)
      <4>1. Len(script) \in Nat /\ j \in Nat /\ j >= 1 /\ k \in Nat
        BY <1>3, <3>2
      <4>2. QED  BY <1>5, <2>2, <3>1, <4>1
    <3>4. script[ends[i - 1] + j] = Chunk(pushed[i])[j]
      BY <1>1, <3>3 DEF WrittenIn
    <3>5. QED  BY <1>5, <3>3, <3>4
  <2>3. QED  BY <1>4, <1>15, <1>6, <1>7, <2>1, <2>2 DEF WrittenIn
<1>11. ReadIn(ends)'
  <2>1. Len(<<>>) = 0 /\ Len(t) \in Nat /\ Len(pushed) \in Nat /\ ends[0] = 0
    BY <1>1, <1>3, <1>5 DEF EndsAt
  <2>2. Len(walk'.popped) = 0 /\ walk'.pc = 0 /\ walk'.at # "failed" /\ script' = t
    BY <1>6, <1>7, <1>9, <2>1
  <2>3. QED  BY <1>15, <2>1, <2>2 DEF ReadIn
<1>12. (\A i \in 1..Len(pushed) : ItemSound(pushed[i]))'
  BY <1>3, <1>4, <1>15 DEF ItemSound
<1>13. ScriptType'
  BY <1>3, <1>4, <1>15, <1>5, <1>6, <1>7 DEF ScriptType
<1>14. QED  BY <1>8, <1>10, <1>11, <1>12, <1>13 DEF ScriptIInv

\* What the reader at the beginning of an item's bytes makes of them.
Read(item) == IF walk.pc + Len(Chunk(item)) <= Len(script)
              THEN [walk EXCEPT !.pc = @ + Len(Chunk(item)) - (IF walk.skips THEN 0 ELSE Len(item.data)),
                      !.popped = Append(@, AsRead(item))]
              ELSE [walk EXCEPT !.at = "failed"]

\* The size of an item's data, if as much of the script is there as says it; without that,
\* or without the data, Pop fails.
LEMMA SizeRead ==
  ASSUME script \in Seq(Byte), NEW pc \in Nat, pc < Len(script),
         NEW item, ItemSound(item), item.op # 0, item.op <= PushData4,
         \A j \in 1..Len(Chunk(item)) : pc + j <= Len(script) => script[pc + j] = Chunk(item)[j]
  PROVE  LET s == SizeIs(item.op, pc + 1)
             h == Len(SizeBytes(Len(item.data)))
         IN IF pc + h <= Len(script)
            THEN s.at = pc + h /\ s.size = Len(item.data)
            ELSE pc + 1 >= Len(script) \/ (s.at > Len(script) /\ s.size = 0 /\ s.at \in Nat)
<1> DEFINE op == item.op
           n == Len(item.data)
           z == SizeBytes(n)
           h == Len(z)
           s == SizeIs(op, pc + 1)
           p == pc + 1
           l == Len(script)
<1>1. /\ op \in Nat /\ n \in 0..Power[4] - 1 /\ n \in Nat /\ n # 0 /\ op = z[1] /\ l \in Nat
  <2>1. op \in Nat /\ Len(item.data) \in 1..Power[4] - 1 /\ op = SizeBytes(Len(item.data))[1] /\ Power[4] \in Nat
    <3>1. op \in Nat
      BY RadixFacts DEF ItemSound, PushedItems, Byte
    <3>2. 4 \in 1..4
      OBVIOUS
    <3>3. QED  BY <3>1, <3>2, FirstPowers DEF ItemSound
  <2>2. QED  BY <2>1
<1>2. /\ PushData1 \in Nat /\ PushData2 \in Nat /\ PushData4 \in Nat
      /\ 0 < PushData1 /\ PushData1 < PushData2 /\ PushData2 < PushData4
  BY EncodingsAssumption
<1>3. /\ h \in Nat \ {0} /\ Len(Chunk(item)) = h + n
      /\ \A j \in 1..h : Chunk(item)[j] = z[j]
  <2>1. h \in Nat \ {0}
    <3> HIDE DEF n
    <3>1. QED  BY <1>1, SizeForms
  <2>2. Len(Chunk(item)) = h + n /\ \A j \in 1..h : Chunk(item)[j] = z[j]
    BY Zenon, ChunkFacts
  <2>3. QED  BY <2>1, <2>2
<1>4. \A j \in 1..h : pc + j <= l => script[pc + j] = z[j]
  <2>1. \A j \in 1..h : j \in 1..Len(Chunk(item))
    <3> DEFINE c == Len(Chunk(item))
    <3>1. c = h + n /\ h \in Nat /\ n \in Nat
      BY <1>1, <1>3
    <3> HIDE DEF c, h, n
    <3>2. \A j \in 1..h : j \in 1..c
      BY <3>1
    <3>3. QED  BY <3>2 DEF c
  <2>2. QED  BY <1>3, <2>1
<1>5. p \in Nat /\ p = pc + 1
  OBVIOUS
<1>6. \/ z[1] < PushData1 /\ h = 1 /\ n = z[1]
      \/ z[1] = PushData1 /\ h = 2 /\ n = z[2]
      \/ /\ z[1] = PushData2 /\ h = 3 /\ n < Power[2]
         /\ \A j \in 1..2 : z[1 + j] = Digits(n, 2)[j]
      \/ /\ z[1] = PushData4 /\ h = 5
         /\ \A j \in 1..4 : z[1 + j] = Digits(n, 4)[j]
  BY <1>1, SizeForms
<1>7. ASSUME NEW k \in Nat, h = 1 + k, n < Power[k], \A j \in 1..k : z[1 + j] = Digits(n, k)[j], p + k <= l
      PROVE  Number(SubSeq(script, p + 1, p + k)) = n
  <2>1. Digits(n, k) \in Seq(Byte) /\ Len(Digits(n, k)) = k /\ Number(Digits(n, k)) = n
    BY <1>1, <1>7, DigitsFacts DEF Byte
  <2>2. \A j \in 1..k : script[p + j] = Digits(n, k)[j]
    <3>1. ASSUME NEW j \in 1..k  PROVE script[p + j] = Digits(n, k)[j]
      <4>1. 1 + j \in 1..h /\ p + j = pc + (1 + j) /\ pc + (1 + j) <= l
        <5>1. j \in Nat /\ 1 <= j /\ j <= k /\ p = pc + 1 /\ pc \in Nat /\ l \in Nat
          BY <1>1, <1>7
        <5> HIDE DEF h, l, p, z, n
        <5>2. QED  BY <1>7, <5>1
      <4>2. QED  BY <1>4, <1>7, <4>1
    <3>2. QED  BY <3>1
  <2> DEFINE d == Digits(n, k)
  <2>3. d \in Seq(Byte) /\ Len(d) = k /\ Number(d) = n /\ \A j \in 1..Len(d) : script[p + j] = d[j]
    BY <2>1, <2>2
  <2> HIDE DEF d
  <2>4. p + Len(d) <= Len(script)
    BY <1>7, <2>3
  <2>5. SubSeq(script, p + 1, p + Len(d)) = d
    BY <1>5, <2>3, <2>4, PieceIs
  <2>6. QED  BY <2>3, <2>5
<1>8. ASSUME h = 2, p < l  PROVE script[p + 1] = z[2]
  <2>1. 2 \in 1..h /\ pc + 2 = p + 1 /\ pc + 2 <= l
    BY <1>1, <1>8
  <2>2. QED  BY <1>4, <2>1
<1> DEFINE at == s.at
           size == s.size
<1>9. /\ op < PushData1 => s = [at |-> p, size |-> op]
      /\ op = PushData1 => s = [at |-> p + 1, size |-> IF p < l THEN script[p + 1] ELSE 0]
      /\ op = PushData2 => s = IF p + 2 <= l
                               THEN [at |-> p + 2, size |-> Number(SubSeq(script, p + 1, p + 2))]
                               ELSE [at |-> l + 1, size |-> 0]
      /\ op = PushData4 => s = IF p + 4 <= l
                               THEN [at |-> p + 4, size |-> Number(SubSeq(script, p + 1, p + 4))]
                               ELSE [at |-> l + 1, size |-> 0]
  <2> HIDE DEF p, l, op
  <2> USE DEF SizeIs
  <2>1. ASSUME op < PushData1  PROVE SizeIs(op, p) = [at |-> p, size |-> op]
    <3>1. op < PushData1 /\ op # PushData1 /\ op # PushData2 /\ op # PushData4
      BY <1>1, <1>2, <2>1
    <3>2. QED  BY Zenon, <3>1
  <2>2. ASSUME op = PushData1
        PROVE  SizeIs(op, p) = [at |-> p + 1, size |-> IF p < l THEN script[p + 1] ELSE 0]
    <3>1. ~(op < PushData1) /\ op = PushData1 /\ op # PushData2 /\ op # PushData4
      BY <1>1, <1>2, <2>2
    <3>2. QED  BY Zenon, <3>1 DEF l
  <2>3. ASSUME op = PushData2
        PROVE  SizeIs(op, p) = IF p + 2 <= l
                               THEN [at |-> p + 2, size |-> Number(SubSeq(script, p + 1, p + 2))]
                               ELSE [at |-> l + 1, size |-> 0]
    <3>1. ~(op < PushData1) /\ op # PushData1 /\ op = PushData2 /\ op # PushData4
      BY <1>1, <1>2, <2>3
    <3>2. CASE p + 2 <= l
      BY Zenon, <3>1, <3>2 DEF l
    <3>3. CASE ~(p + 2 <= l)
      BY Zenon, <3>1, <3>3 DEF l
    <3>4. QED  BY <3>2, <3>3
  <2>4. ASSUME op = PushData4
        PROVE  SizeIs(op, p) = IF p + 4 <= l
                               THEN [at |-> p + 4, size |-> Number(SubSeq(script, p + 1, p + 4))]
                               ELSE [at |-> l + 1, size |-> 0]
    <3>1. ~(op < PushData1) /\ op # PushData1 /\ op # PushData2 /\ op = PushData4
      BY <1>1, <1>2, <2>4
    <3>2. CASE p + 4 <= l
      BY Zenon, <3>1, <3>2 DEF l
    <3>3. CASE ~(p + 4 <= l)
      BY Zenon, <3>1, <3>3 DEF l
    <3>4. QED  BY <3>2, <3>3
  <2>5. s = SizeIs(op, p)
    BY DEF p
  <2> HIDE DEF SizeIs, s
  <2>6. QED  BY <2>1, <2>2, <2>3, <2>4, <2>5
<1> HIDE DEF s
<1> DEFINE Goal == IF pc + h <= l THEN at = pc + h /\ size = n
                   ELSE p >= l \/ (at > l /\ size = 0 /\ at \in Nat)
<1> SUFFICES Goal
  BY Zenon DEF s
<1>10. CASE z[1] < PushData1 /\ h = 1 /\ n = z[1]
  <2>1. s = [at |-> p, size |-> op]
    BY <1>1, <1>9, <1>10
  <2>2. at = p /\ size = op /\ pc + h = p /\ p <= l
    BY <1>1, <1>10, <2>1
  <2> HIDE DEF at, size, h, l, p, n
  <2>3. QED  BY <1>1, <1>10, <2>2
<1>11. CASE z[1] = PushData1 /\ h = 2 /\ n = z[2]
  <2>1. s = [at |-> p + 1, size |-> IF p < l THEN script[p + 1] ELSE 0]
    BY <1>1, <1>9, <1>11
  <2>2. at = p + 1 /\ size = (IF p < l THEN script[p + 1] ELSE 0) /\ pc + h = p + 1
    BY <1>11, <2>1
  <2> HIDE DEF at, size, h, l, n
  <2>3. QED  BY <1>1, <1>5, <1>8, <1>11, <2>2
<1>12. CASE /\ z[1] = PushData2 /\ h = 3 /\ n < Power[2]
            /\ \A j \in 1..2 : z[1 + j] = Digits(n, 2)[j]
  <2>1. s = IF p + 2 <= l THEN [at |-> p + 2, size |-> Number(SubSeq(script, p + 1, p + 2))]
                           ELSE [at |-> l + 1, size |-> 0]
    BY <1>1, <1>9, <1>12
  <2>2. p + 2 <= l => Number(SubSeq(script, p + 1, p + 2)) = n
    <3>1. 2 \in Nat /\ h = 1 + 2
      BY <1>12
    <3>2. QED  BY <1>7, <1>12, <3>1
  <2>3. CASE p + 2 <= l
    <3>1. at = p + 2 /\ size = n /\ pc + h = p + 2
      BY <1>12, <2>1, <2>2, <2>3
    <3> HIDE DEF at, size, h, l, n
    <3>2. QED  BY <2>3, <3>1
  <2>4. CASE ~(p + 2 <= l)
    <3>1. at = l + 1 /\ size = 0 /\ pc + h = p + 2
      BY <1>12, <2>1, <2>4
    <3> HIDE DEF at, size, h, l, n
    <3>2. QED  BY <1>1, <2>4, <3>1
  <2>5. QED  BY <2>3, <2>4
<1>13. CASE /\ z[1] = PushData4 /\ h = 5
            /\ \A j \in 1..4 : z[1 + j] = Digits(n, 4)[j]
  <2>1. s = IF p + 4 <= l THEN [at |-> p + 4, size |-> Number(SubSeq(script, p + 1, p + 4))]
                           ELSE [at |-> l + 1, size |-> 0]
    BY <1>1, <1>9, <1>13
  <2>2. p + 4 <= l => Number(SubSeq(script, p + 1, p + 4)) = n
    <3>1. n < Power[4]
      <4>1. Power[4] \in Nat
        <5>1. 4 \in 1..4
          OBVIOUS
        <5>2. QED  BY <5>1, FirstPowers
      <4> HIDE DEF n
      <4>2. QED  BY <1>1, <4>1
    <3> HIDE DEF h, n
    <3>2. 4 \in Nat /\ h = 1 + 4 /\ n < Power[4]
      BY <1>13, <3>1
    <3>3. QED  BY <1>7, <1>13, <3>2
  <2>3. CASE p + 4 <= l
    <3>1. at = p + 4 /\ size = n /\ pc + h = p + 4
      BY <1>13, <2>1, <2>2, <2>3
    <3> HIDE DEF at, size, h, l, n
    <3>2. QED  BY <2>3, <3>1
  <2>4. CASE ~(p + 4 <= l)
    <3>1. at = l + 1 /\ size = 0 /\ pc + h = p + 4
      BY <1>13, <2>1, <2>4
    <3> HIDE DEF at, size, h, l, n
    <3>2. QED  BY <1>1, <2>4, <3>1
  <2>5. QED  BY <2>3, <2>4
<1>14. QED
  <2> HIDE DEF Goal, z, h
  <2>1. QED  BY <1>6, <1>10, <1>11, <1>12, <1>13

\* Pop (script.cpp:150) reads an item as it was pushed, or fails where the script ends in it.
LEMMA PopReads ==
  ASSUME ScriptType, NEW item, ItemSound(item), PopNext,
         \A j \in 1..Len(Chunk(item)) : walk.pc + j <= Len(script) => script[walk.pc + j] = Chunk(item)[j]
  PROVE  walk' = Read(item)
<1> DEFINE pc == walk.pc
           c == Chunk(item)
           l == Len(script)
           op == item.op
           d == item.data
           left == IF walk.skips THEN 0 ELSE Len(d)
           failed == [walk EXCEPT !.at = "failed"]
<1>1. /\ script \in Seq(Byte) /\ l \in Nat /\ pc \in Nat /\ pc < l
      /\ c \in Seq(Byte) /\ Len(c) \in Nat \ {0} /\ c[1] = op
      /\ op \in Nat /\ d \in Seq(Byte) /\ PushData4 \in Nat
  <2>1. script \in Seq(Byte) /\ l \in Nat /\ pc \in Nat
    BY DEF ScriptType
  <2>2. pc < l
    BY DEF PopNext
  <2>3. c \in Seq(Byte) /\ Len(c) \in Nat \ {0} /\ c[1] = op
    BY ChunkFacts
  <2>4. op \in Nat /\ d \in Seq(Byte) /\ PushData4 \in Nat
    BY EncodingsAssumption, RadixFacts DEF ItemSound, PushedItems, Byte
  <2>5. QED  BY <2>1, <2>2, <2>3, <2>4
<1>2. \A j \in 1..Len(c) : pc + j <= l => script[pc + j] = c[j]
  OBVIOUS
<1>3. script[pc + 1] = op
  <2>1. 1 \in 1..Len(c) /\ pc + 1 <= l
    BY <1>1
  <2>2. QED  BY <1>1, <1>2, <2>1
<1>4. walk' = IF op = 0 \/ op > PushData4
              THEN [walk EXCEPT !.pc = @ + 1, !.popped = Append(@, Opcode(op))]
              ELSE PopData(op, pc + 1)
  BY <1>3 DEF PopNext
<1>5. CASE op = 0 \/ op > PushData4
  <2>1. c = <<op>> /\ d = <<>>
    BY <1>5 DEF Chunk, ItemSound
  <2>2. Len(c) = 1 /\ pc + 1 <= l /\ AsRead(item) = Opcode(op) /\ left = 0
    BY <1>1, <2>1 DEF AsRead, Opcode
  <2> HIDE DEF op
  <2>3. walk' = [walk EXCEPT !.pc = @ + 1, !.popped = Append(@, Opcode(op))]
    BY <1>4, <1>5
  <2> HIDE DEF c, l, pc, left
  <2>4. pc + Len(c) - left = pc + 1 /\ pc + Len(c) <= l
    BY <1>1, <2>2
  <2>5. walk' = [walk EXCEPT !.pc = pc + Len(c) - left, !.popped = Append(@, AsRead(item))]
    BY <2>2, <2>3, <2>4 DEF pc
  <2>6. QED  BY Zenon, <2>4, <2>5 DEF Read, c, l, pc, left, d
<1>6. CASE ~(op = 0 \/ op > PushData4)
  <2> DEFINE z == SizeBytes(Len(d))
             h == Len(z)
             n == Len(d)
             s == SizeIs(op, pc + 1)
  <2>1. op # 0 /\ op <= PushData4
    <3> HIDE DEF op
    <3>1. QED  BY <1>1, <1>6
  <2>2. Len(c) = h + n /\ \A j \in 1..n : c[h + j] = d[j]
    BY Zenon, <2>1, ChunkFacts
  <2>3. h \in Nat /\ n \in Nat
    <3>1. n \in 1..Power[4] - 1 /\ 4 \in 1..4
      BY <2>1 DEF ItemSound
    <3> HIDE DEF n
    <3>2. n \in 0..Power[4] - 1 /\ n \in Nat
      BY <3>1, FirstPowers
    <3>3. SizeBytes(n) \in Seq(Byte) /\ Len(SizeBytes(n)) \in Nat \ {0}
      BY <3>2, SizeForms
    <3>4. QED  BY <3>2, <3>3 DEF n
  <2>4. IF pc + h <= l THEN s.at = pc + h /\ s.size = n
        ELSE pc + 1 >= l \/ (s.at > l /\ s.size = 0 /\ s.at \in Nat)
    BY Zenon, <1>1, <1>2, <2>1, SizeRead
  <2>5. h >= 1
    <3>1. n \in 0..Power[4] - 1
      BY <2>1, FirstPowers DEF ItemSound
    <3> HIDE DEF n
    <3>2. Len(SizeBytes(n)) \in Nat \ {0}
      BY <3>1, SizeForms
    <3>3. QED  BY <3>2 DEF n
  <2>6. walk' = IF pc + 1 >= l \/ s.at + s.size > l THEN failed
                ELSE [walk EXCEPT !.pc = IF walk.skips THEN s.at + s.size ELSE s.at,
                        !.popped = Append(@, [op |-> op, data |-> SubSeq(script, s.at + 1, s.at + s.size)])]
    <3>1. walk' = PopData(op, pc + 1)
      BY Zenon, <1>4, <1>6
    <3>2. QED  BY Zenon, <3>1 DEF PopData
  <2>7. n >= 1
    BY <2>1 DEF ItemSound
  <2> DEFINE at == s.at
             size == s.size
  <2>8. CASE pc + Len(c) <= l
    <3>1. at = pc + h /\ size = n /\ at + size <= l /\ ~(at + size > l) /\ ~(pc + 1 >= l) /\ at \in Nat
      <4>1. pc + Len(c) <= l /\ Len(c) = h + n
        BY <2>2, <2>8
      <4> DEFINE lc == Len(c)
      <4> HIDE DEF c, h, n, l, pc, at, size, s
      <4>2. pc + h <= l /\ pc + h + n <= l /\ ~(pc + h + n > l) /\ ~(pc + 1 >= l) /\ pc + h \in Nat
        BY <1>1, <2>3, <2>5, <2>7, <4>1
      <4>3. at = pc + h /\ size = n
        BY <2>4, <4>2 DEF at, size
      <4>4. QED  BY <4>2, <4>3
    <3>2. SubSeq(script, at + 1, at + size) = d
      <4>1. \A j \in 1..Len(d) : script[at + j] = d[j]
        <5>1. ASSUME NEW j \in 1..n  PROVE script[at + j] = d[j]
          <6>1. h + j \in 1..Len(c) /\ at + j = pc + (h + j) /\ pc + (h + j) <= l
            <7> HIDE DEF c, h, n, l, pc, at, size, s
            <7>1. QED  BY <1>1, <2>2, <2>3, <3>1
          <6>2. script[pc + (h + j)] = c[h + j]
            BY <1>2, <6>1
          <6>3. c[h + j] = d[j]
            BY <2>2
          <6>4. QED  BY <6>1, <6>2, <6>3
        <5>2. QED  BY <5>1
      <4> HIDE DEF at, d
      <4>2. at + Len(d) <= Len(script)
        BY <3>1
      <4>3. SubSeq(script, at + 1, at + Len(d)) = d
        BY <1>1, <3>1, <4>1, <4>2, PieceIs
      <4>4. QED  BY <3>1, <4>3
    <3>3. walk' = [walk EXCEPT !.pc = IF walk.skips THEN at + size ELSE at,
                     !.popped = Append(@, [op |-> op, data |-> SubSeq(script, at + 1, at + size)])]
      BY Zenon, <2>6, <3>1
    <3>4. walk' = [walk EXCEPT !.pc = IF walk.skips THEN at + size ELSE at, !.popped = Append(@, AsRead(item))]
      BY Zenon, <3>2, <3>3 DEF AsRead
    <3>5. (IF walk.skips THEN at + size ELSE at) = pc + Len(c) - left
      <4>1. (walk.skips => left = 0) /\ (~walk.skips => left = n)
        OBVIOUS
      <4>2. at = pc + h /\ size = n /\ Len(c) = h + n /\ pc \in Nat /\ h \in Nat /\ n \in Nat
        BY <1>1, <2>2, <2>3, <3>1
      <4> HIDE DEF c, h, n, l, pc, at, size, s, left
      <4>3. CASE walk.skips
        BY <4>1, <4>2, <4>3
      <4>4. CASE ~walk.skips
        BY <4>1, <4>2, <4>4
      <4>5. QED  BY <4>3, <4>4
    <3>6. walk' = [walk EXCEPT !.pc = pc + Len(c) - left, !.popped = Append(@, AsRead(item))]
      BY Zenon, <3>4, <3>5
    <3>7. QED  BY Zenon, <2>8, <3>6 DEF Read
  <2>9. CASE ~(pc + Len(c) <= l)
    <3>1. pc + 1 >= l \/ at + size > l
      <4>1. ~(pc + Len(c) <= l) /\ Len(c) = h + n
        BY <2>2, <2>9
      <4>2. IF pc + h <= l THEN at = pc + h /\ size = n
            ELSE pc + 1 >= l \/ (at > l /\ size = 0 /\ at \in Nat)
        BY <2>4
      <4> HIDE DEF c, h, n, l, pc, at, size, s
      <4>3. QED  BY <1>1, <2>3, <4>1, <4>2
    <3>2. walk' = failed
      BY Zenon, <2>6, <3>1
    <3>3. QED  BY Zenon, <2>9, <3>2 DEF Read
  <2>10. QED  BY <2>8, <2>9
<1>7. QED  BY <1>5, <1>6

\* Whatever is there, Pop takes one item or fails, and leaves the iterator in the script.
LEMMA PopAnywhere ==
  ASSUME ScriptType, PopNext
  PROVE  /\ walk'.pc \in Nat /\ walk'.pc <= Len(script) /\ walk'.skips = walk.skips
         /\ walk' \in [at : {"writing", "reading", "failed", "stuck"}, pc : Nat,
                       popped : Seq([op : Byte, data : Seq(Byte)]), skips : BOOLEAN]
         /\ \/ walk'.popped = walk.popped
            \/ \E x \in [op : Byte, data : Seq(Byte)] : walk'.popped = Append(walk.popped, x)
<1> DEFINE pc == walk.pc
           l == Len(script)
           op == script[pc + 1]
           s == SizeIs(op, pc + 1)
           at == s.at
           size == s.size
           x == [op |-> op, data |-> SubSeq(script, at + 1, at + size)]
           to == IF walk.skips THEN at + size ELSE at
           Q == [op : Byte, data : Seq(Byte)]
           Walks == [at : {"writing", "reading", "failed", "stuck"}, pc : Nat, popped : Seq(Q), skips : BOOLEAN]
<1>1. /\ script \in Seq(Byte) /\ l \in Nat /\ pc \in Nat /\ pc < l /\ walk \in Walks
      /\ Radix \in Nat /\ Byte \subseteq Nat
  BY RadixFacts DEF ScriptType, PopNext, Byte
<1>2. op \in Byte /\ op \in Nat
  <2> HIDE DEF pc, Walks
  <2>1. pc + 1 \in 1..l
    BY <1>1
  <2>2. op \in Byte
    BY <1>1, <2>1
  <2> HIDE DEF op
  <2>3. QED  BY <1>1, <2>2
<1>3. walk' = IF op = 0 \/ op > PushData4
              THEN [walk EXCEPT !.pc = @ + 1, !.popped = Append(@, Opcode(op))]
              ELSE PopData(op, pc + 1)
  BY DEF PopNext
<1>4. Opcode(op) \in Q
  <2>1. <<>> \in Seq(Byte)
    OBVIOUS
  <2>2. QED  BY <1>2, <2>1 DEF Opcode
<1>5. at \in Nat /\ size \in Nat
  <2> HIDE DEF pc, Walks
  <2> DEFINE q == pc + 1
  <2>1. q \in Nat /\ q <= l
    BY <1>1
  <2>2. script \in Seq(Nat)
    <3>1. Seq(Byte) \subseteq Seq(Nat)
      BY <1>1, SeqMonotonic
    <3>2. QED  BY <1>1, <3>1
  <2>3. ASSUME NEW m \in {2, 4}, q + m <= l  PROVE Number(SubSeq(script, q + 1, q + m)) \in Nat
    <3>1. q + 1 \in 1..l + 1 /\ q + m \in q + 1 - 1..l
      BY <1>1, <2>1, <2>3
    <3>2. SubSeq(script, q + 1, q + m) \in Seq(Nat)
      BY <2>2, <3>1, SubSeqProperties
    <3>3. QED  BY <3>2, NumberSteps
  <2>4. q < l => script[q + 1] \in Nat
    <3>1. q < l => q + 1 \in 1..l
      BY <1>1, <2>1
    <3>2. QED  BY <2>2, <3>1
  <2>5. s = CASE op < PushData1 -> [at |-> q, size |-> op]
              [] op = PushData1 -> [at |-> q + 1, size |-> IF q < l THEN script[q + 1] ELSE 0]
              [] op = PushData2 /\ q + 2 <= l ->
                   [at |-> q + 2, size |-> Number(SubSeq(script, q + 1, q + 2))]
              [] op = PushData4 /\ q + 4 <= l ->
                   [at |-> q + 4, size |-> Number(SubSeq(script, q + 1, q + 4))]
              [] OTHER -> [at |-> l + 1, size |-> 0]
    BY DEF SizeIs
  <2> DEFINE two == Number(SubSeq(script, q + 1, q + 2))
             four == Number(SubSeq(script, q + 1, q + 4))
             one == IF q < l THEN script[q + 1] ELSE 0
  <2>8. (q + 2 <= l => two \in Nat) /\ (q + 4 <= l => four \in Nat) /\ one \in Nat
    BY <2>3, <2>4
  <2> DEFINE C1 == op < PushData1
             C2 == op = PushData1
             C3 == op = PushData2 /\ q + 2 <= l
             C4 == op = PushData4 /\ q + 4 <= l
  <2>9. s = CASE C1 -> [at |-> q, size |-> op]
              [] C2 -> [at |-> q + 1, size |-> one]
              [] C3 -> [at |-> q + 2, size |-> two]
              [] C4 -> [at |-> q + 4, size |-> four]
              [] OTHER -> [at |-> l + 1, size |-> 0]
    BY Zenon, <2>5
  <2>10. (C3 => two \in Nat) /\ (C4 => four \in Nat) /\ one \in Nat /\ op \in Nat
    BY <1>2, <2>8
  <2> HIDE DEF s, q, l, op, one, two, four, C1, C2, C3, C4
  <2>11. \/ s = [at |-> q, size |-> op]
         \/ s = [at |-> q + 1, size |-> one]
         \/ C3 /\ s = [at |-> q + 2, size |-> two]
         \/ C4 /\ s = [at |-> q + 4, size |-> four]
         \/ s = [at |-> l + 1, size |-> 0]
    <3>1. CASE C1
      BY <2>9, <3>1
    <3>2. CASE ~C1 /\ C2
      BY <2>9, <3>2
    <3>3. CASE ~C1 /\ ~C2 /\ C3
      BY <2>9, <3>3
    <3>4. CASE ~C1 /\ ~C2 /\ ~C3 /\ C4
      BY <2>9, <3>4
    <3>5. CASE ~C1 /\ ~C2 /\ ~C3 /\ ~C4
      BY <2>9, <3>5
    <3>6. QED  BY <3>1, <3>2, <3>3, <3>4, <3>5
  <2>12. q \in Nat /\ l \in Nat
    BY <1>1, <2>1
  <2>6. s.at \in Nat /\ s.size \in Nat
    BY <2>10, <2>11, <2>12
  <2>7. QED  BY <2>6
<1> HIDE DEF s, op
<1>6. CASE op = 0 \/ op > PushData4
  <2>1. walk' = [walk EXCEPT !.pc = @ + 1, !.popped = Append(@, Opcode(op))]
    BY <1>3, <1>6
  <2>2. walk'.pc = pc + 1 /\ walk'.skips = walk.skips /\ walk'.popped = Append(walk.popped, Opcode(op))
    BY <1>1, <2>1
  <2>3. Append(walk.popped, Opcode(op)) \in Seq(Q) /\ pc + 1 \in Nat /\ pc + 1 <= l
    BY <1>1, <1>4
  <2>4. walk' \in Walks
    BY <1>1, <2>1, <2>3
  <2>5. QED  BY <1>4, <2>2, <2>3, <2>4
<1>7. CASE ~(op = 0 \/ op > PushData4) /\ ~(pc + 1 >= l \/ at + size > l)
  <2>1. walk' = [walk EXCEPT !.pc = to, !.popped = Append(@, x)]
    BY Zenon, <1>3, <1>7 DEF PopData, s
  <2>2. x \in Q
    <3>1. at + 1 \in 1..l + 1 /\ at + size \in at + 1 - 1..l
      BY <1>1, <1>5, <1>7
    <3>2. SubSeq(script, at + 1, at + size) \in Seq(Byte)
      BY <1>1, <3>1, SubSeqProperties
    <3>3. QED  BY <1>2, <3>2
  <2>3. to \in Nat /\ to <= l
    BY <1>1, <1>5, <1>7
  <2> HIDE DEF x, to, Q
  <2>4. walk'.pc = to /\ walk'.skips = walk.skips /\ walk'.popped = Append(walk.popped, x)
    BY <1>1, <2>1
  <2>5. Append(walk.popped, x) \in Seq(Q)
    BY <1>1, <2>2
  <2>6. walk' \in Walks
    BY <1>1, <2>1, <2>3, <2>5
  <2>7. QED  BY <2>2, <2>3, <2>4, <2>6 DEF Q
<1>8. CASE ~(op = 0 \/ op > PushData4) /\ (pc + 1 >= l \/ at + size > l)
  <2>1. walk' = [walk EXCEPT !.at = "failed"]
    BY Zenon, <1>3, <1>8 DEF PopData, s
  <2>2. walk'.pc = pc /\ walk'.skips = walk.skips /\ walk'.popped = walk.popped
    BY <1>1, <2>1
  <2>3. walk' \in Walks
    BY <1>1, <2>1
  <2>4. QED  BY <1>1, <2>2, <2>3
<1>9. QED  BY <1>6, <1>7, <1>8

\* So reading keeps the invariant.
LEMMA PopKeeps ==
  ASSUME ScriptIInv, PopNext
  PROVE  ScriptIInv'
<1>1. PICK ends : EndsAt(ends) /\ WrittenIn(ends) /\ ReadIn(ends)
  BY DEF ScriptIInv
<1> DEFINE k == Len(walk.popped)
           n == Len(pushed)
           l == Len(script)
           Q == [op : Byte, data : Seq(Byte)]
           After(i) == walk'.skips \/ \A j \in 1..i : walk'.popped[j].data = <<>>
<1>2. /\ ScriptType /\ \A i \in 1..n : ItemSound(pushed[i])
  BY DEF ScriptIInv
<1>3. /\ walk \in [at : {"writing", "reading", "failed", "stuck"}, pc : Nat,
                   popped : Seq([op : Byte, data : Seq(Byte)]), skips : BOOLEAN]
      /\ walk.popped \in Seq(Q)
      /\ k \in Nat /\ n \in Nat /\ l \in Nat
  BY <1>2 DEF ScriptType
<1>4. walk.at = "reading" /\ walk.pc < l /\ script' = script /\ pushed' = pushed
  BY DEF PopNext
<1>5. /\ walk'.pc \in Nat /\ walk'.pc <= l /\ walk'.skips = walk.skips
      /\ walk' \in [at : {"writing", "reading", "failed", "stuck"}, pc : Nat,
                    popped : Seq([op : Byte, data : Seq(Byte)]), skips : BOOLEAN]
      /\ \/ walk'.popped = walk.popped
         \/ \E x \in Q : walk'.popped = Append(walk.popped, x)
  BY <1>2, PopAnywhere
<1>6. /\ k <= Len(walk'.popped) /\ Len(walk'.popped) \in {k, k + 1}
      /\ \A i \in 1..k : walk'.popped[i] = walk.popped[i]
      /\ Len(walk'.popped) = k => walk'.popped = walk.popped
  <2>1. CASE walk'.popped = walk.popped
    BY <1>3, <2>1
  <2>2. CASE \E x \in Q : walk'.popped = Append(walk.popped, x)
    <3>1. PICK x \in Q : walk'.popped = Append(walk.popped, x)
      BY <2>2
    <3> DEFINE w == walk.popped
    <3>2. w \in Seq(Q)
      BY <1>3
    <3> HIDE DEF Q, w
    <3>3. Len(Append(w, x)) = Len(w) + 1 /\ \A i \in 1..Len(w) : Append(w, x)[i] = w[i]
      BY <3>2
    <3>4. Len(w) \in Nat
      BY <3>2
    <3>5. QED  BY <3>1, <3>3, <3>4 DEF w
  <2>3. QED  BY <1>5, <2>1, <2>2
\* What was in step before the last item is what is.
<1>7. \A i \in 0..k : After(i) <=> InStep(i)
  <2>1. ASSUME NEW i \in 0..k  PROVE After(i) <=> InStep(i)
    <3>1. \A j \in 1..i : walk'.popped[j] = walk.popped[j]
      <4>1. \A j \in 1..i : j \in 1..k
        BY <1>3
      <4>2. QED  BY <1>6, <4>1
    <3>2. walk'.skips = walk.skips
      BY <1>5
    <3>3. QED  BY Zenon, <3>1, <3>2 DEF InStep
  <2>2. QED  BY <2>1
<1>8. \A i \in 1..k : After(i - 1) => i <= n /\ walk'.popped[i] = AsRead(pushed[i])
  <2>1. ASSUME NEW i \in 1..k, After(i - 1)  PROVE i <= n /\ walk'.popped[i] = AsRead(pushed[i])
    <3>1. i - 1 \in 0..k
      BY <1>3
    <3>2. InStep(i - 1)
      BY <1>7, <2>1, <3>1
    <3>3. QED  BY <1>1, <1>6, <3>2 DEF ReadIn
  <2>2. QED  BY <2>1
<1>9. EndsAt(ends)' /\ WrittenIn(ends)'
  <2>1. walk'.at # "writing"
    <3>1. walk'.at \in {"reading", "failed"}
      BY <1>3, <1>4 DEF PopNext, PopData
    <3>2. QED  BY <3>1
  <2>2. QED  BY <1>1, <1>4, <2>1 DEF EndsAt, WrittenIn
<1>10. ScriptType' /\ (\A i \in 1..Len(pushed) : ItemSound(pushed[i]))'
  BY <1>2, <1>4, <1>5 DEF ScriptType, ItemSound
<1>11. ASSUME /\ Len(walk'.popped) = k + 1 /\ InStep(k) => k + 1 <= n /\ walk'.popped[k + 1] = AsRead(pushed[k + 1])
              /\ After(Len(walk'.popped)) =>
                   /\ Len(walk'.popped) <= n /\ walk'.pc = ends[Len(walk'.popped)]
                   /\ walk'.at = "failed" => Len(walk'.popped) < n
       PROVE  ScriptIInv'
  <2>1. \A i \in 1..Len(walk'.popped) :
          After(i - 1) => i <= n /\ walk'.popped[i] = AsRead(pushed[i])
    <3>1. ASSUME NEW i \in 1..Len(walk'.popped), After(i - 1)
          PROVE  i <= n /\ walk'.popped[i] = AsRead(pushed[i])
      <4>1. CASE i \in 1..k
        BY <1>8, <3>1, <4>1
      <4>2. CASE i \notin 1..k
        <5>1. Len(walk'.popped) = k + 1 /\ i = k + 1 /\ i - 1 = k /\ k \in 0..k
          BY <1>3, <1>6, <4>2
        <5>2. InStep(k)
          BY <1>7, <3>1, <5>1
        <5>3. QED  BY <1>11, <5>1, <5>2
      <4>3. QED  BY <4>1, <4>2
    <3>2. QED  BY <3>1
  <2>2. ReadIn(ends)'
    <3>1. \A i : InStep(i)' <=> After(i)
      BY Zenon DEF InStep
    <3> HIDE DEF After
    <3>2. InStep(Len(walk.popped))' <=> After(Len(walk'.popped))
      BY Zenon DEF InStep, After
    <3>3. \A i \in 1..Len(walk'.popped) : InStep(i - 1)' <=> After(i - 1)
      BY <3>1
    <3>4. QED  BY <1>4, <1>5, <1>11, <2>1, <3>2, <3>3 DEF ReadIn
  <2>3. QED  BY <1>9, <1>10, <2>2 DEF ScriptIInv
\* Out of step it stays out of step.
<1>12. CASE ~InStep(k)
  <2>1. ~After(Len(walk'.popped))
    <3>1. k \in 0..k
      BY <1>3
    <3>2. ~After(k)
      BY <1>7, <1>12, <3>1
    <3>3. ~walk'.skips /\ \E j \in 1..k : walk'.popped[j].data # <<>>
      BY <3>2
    <3>4. \A j \in 1..k : j \in 1..Len(walk'.popped)
      BY <1>3, <1>6
    <3>5. QED  BY <3>3, <3>4
  <2>2. QED  BY <1>11, <1>12, <2>1
\* In step it reads the next item.
<1>13. CASE InStep(k)
  <2> DEFINE item == pushed[k + 1]
             c == Chunk(item)
             left == IF walk.skips THEN 0 ELSE Len(item.data)
  <2>1. /\ ends \in [0..n -> Nat] /\ \A i \in 1..n : ends[i] = ends[i - 1] + Len(Chunk(pushed[i]))
        /\ l <= ends[n] /\ walk.pc = ends[k] /\ k <= n
    BY <1>1, <1>13 DEF EndsAt, WrittenIn, ReadIn
  <2>2. k < n /\ k + 1 \in 1..n /\ k \in 0..n /\ k + 1 - 1 = k
    <3>1. k # n
      <4>1. SUFFICES ASSUME k = n  PROVE FALSE
        OBVIOUS
      <4>2. walk.pc < l /\ l <= walk.pc /\ walk.pc \in Nat
        BY <1>3, <1>4, <2>1, <4>1
      <4> HIDE DEF l
      <4>3. QED  BY <1>3, <4>2
    <3> HIDE DEF k, n
    <3>2. QED  BY <1>3, <2>1, <3>1
  <2>3. ItemSound(item)
    BY <1>2, <2>2
  <2>4. c \in Seq(Byte) /\ Len(c) \in Nat \ {0} /\ ends[k] \in Nat
    BY <2>1, <2>2, <2>3, ChunkFacts
  <2>5. \A j \in 1..Len(c) : ends[k] + j <= l => script[ends[k] + j] = c[j]
    <3>1. \A j \in 1..Len(Chunk(pushed[k + 1])) :
            ends[k + 1 - 1] + j <= l => script[ends[k + 1 - 1] + j] = Chunk(pushed[k + 1])[j]
      <4>1. \A i \in 1..n : \A j \in 1..Len(Chunk(pushed[i])) :
              ends[i - 1] + j <= l => script[ends[i - 1] + j] = Chunk(pushed[i])[j]
        BY <1>1 DEF WrittenIn
      <4>2. ASSUME NEW i \in 1..n, NEW j \in 1..Len(Chunk(pushed[i])), ends[i - 1] + j <= l
            PROVE  script[ends[i - 1] + j] = Chunk(pushed[i])[j]
        BY <4>1, <4>2, Zenon
      <4> HIDE DEF n, l
      <4>3. QED  BY <2>2, <4>2
    <3>2. QED  BY <2>2, <3>1
  <2>6. walk' = Read(item)
    <3>1. \A j \in 1..Len(Chunk(item)) : walk.pc + j <= Len(script) => script[walk.pc + j] = Chunk(item)[j]
      BY <2>1, <2>5
    <3> HIDE DEF item
    <3>2. QED  BY <1>2, <2>3, <3>1, PopReads
  <2>7. ends[k + 1] = ends[k] + Len(c)
    BY <2>1, <2>2
  <2>8. AsRead(item) \in Q
    BY <2>3 DEF ItemSound, PushedItems, AsRead
  <2>9. CASE walk.pc + Len(c) <= l
    <3> DEFINE x == AsRead(item)
               to == walk.pc + Len(c) - left
    <3>1. walk' = [walk EXCEPT !.pc = to, !.popped = Append(@, x)]
      BY Zenon, <2>6, <2>9 DEF Read
    <3>2. x \in Q /\ x.data = item.data
      BY <2>8 DEF AsRead
    <3>3. Len(item.data) = 0 => item.data = <<>>
      BY <2>3 DEF ItemSound, PushedItems
    <3> HIDE DEF x, to, Q
    <3>4. walk'.pc = to /\ walk'.popped = Append(walk.popped, x) /\ walk'.at = "reading" /\ walk'.skips = walk.skips
      BY <1>3, <1>4, <3>1
    <3>5. Len(walk'.popped) = k + 1 /\ walk'.popped[k + 1] = x
      BY <1>3, <3>2, <3>4
    <3>6. After(k + 1) => left = 0
      <4>1. SUFFICES ASSUME After(k + 1), ~walk.skips  PROVE Len(item.data) = 0
        OBVIOUS
      <4>2. k + 1 \in 1..k + 1
        BY <1>3
      <4>3. walk'.popped[k + 1].data = <<>>
        BY <3>4, <4>1, <4>2
      <4>4. QED  BY <3>2, <3>5, <4>3
    <3>7. left = 0 => to = ends[k + 1]
      <4> HIDE DEF left, c
      <4>1. QED  BY <2>1, <2>4, <2>7 DEF to
    <3>8. k + 1 <= n
      BY <2>2
    <3>9. QED  BY <1>11, <3>4, <3>5, <3>6, <3>7, <3>8 DEF x
  <2>10. CASE ~(walk.pc + Len(c) <= l)
    <3>1. walk' = [walk EXCEPT !.at = "failed"]
      BY <2>6, <2>10 DEF Read
    <3>2. walk'.at = "failed" /\ walk'.pc = walk.pc /\ walk'.popped = walk.popped
      BY <1>3, <3>1
    <3>3. Len(walk'.popped) = k /\ k # k + 1
      BY <1>3, <3>2
    <3>4. QED  BY <1>11, <2>1, <2>2, <3>2, <3>3
  <2>11. QED  BY <2>9, <2>10
<1>14. QED  BY <1>12, <1>13

\* An encoder of what cannot end leaves all else as it is.
LEMMA StuckKeeps ==
  ASSUME ScriptIInv, NEW n, NeverPushed(n)
  PROVE  ScriptIInv'
<1>1. PICK ends : EndsAt(ends) /\ WrittenIn(ends) /\ ReadIn(ends)
  BY DEF ScriptIInv
<1>2. /\ ScriptType /\ \A i \in 1..Len(pushed) : ItemSound(pushed[i])
  BY DEF ScriptIInv
<1>3. script' = script /\ pushed' = pushed /\ walk' = [walk EXCEPT !.at = "stuck"]
  BY DEF NeverPushed
<1>4. /\ walk \in [at : {"writing", "reading", "failed", "stuck"}, pc : Nat,
                   popped : Seq([op : Byte, data : Seq(Byte)]), skips : BOOLEAN]
  BY <1>2 DEF ScriptType
<1>5. /\ walk'.at = "stuck" /\ walk'.pc = walk.pc /\ walk'.popped = walk.popped /\ walk'.skips = walk.skips
      /\ walk' \in [at : {"writing", "reading", "failed", "stuck"}, pc : Nat,
                    popped : Seq([op : Byte, data : Seq(Byte)]), skips : BOOLEAN]
  BY <1>3, <1>4
<1>6. EndsAt(ends)' /\ WrittenIn(ends)' /\ ReadIn(ends)'
  BY <1>1, <1>3, <1>5 DEF EndsAt, WrittenIn, ReadIn, InStep
<1>7. ScriptType' /\ (\A i \in 1..Len(pushed) : ItemSound(pushed[i]))'
  BY <1>2, <1>3, <1>5 DEF ScriptType, ItemSound
<1>8. QED  BY <1>6, <1>7 DEF ScriptIInv

\* A script begins empty.
LEMMA ScriptBegins == EncodingsInit => ScriptIInv
<1>1. SUFFICES ASSUME EncodingsInit  PROVE ScriptIInv
  OBVIOUS
<1>2. script = <<>> /\ pushed = <<>> /\ walk = [at |-> "writing", pc |-> 0, popped |-> <<>>, skips |-> FALSE]
  BY <1>1 DEF EncodingsInit
<1> DEFINE ends == [i \in 0..0 |-> 0]
<1>3. Len(script) = 0 /\ Len(pushed) = 0 /\ walk.popped = <<>> /\ walk.pc = 0 /\ walk.at = "writing"
      /\ Len(walk.popped) = 0
  BY <1>2
<1>4. ends \in [0..0 -> Nat] /\ ends[0] = 0
  OBVIOUS
<1> HIDE DEF ends
<1>5. EndsAt(ends)
  BY <1>3, <1>4 DEF EndsAt
<1>6. WrittenIn(ends)
  BY <1>3, <1>4 DEF WrittenIn
<1>7. ReadIn(ends)
  BY <1>3, <1>4 DEF ReadIn
<1>8. ScriptType
  <2>1. walk \in [at : {"writing", "reading", "failed", "stuck"}, pc : Nat,
                  popped : Seq([op : Byte, data : Seq(Byte)]), skips : BOOLEAN]
    BY <1>2
  <2>2. script \in Seq(Byte) /\ pushed \in Seq(PushedItems)
    BY <1>2
  <2>3. QED  BY <2>1, <2>2 DEF ScriptType
<1>9. QED  BY <1>3, <1>5, <1>6, <1>7, <1>8 DEF ScriptIInv

\* What is left alone stays as it is.
LEMMA ScriptStays ==
  ASSUME ScriptIInv, UNCHANGED <<script, pushed, walk>>
  PROVE  ScriptIInv'
<1>1. PICK ends : EndsAt(ends) /\ WrittenIn(ends) /\ ReadIn(ends)
  BY DEF ScriptIInv
<1>2. /\ ScriptType /\ \A i \in 1..Len(pushed) : ItemSound(pushed[i])
  BY DEF ScriptIInv
<1>3. EndsAt(ends)' /\ WrittenIn(ends)' /\ ReadIn(ends)'
  BY <1>1 DEF EndsAt, WrittenIn, ReadIn, InStep
<1>4. ScriptType' /\ (\A i \in 1..Len(pushed) : ItemSound(pushed[i]))'
  BY <1>2 DEF ScriptType, ItemSound
<1>5. QED  BY <1>3, <1>4 DEF ScriptIInv

\* Every step keeps the invariant of the script.
LEMMA ScriptKept ==
  ASSUME ScriptIInv, [EncodingsNext]_encodingState
  PROVE  ScriptIInv'
<1>1. ASSUME NEW n \in Numbers, PushNumber(n) \/ PushScriptInt(n)  PROVE ScriptIInv'
  BY <1>1, PushesAreSound, PushedKeeps
<1>2. ASSUME NEW n \in Numbers, NeverPushed(n)  PROVE ScriptIInv'
  BY <1>2, StuckKeeps
<1>3. ASSUME NEW b \in Data, PushData(b)  PROVE ScriptIInv'
  BY <1>3, PushesAreSound, PushedKeeps
<1>4. ASSUME NEW op \in OtherOpcodes, PushOpcode(op)  PROVE ScriptIInv'
  BY <1>4, PushesAreSound, PushedKeeps
<1>5. ASSUME Received  PROVE ScriptIInv'
  BY <1>5, ReceivedKeeps
<1>6. ASSUME PopNext  PROVE ScriptIInv'
  BY <1>6, PopKeeps
<1>7. ASSUME NEW bits \in Bits, FromBits(bits)  PROVE ScriptIInv'
  <2>1. UNCHANGED <<script, pushed, walk>>
    BY <1>7 DEF FromBits
  <2>2. QED  BY <2>1, ScriptStays
<1>8. ASSUME NEW n \in Targets, FromNormal(n)  PROVE ScriptIInv'
  <2>1. UNCHANGED <<script, pushed, walk>>
    BY <1>8 DEF FromNormal
  <2>2. QED  BY <2>1, ScriptStays
<1>9. ASSUME SetTransactions  PROVE ScriptIInv'
  <2>1. UNCHANGED <<script, pushed, walk>>
    BY <1>9 DEF SetTransactions
  <2>2. QED  BY <2>1, ScriptStays
<1>10. ASSUME UNCHANGED encodingState  PROVE ScriptIInv'
  <2>1. UNCHANGED <<script, pushed, walk>>
    BY <1>10 DEF encodingState
  <2>2. QED  BY <2>1, ScriptStays
<1>11. QED
  BY <1>1, <1>2, <1>3, <1>4, <1>5, <1>6, <1>7, <1>8, <1>9, <1>10 DEF EncodingsNext

\* The invariant is what it was made for.
LEMMA ScriptIsReadBack == ScriptIInv => ScriptReadsBack
<1>1. SUFFICES ASSUME ScriptIInv  PROVE ScriptReadsBack
  OBVIOUS
<1>2. PICK ends : ReadIn(ends)
  BY <1>1 DEF ScriptIInv
<1>3. /\ ScriptType /\ \A i \in 1..Len(pushed) : ItemSound(pushed[i])
  BY <1>1 DEF ScriptIInv
<1>4. LET n == Len(walk.popped)
      IN /\ \A i \in 1..n :
              InStep(i - 1) => i <= Len(pushed) /\ walk.popped[i] = AsRead(pushed[i])
         /\ walk.at = "failed" /\ InStep(n) => n < Len(pushed)
         /\ walk.pc <= Len(script)
  BY <1>2 DEF ReadIn
<1>5. DOMAIN pushed = 1..Len(pushed) /\ DOMAIN walk.popped = 1..Len(walk.popped)
      /\ \A i \in 1..Len(walk.popped) : walk.popped[i].data \in Seq(0..Radix - 1)
  <2>1. pushed \in Seq(PushedItems) /\ walk.popped \in Seq([op : Byte, data : Seq(Byte)])
    BY <1>3 DEF ScriptType
  <2>2. \A i \in 1..Len(walk.popped) : walk.popped[i] \in [op : Byte, data : Seq(Byte)]
    <3> DEFINE w == walk.popped
               Q == [op : Byte, data : Seq(Byte)]
    <3>1. w \in Seq(Q)
      BY <2>1
    <3> HIDE DEF w, Q
    <3>2. \A i \in 1..Len(w) : w[i] \in Q
      BY <3>1
    <3>3. QED  BY <3>2 DEF w, Q
  <2>3. \A i \in 1..Len(walk.popped) : walk.popped[i].data \in Seq(0..Radix - 1)
    BY <2>2 DEF Byte
  <2>4. QED  BY <2>1, <2>3
<1>6. ASSUME NEW i \in DOMAIN pushed, pushed[i].n \in 1..IntMax
      PROVE  LET b == pushed[i].data
             IN ~Refused(b, TRUE) /\ ScriptInt(b) = pushed[i].n /\ IntValue(ScriptInt(b)) = pushed[i].n
  <2>1. pushed[i].data = BytesEncoding(pushed[i].n)
    BY <1>3, <1>5, <1>6 DEF ItemSound
  <2>2. QED  BY <1>6, <2>1, NumberReadsBack
<1>7. ASSUME NEW i \in DOMAIN walk.popped
      PROVE  LET b == walk.popped[i].data
             IN ~Refused(b, FALSE) =>
                  ScriptInt(b) = Meant(b) + (IF Len(b) = IntBytes /\ Last(b) >= SignBit
                                             THEN Power[IntBytes] ELSE 0)
  <2>1. walk.popped[i].data \in Seq(0..Radix - 1)
    BY <1>5
  <2>2. QED  BY <2>1, BytesMean
<1>8. QED  BY Zenon, <1>4, <1>6, <1>7 DEF ScriptReadsBack

-----------------------------------------------------------------------------
(* The root of the transactions. *)

\* A list of so many cells.
Listed(s, n) == n \in Nat /\ s = [i \in 1..n |-> s[i]]

\* Its length is what it looks like.
LEMMA ListLength ==
  ASSUME NEW s, NEW n, Listed(s, n)
  PROVE  Len(s) = n /\ s \in Seq({s[i] : i \in 1..n})
<1> DEFINE S == {s[i] : i \in 1..n}
<1>1. n \in Nat /\ s \in [1..n -> S]
  BY DEF Listed
<1> HIDE DEF S
<1>2. s \in Seq(S) /\ Len(s) = n
  BY <1>1
<1>3. QED  BY <1>2 DEF S

\* A round makes a list half as long.
LEMMA RoundShrinks ==
  ASSUME NEW s, NEW n \in Nat \ {0}, Listed(s, n)
  PROVE  \E m \in Nat \ {0} : /\ Listed(Round(s), m)
                              /\ m = IF n > 1 THEN (n + 1) \div 2 ELSE n
                              /\ n > 1 => m < n
<1>1. Len(s) = n
  BY ListLength
<1>2. CASE n > 1
  <2> DEFINE m == (n + 1) \div 2
             x(i) == <<s[2 * i - 1], IF 2 * i <= n THEN s[2 * i] ELSE s[2 * i - 1]>>
  <2>1. m \in Nat \ {0} /\ m < n
    BY <1>2
  <2>2. Round(s) = [i \in 1..m |-> x(i)]
    BY <1>1, <1>2 DEF Round, Paired
  <2> HIDE DEF x, m
  <2>3. Listed(Round(s), m)
    BY <2>1, <2>2 DEF Listed
  <2>4. QED  BY <1>2, <2>1, <2>3 DEF m
<1>3. CASE ~(n > 1)
  BY <1>1, <1>3 DEF Round
<1>4. QED  BY <1>2, <1>3

\* No two lists of one length become the same in a round.
LEMMA RoundTellsApart ==
  ASSUME NEW s, NEW t, NEW n \in Nat \ {0}, Listed(s, n), Listed(t, n), Round(s) = Round(t)
  PROVE  s = t
<1>1. Len(s) = n /\ Len(t) = n
  BY ListLength
<1>2. CASE n > 1
  <2> DEFINE m == (n + 1) \div 2
             x(u, i) == <<u[2 * i - 1], IF 2 * i <= n THEN u[2 * i] ELSE u[2 * i - 1]>>
  <2>1. Round(s) = [i \in 1..m |-> x(s, i)] /\ Round(t) = [i \in 1..m |-> x(t, i)]
    BY <1>1, <1>2 DEF Round, Paired
  <2>2. \A i \in 1..m : x(s, i) = x(t, i)
    <3> HIDE DEF x, m
    <3>1. QED  BY <2>1
  <2>3. ASSUME NEW i \in 1..m
        PROVE  s[2 * i - 1] = t[2 * i - 1] /\ (2 * i <= n => s[2 * i] = t[2 * i])
    <3>1. x(s, i) = x(t, i)
      BY <2>2
    <3>2. QED  BY <3>1
  <2>4. ASSUME NEW k \in 1..n  PROVE s[k] = t[k]
    <3>1. PICK i \in 1..m : k = 2 * i - 1 \/ k = 2 * i
      <4> DEFINE j == (k + 1) \div 2
      <4>1. j \in 1..m /\ (k = 2 * j - 1 \/ k = 2 * j)
        OBVIOUS
      <4>2. QED  BY <4>1
    <3>2. QED  BY <2>3, <3>1
  <2>5. QED  BY <2>4 DEF Listed
<1>3. CASE ~(n > 1)
  BY <1>1, <1>3 DEF Round
<1>4. QED  BY <1>2, <1>3

\* The levels of the tree: a function that the loop of ComputeMerkleRoot (block.cpp:234) is.
Levels(leaves) == CHOOSE g : g = [k \in Nat |-> IF k = 0 THEN leaves ELSE Round(g[k - 1])]

\* Each level comes of the one below by one round, the root is in the last.
LEMMA LevelSteps ==
  ASSUME NEW leaves
  PROVE  /\ ComputeMerkleRoot(leaves) = Levels(leaves)[Len(leaves)][1]
         /\ Levels(leaves)[0] = leaves
         /\ \A k \in Nat : Levels(leaves)[k + 1] = Round(Levels(leaves)[k])
<1> DEFINE F(g) == [k \in Nat |-> IF k = 0 THEN leaves ELSE Round(g[k - 1])]
           Good(g, n) == \A k \in 0..n : g[k] = IF k = 0 THEN leaves ELSE Round(g[k - 1])
           T == {n \in Nat : \E g : Good(g, n)}
<1>1. \A n \in Nat : \E g : Good(g, n)
  <2>1. 0 \in T
    <3> DEFINE g == [k \in 0..0 |-> leaves]
    <3>1. Good(g, 0)
      OBVIOUS
    <3>2. QED  BY <3>1
  <2>2. ASSUME NEW n \in T  PROVE n + 1 \in T
    <3>1. PICK g : Good(g, n)
      OBVIOUS
    <3> DEFINE h == [k \in 0..n + 1 |-> IF k = n + 1 THEN Round(g[n]) ELSE g[k]]
    <3>2. Good(h, n + 1)
      <4>1. ASSUME NEW k \in 0..n + 1  PROVE h[k] = IF k = 0 THEN leaves ELSE Round(h[k - 1])
        <5>1. CASE k = n + 1
          <6>1. k - 1 = n /\ n \in 0..n + 1 /\ n # n + 1 /\ k # 0
            BY <5>1
          <6>2. QED  BY <5>1, <6>1
        <5>2. CASE k # n + 1
          <6>1. k \in 0..n /\ (k # 0 => k - 1 \in 0..n + 1 /\ k - 1 # n + 1)
            BY <5>2
          <6>2. h[k] = g[k] /\ (k # 0 => h[k - 1] = g[k - 1])
            BY <5>2, <6>1
          <6> HIDE DEF h
          <6>3. QED  BY <3>1, <6>1, <6>2
        <5>3. QED  BY <5>1, <5>2
      <4> HIDE DEF h
      <4>2. QED  BY <4>1
    <3> HIDE DEF Good, h
    <3>3. QED  BY <3>2
  <2>3. T = Nat
    <3>1. T \subseteq Nat
      OBVIOUS
    <3> HIDE DEF T
    <3>2. QED  BY <2>1, <2>2, <3>1, NatSetInduction
  <2>4. \A n \in Nat : n \in T
    <3> HIDE DEF T
    <3>1. QED  BY <2>3
  <2> HIDE DEF Good
  <2>5. QED  BY <2>4
<1>2. ASSUME NEW g, NEW n \in Nat, Good(g, n), NEW h, NEW m \in Nat, Good(h, m), NEW j \in Nat, j <= n, j <= m
      PROVE  g[j] = h[j]
  <2> DEFINE U == {i \in Nat : i <= n /\ i <= m => g[i] = h[i]}
  <2>1. 0 \in U
    BY <1>2
  <2>2. ASSUME NEW i \in U  PROVE i + 1 \in U
    <3>1. SUFFICES ASSUME i + 1 <= n, i + 1 <= m  PROVE g[i + 1] = h[i + 1]
      OBVIOUS
    <3>2. i + 1 \in 0..n /\ i + 1 \in 0..m /\ i + 1 # 0 /\ i + 1 - 1 = i /\ g[i] = h[i]
      BY <3>1
    <3>3. g[i + 1] = Round(g[i]) /\ h[i + 1] = Round(h[i])
      BY <1>2, <3>2
    <3>4. QED  BY <3>2, <3>3
  <2>3. U = Nat
    <3>1. U \subseteq Nat
      OBVIOUS
    <3> HIDE DEF U
    <3>2. QED  BY <2>1, <2>2, <3>1, NatSetInduction
  <2>4. j \in U
    <3> HIDE DEF U
    <3>1. QED  BY <2>3
  <2>5. QED  BY <1>2, <2>4
<1> DEFINE G(n) == CHOOSE g : Good(g, n)
           f == [k \in Nat |-> G(k)[k]]
<1>3. \A n \in Nat : Good(G(n), n)
  <2>1. ASSUME NEW n \in Nat  PROVE Good(G(n), n)
    <3>1. \E g : Good(g, n)
      BY <1>1
    <3> HIDE DEF Good
    <3>2. QED  BY Zenon, <3>1
  <2>2. QED  BY <2>1
<1>4. ASSUME NEW k \in Nat  PROVE f[k] = IF k = 0 THEN leaves ELSE Round(f[k - 1])
  <2>1. G(k)[k] = IF k = 0 THEN leaves ELSE Round(G(k)[k - 1])
    <3>1. k \in 0..k
      OBVIOUS
    <3> HIDE DEF G
    <3>2. QED  BY <1>3, <3>1
  <2>2. ASSUME k # 0  PROVE G(k)[k - 1] = G(k - 1)[k - 1]
    <3>1. k - 1 \in Nat /\ k - 1 <= k /\ k - 1 <= k - 1
      BY <2>2
    <3>2. Good(G(k), k) /\ Good(G(k - 1), k - 1)
      BY <1>3, <3>1
    <3> HIDE DEF Good, G
    <3>3. QED  BY <1>2, <3>1, <3>2
  <2>3. k # 0 => k - 1 \in Nat
    OBVIOUS
  <2> HIDE DEF G
  <2>4. QED  BY <2>1, <2>2, <2>3
<1>5. f = F(f)
  <2>1. f = [k \in Nat |-> f[k]]
    OBVIOUS
  <2> HIDE DEF f
  <2>2. QED  BY <1>4, <2>1
<1> DEFINE L == Levels(leaves)
<1>6. L = F(L)
  <2>1. \E g : g = F(g)
    BY <1>5
  <2>2. QED  BY Zenon, <2>1 DEF Levels
<1>7. ComputeMerkleRoot(leaves) = L[Len(leaves)][1]
  BY Zenon DEF ComputeMerkleRoot, Levels
<1> HIDE DEF L
<1>8. \A k \in Nat : L[k] = IF k = 0 THEN leaves ELSE Round(L[k - 1])
  BY <1>6
<1>9. L[0] = leaves /\ \A k \in Nat : L[k + 1] = Round(L[k])
  <2>1. \A k \in Nat : k + 1 \in Nat /\ k + 1 # 0 /\ k + 1 - 1 = k
    OBVIOUS
  <2>2. QED  BY <1>8, <2>1
<1>10. QED  BY <1>7, <1>9 DEF L

\* The root tells apart lists of one length: the levels shrink to one cell, and from equal
\* cells there the lists are equal back to the leaves.
LEMMA RootTellsApart ==
  ASSUME NEW s, NEW t, NEW n \in Nat \ {0}, Listed(s, n), Listed(t, n),
         ComputeMerkleRoot(s) = ComputeMerkleRoot(t)
  PROVE  s = t
<1> DEFINE S == Levels(s)
           R == Levels(t)
           Alike(k) == \E m \in Nat \ {0} : Listed(S[k], m) /\ Listed(R[k], m) /\ (m = 1 \/ m + k <= n)
           T == {k \in Nat : Alike(k)}
           U == {k \in Nat : S[k] = R[k] => S[0] = R[0]}
<1>1. /\ S[0] = s /\ \A k \in Nat : S[k + 1] = Round(S[k])
      /\ R[0] = t /\ \A k \in Nat : R[k + 1] = Round(R[k])
      /\ ComputeMerkleRoot(s) = S[Len(s)][1] /\ ComputeMerkleRoot(t) = R[Len(t)][1]
  BY LevelSteps
<1> HIDE DEF S, R
<1>2. Len(s) = n /\ Len(t) = n
  BY ListLength
<1>3. 0 \in T
  <2>1. n + 0 <= n
    OBVIOUS
  <2>2. QED  BY <1>1, <2>1
<1>4. ASSUME NEW k \in T  PROVE k + 1 \in T
  <2>1. PICK m \in Nat \ {0} : Listed(S[k], m) /\ Listed(R[k], m) /\ (m = 1 \/ m + k <= n)
    OBVIOUS
  <2>2. PICK i \in Nat \ {0} : /\ Listed(Round(S[k]), i) /\ i = (IF m > 1 THEN (m + 1) \div 2 ELSE m)
                               /\ m > 1 => i < m
    BY <2>1, RoundShrinks
  <2>3. PICK j \in Nat \ {0} : /\ Listed(Round(R[k]), j) /\ j = (IF m > 1 THEN (m + 1) \div 2 ELSE m)
                               /\ m > 1 => j < m
    BY <2>1, RoundShrinks
  <2>4. i = j
    BY <2>2, <2>3
  <2>5. i = 1 \/ i + (k + 1) <= n
    <3>1. CASE m > 1
      BY <2>1, <2>2, <3>1
    <3>2. CASE ~(m > 1)
      BY <2>1, <2>2, <3>2
    <3>3. QED  BY <3>1, <3>2
  <2>6. Listed(S[k + 1], i) /\ Listed(R[k + 1], i)
    BY <1>1, <2>2, <2>3, <2>4
  <2>7. k + 1 \in Nat /\ Alike(k + 1)
    BY <2>5, <2>6
  <2> HIDE DEF Alike
  <2>8. QED  BY <2>7
<1>5. T = Nat
  <2>1. T \subseteq Nat
    OBVIOUS
  <2> HIDE DEF T
  <2>2. QED  BY <1>3, <1>4, <2>1, NatSetInduction
<1>6. \A k \in Nat : Alike(k)
  <2>1. \A k \in Nat : k \in T
    <3> HIDE DEF T
    <3>1. QED  BY <1>5
  <2> HIDE DEF Alike
  <2>2. QED  BY <2>1
<1>7. S[n] = R[n]
  <2>1. PICK m \in Nat \ {0} : Listed(S[n], m) /\ Listed(R[n], m) /\ (m = 1 \/ m + n <= n)
    BY <1>6
  <2>2. m = 1
    BY <2>1
  <2>3. S[n][1] = R[n][1]
    BY <1>1, <1>2
  <2>4. S[n] = [i \in 1..1 |-> S[n][i]] /\ R[n] = [i \in 1..1 |-> R[n][i]]
    BY <2>1, <2>2 DEF Listed
  <2>5. \A i \in 1..1 : S[n][i] = R[n][i]
    BY <2>3
  <2>6. QED  BY <2>4, <2>5
<1>8. 0 \in U
  OBVIOUS
<1>9. ASSUME NEW k \in U  PROVE k + 1 \in U
  <2>1. SUFFICES ASSUME S[k + 1] = R[k + 1]  PROVE S[0] = R[0]
    OBVIOUS
  <2>2. PICK m \in Nat \ {0} : Listed(S[k], m) /\ Listed(R[k], m)
    BY <1>6
  <2>3. Round(S[k]) = Round(R[k])
    BY <1>1, <2>1
  <2>4. S[k] = R[k]
    BY <2>2, <2>3, RoundTellsApart
  <2>5. QED  BY <2>4
<1>10. U = Nat
  <2>1. U \subseteq Nat
    OBVIOUS
  <2> HIDE DEF U
  <2>2. QED  BY <1>8, <1>9, <2>1, NatSetInduction
<1>11. n \in U
  <2> HIDE DEF U
  <2>1. QED  BY <1>10
<1>12. QED  BY <1>1, <1>7, <1>11

\* A block's transactions are a list.
TxsIInv == txs \in Seq(Txs)

\* So it stays.
LEMMA TxsKept ==
  ASSUME TxsIInv, [EncodingsNext]_encodingState
  PROVE  TxsIInv'
<1>1. ASSUME SetTransactions  PROVE txs' \in Seq(Txs)
  BY <1>1 DEF TxsIInv, SetTransactions
<1>2. ASSUME UNCHANGED txs  PROVE txs' \in Seq(Txs)
  BY <1>2 DEF TxsIInv
<1>3. SetTransactions \/ UNCHANGED txs
  BY DEF EncodingsNext, encodingState, PushNumber, PushScriptInt, PushBytes, PushData, PushOpcode, Pushing,
         NeverPushed, Received, PopNext, FromBits, FromNormal
<1>4. QED  BY <1>1, <1>2, <1>3 DEF TxsIInv

\* Of lists of one length, no two have the same root.
LEMMA RootNames == TxsIInv => RootNamesBlock
<1>1. SUFFICES ASSUME TxsIInv, txs # <<>>, NEW other \in [1..Len(txs) -> Txs],
                      ComputeMerkleRoot(other) = ComputeMerkleRoot(txs)
               PROVE  other = txs
  BY Zenon DEF RootNamesBlock
<1> DEFINE n == Len(txs)
<1>2. n \in Nat \ {0} /\ txs = [i \in 1..n |-> txs[i]]
  BY <1>1 DEF TxsIInv
<1>3. other = [i \in 1..n |-> other[i]]
  BY <1>1
<1> HIDE DEF n
<1>4. Listed(txs, n) /\ Listed(other, n)
  BY <1>2, <1>3 DEF Listed
<1>5. QED  BY <1>1, <1>2, <1>4, RootTellsApart

-----------------------------------------------------------------------------
(* Targets. *)

\* The word of a target is three bytes, its sign the highest bit.
LEMMA WordFacts ==
  /\ SignOfWord \in Nat \ {0} /\ SignOfWord = SignBit * Power[2] /\ Power[3] = 2 * SignOfWord
  /\ Power[2] <= SignOfWord /\ SignOfWord < Power[3]
<1>1. Power[2] \in Nat \ {0} /\ Power[3] = Radix * Power[2] /\ Radix = 2 * SignBit /\ SignBit \in Nat /\ SignBit >= 2
  <2>1. 2 \in 1..4
    OBVIOUS
  <2>2. QED  BY <2>1, FirstPowers, RadixFacts
<1> DEFINE p == Power[2]
           s == SignBit * p
<1>2. p \in Nat \ {0}
  BY <1>1
<1> HIDE DEF p
<1>3. s \in Nat /\ Radix * p = 2 * s /\ p <= s /\ s # 0
  BY <1>1, <1>2
<1> HIDE DEF s
<1>4. Power[3] = 2 * s
  BY <1>1, <1>3 DEF p
<1>5. SignOfWord = s
  BY <1>3, <1>4 DEF SignOfWord
<1>6. QED  BY <1>2, <1>3, <1>4, <1>5 DEF s, p

\* Dividing twice is dividing by the product.
LEMMA DivideTwice ==
  ASSUME NEW n \in Nat, NEW p \in Nat \ {0}, NEW d \in Nat \ {0}
  PROVE  (n \div p) \div d = n \div (p * d)
<1> DEFINE q == n \div p
           x == n % p
           e == q \div d
           y == q % d
           P == p * d
<1>1. q \in Nat /\ x \in 0..p - 1 /\ n = (p * q) + x
  OBVIOUS
<1>2. e \in Nat /\ y \in 0..d - 1 /\ q = (d * e) + y
  <2> HIDE DEF q
  <2>1. QED  BY <1>1
<1> HIDE DEF q, x, e, y
<1> DEFINE z == (p * y) + x
<1>3. P \in Nat \ {0} /\ z \in 0..P - 1 /\ n = (P * e) + z
  <2>1. p * y <= p * (d - 1) /\ p * (d - 1) = P - p /\ p * y \in Nat /\ P \in Nat \ {0}
    BY <1>1, <1>2
  <2>2. p * q = (P * e) + (p * y) /\ P * e \in Nat
    BY <1>1, <1>2
  <2> DEFINE py == p * y
             Pe == P * e
  <2>3. py \in Nat /\ py <= P - p /\ Pe \in Nat /\ z = py + x /\ n = (Pe + py) + x
    BY <1>1, <2>1, <2>2
  <2> HIDE DEF py, Pe, P, z
  <2>4. z \in 0..P - 1 /\ n = Pe + z
    BY <1>1, <2>1, <2>3
  <2>5. QED  BY <2>1, <2>4 DEF Pe
<1> HIDE DEF P, z
<1>4. n \div P = e
  <2>1. \A a \in Int, b \in 0..P - 1 : ((P * a) + b) \div P = a
    BY <1>3, Division
  <2>2. e \in Int
    BY <1>2
  <2>3. ((P * e) + z) \div P = e
    BY <1>3, <2>1, <2>2
  <2>4. QED  BY <1>3, <2>3
<1>5. QED  BY <1>4 DEF P, e, q

\* A multiple divided.
LEMMA DivideMultiple ==
  ASSUME NEW d \in Nat \ {0}, NEW a \in Nat
  PROVE  (d * a) \div d = a /\ (a * d) \div d = a
<1>1. ((d * a) + 0) \div d = a
  <2>1. \A x \in Int, b \in 0..d - 1 : ((d * x) + b) \div d = x
    BY Division
  <2>2. a \in Int /\ 0 \in 0..d - 1
    OBVIOUS
  <2>3. QED  BY <2>1, <2>2
<1>2. d * a \in Nat /\ d * a = a * d
  OBVIOUS
<1> DEFINE m == d * a
<1>3. m \in Nat /\ (m + 0) \div d = a
  BY <1>1, <1>2
<1> HIDE DEF m
<1>4. m + 0 = m
  BY <1>3
<1>5. m \div d = a
  BY <1>3, <1>4
<1>6. QED  BY <1>2, <1>5 DEF m

\* A quotient is below b exactly if the dividend is below that many times the divisor.
LEMMA DivideBelow ==
  ASSUME NEW d \in Nat \ {0}, NEW n \in Nat, NEW b \in Nat, n < d * b
  PROVE  n \div d < b /\ n \div d \in Nat
<1> DEFINE q == n \div d
           x == n % d
<1>1. q \in Nat /\ x \in 0..d - 1 /\ n = (d * q) + x
  OBVIOUS
<1> HIDE DEF q, x
<1>2. ASSUME b <= q  PROVE FALSE
  <2>1. d * b <= d * q /\ d * b \in Nat /\ d * q \in Nat
    BY <1>1, <1>2
  <2> DEFINE dq == d * q
             db == d * b
  <2>2. db <= dq /\ n = dq + x /\ db \in Nat /\ dq \in Nat /\ n < db
    BY <1>1, <2>1
  <2> HIDE DEF dq, db
  <2>3. QED  BY <1>1, <2>2
<1>3. QED  BY <1>1, <1>2 DEF q

\* The mantissa before its sign is looked at, of the size the number has.
FirstWord(n) ==
  LET l == LogicalSize[n] IN IF l <= 3 THEN n * Power[3 - l] ELSE n \div Power[l - 3]

\* GetCompact (compact.cpp:25): the three highest bytes, or the two if these look negative.
LEMMA PartsFacts ==
  ASSUME NEW n \in Nat
  PROVE  LET l == LogicalSize[n]
             size == Parts(n).size
             word == Parts(n).word
         IN /\ l \in Nat /\ size \in Nat /\ word \in Nat /\ word < SignOfWord
            /\ word = IF size <= 3 THEN n * Power[3 - size] ELSE n \div Power[size - 3]
            /\ \/ size = l
               \/ size = l + 1 /\ l >= 1 /\ word < Power[2] /\ FirstWord(n) >= SignOfWord
<1> DEFINE l == LogicalSize[n]
           w == FirstWord(n)
           size == Parts(n).size
           word == Parts(n).word
<1>1. l \in Nat /\ n < Power[l] /\ (n = 0 <=> l = 0)
  BY SizeBounds
<1>2. w = IF l <= 3 THEN n * Power[3 - l] ELSE n \div Power[l - 3]
  BY DEF FirstWord
<1>3. Parts(n) = IF w >= SignOfWord THEN [word |-> w \div Radix, size |-> l + 1] ELSE [word |-> w, size |-> l]
  BY Zenon DEF Parts, FirstWord
<1>4. \A k \in Nat : Power[k] \in Nat \ {0} /\ Power[k + 1] = Radix * Power[k]
  BY PowerEquation
<1> HIDE DEF l, w
<1>5. w \in Nat /\ w < Power[3]
  <2>1. CASE l <= 3
    <3>1. 3 - l \in Nat /\ (3 - l) + l = 3
      BY <1>1, <2>1
    <3>2. Power[3] = Power[3 - l] * Power[l]
      BY <1>1, <3>1, PowersGrow
    <3> DEFINE p == Power[3 - l]
               q == Power[l]
    <3>3. p \in Nat \ {0} /\ q \in Nat \ {0} /\ n < q
      BY <1>1, <1>4, <3>1
    <3> HIDE DEF p, q
    <3>4. n * p < p * q /\ n * p \in Nat
      BY <3>3
    <3>5. QED  BY <1>2, <2>1, <3>2, <3>4 DEF p, q
  <2>2. CASE ~(l <= 3)
    <3>1. l - 3 \in Nat /\ (l - 3) + 3 = l /\ 3 \in Nat
      BY <1>1, <2>2
    <3>2. Power[l] = Power[l - 3] * Power[3]
      BY <3>1, PowersGrow
    <3> DEFINE p == Power[l - 3]
               q == Power[3]
    <3>3. p \in Nat \ {0} /\ q \in Nat \ {0} /\ n < p * q
      BY <1>1, <1>4, <3>1, <3>2
    <3> HIDE DEF p, q
    <3>4. n \div p < q /\ n \div p \in Nat
      BY <3>3, DivideBelow
    <3>5. QED  BY <1>2, <2>2, <3>4 DEF p, q
  <2>3. QED  BY <2>1, <2>2
<1>6. CASE ~(w >= SignOfWord)
  <2>1. size = l /\ word = w
    BY <1>3, <1>6
  <2>2. w < SignOfWord
    BY <1>5, <1>6, WordFacts
  <2> HIDE DEF size, word
  <2>3. /\ l \in Nat /\ size \in Nat /\ word \in Nat /\ word < SignOfWord
        /\ word = IF size <= 3 THEN n * Power[3 - size] ELSE n \div Power[size - 3]
        /\ size = l
    BY <1>1, <1>2, <1>5, <2>1, <2>2
  <2>4. QED  BY <2>3 DEF l, size, word
<1>7. CASE w >= SignOfWord
  <2>1. size = l + 1 /\ word = w \div Radix
    BY <1>3, <1>7
  <2>2. l >= 1
    <3>1. SUFFICES ASSUME l = 0  PROVE FALSE
      BY <1>1
    <3>2. w = 0 * Power[3 - 0]
      BY <1>1, <1>2, <3>1
    <3>3. Power[3] \in Nat
      BY <1>4
    <3>4. w = 0
      BY <3>2, <3>3
    <3>5. QED  BY <1>7, <3>4, WordFacts
  <2>3. word \in Nat /\ word < Power[2]
    <3>1. Radix \in Nat \ {0} /\ Power[2] \in Nat /\ w < Radix * Power[2]
      BY <1>5, RadixFacts, FirstPowers
    <3>2. w \div Radix < Power[2] /\ w \div Radix \in Nat
      BY <1>5, <3>1, DivideBelow
    <3>3. QED  BY <2>1, <3>2
  <2>4. word < SignOfWord
    <3>1. 2 \in 1..4
      OBVIOUS
    <3> HIDE DEF word
    <3>2. QED  BY <2>3, <3>1, WordFacts, FirstPowers
  <2>5. word = IF l + 1 <= 3 THEN n * Power[3 - (l + 1)] ELSE n \div Power[(l + 1) - 3]
    <3>1. CASE l <= 2
      <4>1. w = n * Power[3 - l]
        BY <1>1, <1>2, <3>1
      <4>2. 2 - l \in Nat /\ (2 - l) + 1 = 3 - l
        BY <1>1, <3>1
      <4> DEFINE p == Power[2 - l]
      <4>3. p \in Nat \ {0} /\ Power[3 - l] = Radix * p
        BY <1>4, <4>2
      <4> HIDE DEF p
      <4>4. n * (Radix * p) = Radix * (n * p) /\ n * p \in Nat
        BY <4>3, RadixFacts
      <4>5. (Radix * (n * p)) \div Radix = n * p
        BY <4>4, RadixFacts, DivideMultiple
      <4>6. word = n * p
        BY <2>1, <4>1, <4>3, <4>4, <4>5
      <4>7. 3 - (l + 1) = 2 - l /\ l + 1 <= 3
        BY <1>1, <3>1
      <4>8. QED  BY <4>6, <4>7 DEF p
    <3>2. CASE l = 3
      <4>1. w = n * Power[3 - 3]
        BY <1>2, <3>2
      <4>2. w = n
        BY <4>1, PowerEquation
      <4>3. word = n \div Power[1]
        BY <2>1, <4>2, FirstPowers
      <4>4. (l + 1) - 3 = 1 /\ ~(l + 1 <= 3)
        BY <3>2
      <4>5. QED  BY <4>3, <4>4
    <3>3. CASE l > 3
      <4>1. l - 3 \in Nat /\ (l - 3) + 1 = (l + 1) - 3 /\ ~(l <= 3) /\ ~(l + 1 <= 3)
        BY <1>1, <3>3
      <4> DEFINE p == Power[l - 3]
      <4>2. p \in Nat \ {0} /\ Power[(l + 1) - 3] = Radix * p
        BY <1>4, <4>1
      <4>3. w = n \div p
        BY <1>2, <4>1
      <4> HIDE DEF p
      <4>4. (n \div p) \div Radix = n \div (p * Radix)
        BY <4>2, RadixFacts, DivideTwice
      <4>5. p * Radix = Radix * p
        BY <4>2, RadixFacts
      <4>6. word = n \div Power[(l + 1) - 3]
        BY <2>1, <4>2, <4>3, <4>4, <4>5
      <4>7. QED  BY <4>1, <4>6
    <3>4. QED  BY <1>1, <3>1, <3>2, <3>3
  <2> HIDE DEF size, word
  <2>6. /\ l \in Nat /\ size \in Nat /\ word \in Nat /\ word < SignOfWord
        /\ word = IF size <= 3 THEN n * Power[3 - size] ELSE n \div Power[size - 3]
        /\ size = l + 1 /\ l >= 1 /\ word < Power[2] /\ w >= SignOfWord
    BY <1>1, <1>7, <2>1, <2>2, <2>3, <2>4, <2>5
  <2>7. QED  BY <2>6 DEF l, size, word, w
<1>8. QED  BY <1>6, <1>7

\* The fields of SetCompact's result, the bits being a size and a word.
LEMMA SetCompactFields ==
  ASSUME NEW bits
  PROVE  LET c == SetCompact(bits)
             size == bits \div Power[3]
             low == bits % SignOfWord
             word == IF size <= 3 THEN low \div Power[3 - size] ELSE low
         IN /\ c.normal = IF size <= 3 THEN word ELSE (word * Power[size - 3]) % Power[TargetBytes]
            /\ c.negative = (word # 0 /\ bits % Power[3] >= SignOfWord)
            /\ c.overflowed = (word # 0 /\ \/ size > TargetBytes + 2
                                           \/ word >= Radix /\ size > TargetBytes + 1
                                           \/ word >= Power[2] /\ size > TargetBytes)
  BY DEF SetCompact

\* The joined parts are found again.
LEMMA JoinedParts ==
  ASSUME NEW word \in Nat, word < SignOfWord, NEW size \in Nat
  PROVE  LET bits == word + (size * Power[3])
         IN bits \in Nat /\ bits \div Power[3] = size /\ bits % Power[3] = word /\ bits % SignOfWord = word
<1> DEFINE p == Power[3]
           s == SignOfWord
           bits == word + (size * p)
<1>1. p \in Nat \ {0} /\ s \in Nat \ {0} /\ p = 2 * s /\ s < p /\ word < s
  BY WordFacts
<1> HIDE DEF p, s
<1>2. bits \in Nat /\ bits = (p * size) + word /\ word \in 0..p - 1 /\ word \in 0..s - 1
  <2>1. size * p \in Nat /\ size * p = p * size
    BY <1>1
  <2> DEFINE sp == size * p
  <2>2. sp \in Nat /\ sp = p * size /\ bits = word + sp
    BY <2>1
  <2> HIDE DEF sp, bits
  <2>3. bits \in Nat /\ bits = sp + word
    BY <2>2
  <2>4. word \in 0..p - 1 /\ word \in 0..s - 1
    BY <1>1
  <2>5. QED  BY <2>2, <2>3, <2>4
<1>3. p * size = s * (2 * size)
  BY <1>1
<1>4. bits = (s * (2 * size)) + word
  BY <1>2, <1>3
<1> HIDE DEF bits
<1>5. bits \div p = size /\ bits % p = word
  <2>1. \A a \in Int, b \in 0..p - 1 : ((p * a) + b) \div p = a /\ ((p * a) + b) % p = b
    BY <1>1, Division
  <2>2. size \in Int /\ word \in 0..p - 1
    BY <1>2
  <2>3. ((p * size) + word) \div p = size /\ ((p * size) + word) % p = word
    BY <2>1, <2>2
  <2>4. QED  BY <1>2, <2>3
<1>6. bits % s = word
  <2>1. \A a \in Int, b \in 0..s - 1 : ((s * a) + b) % s = b
    BY <1>1, Division
  <2>2. 2 * size \in Int /\ word \in 0..s - 1
    BY <1>2
  <2>3. ((s * (2 * size)) + word) % s = word
    BY <2>1, <2>2
  <2>4. QED  BY <1>4, <2>3
<1>7. QED  BY <1>2, <1>5, <1>6 DEF bits, p, s

\* A number less than a target's width is itself in that width.
LEMMA WithinWidth ==
  ASSUME NEW n \in Nat, NEW p \in Nat \ {0}, n < p
  PROVE  n % p = n
  OBVIOUS

\* What SetCompact makes of GetCompact of a target that has the width: neither negative nor
\* overflowed, and the target but for the bytes below its leading ones.
LEMMA CompactAgain ==
  ASSUME NEW n \in Nat, n < Power[TargetBytes]
  PROVE  LET again == SetCompact(GetCompact(n))
             size == Parts(n).size
             l == LogicalSize[n]
         IN /\ GetCompact(n) \in Nat
            /\ GetCompact(n) \div Power[3] = size
            /\ GetCompact(n) % SignOfWord = Parts(n).word
            /\ ~again.negative /\ ~again.overflowed
            /\ again.normal = IF size <= 3 THEN n ELSE Power[size - 3] * (n \div Power[size - 3])
            /\ again.normal \in Nat /\ again.normal <= n
            /\ n - again.normal < Power[IF l > 2 THEN l - 2 ELSE 0]
<1> DEFINE l == LogicalSize[n]
           size == Parts(n).size
           w == Parts(n).word
           bits == GetCompact(n)
           T == TargetBytes
<1>1. /\ l \in Nat /\ size \in Nat /\ w \in Nat /\ w < SignOfWord
      /\ w = IF size <= 3 THEN n * Power[3 - size] ELSE n \div Power[size - 3]
      /\ size = l \/ (size = l + 1 /\ l >= 1 /\ w < Power[2])
  <2>1. LET l1 == LogicalSize[n]
            size1 == Parts(n).size
            word1 == Parts(n).word
        IN /\ l1 \in Nat /\ size1 \in Nat /\ word1 \in Nat /\ word1 < SignOfWord
           /\ word1 = IF size1 <= 3 THEN n * Power[3 - size1] ELSE n \div Power[size1 - 3]
           /\ \/ size1 = l1
              \/ size1 = l1 + 1 /\ l1 >= 1 /\ word1 < Power[2] /\ FirstWord(n) >= SignOfWord
    BY PartsFacts
  <2>2. QED  BY Zenon, <2>1
<1>2. T \in Nat /\ T >= 3
  BY EncodingsAssumption
<1>3. l <= T
  BY <1>2, SizeIsThat
<1>4. bits = w + (size * Power[3])
  BY Zenon DEF GetCompact
<1> HIDE DEF bits, w, size, l
<1>5. bits \in Nat /\ bits \div Power[3] = size /\ bits % Power[3] = w /\ bits % SignOfWord = w
  BY <1>1, <1>4, JoinedParts
<1> DEFINE v == IF size <= 3 THEN w \div Power[3 - size] ELSE w
           again == SetCompact(bits)
<1>6. /\ again.normal = IF size <= 3 THEN v ELSE (v * Power[size - 3]) % Power[T]
      /\ again.negative = (v # 0 /\ w >= SignOfWord)
      /\ again.overflowed = (v # 0 /\ \/ size > T + 2
                                      \/ v >= Radix /\ size > T + 1
                                      \/ v >= Power[2] /\ size > T)
  <2>1. LET c == SetCompact(bits)
            size1 == bits \div Power[3]
            low == bits % SignOfWord
            word == IF size1 <= 3 THEN low \div Power[3 - size1] ELSE low
        IN /\ c.normal = IF size1 <= 3 THEN word ELSE (word * Power[size1 - 3]) % Power[TargetBytes]
           /\ c.negative = (word # 0 /\ bits % Power[3] >= SignOfWord)
           /\ c.overflowed = (word # 0 /\ \/ size1 > TargetBytes + 2
                                          \/ word >= Radix /\ size1 > TargetBytes + 1
                                          \/ word >= Power[2] /\ size1 > TargetBytes)
    BY SetCompactFields
  <2>2. QED  BY Zenon, <1>5, <2>1
<1> HIDE DEF again
<1>7. \A k \in Nat : Power[k] \in Nat \ {0} /\ Power[k + 1] = Radix * Power[k]
  BY PowerEquation
<1>8. ~again.negative
  <2>1. ~(w >= SignOfWord)
    BY <1>1, WordFacts
  <2>2. QED  BY <1>6, <2>1
<1>9. ~again.overflowed
  <2>1. size <= T + 1
    BY <1>1, <1>2, <1>3
  <2>2. ASSUME size > T  PROVE ~(v >= Power[2])
    <3>1. size = l + 1 /\ ~(size <= 3)
      BY <1>1, <1>2, <1>3, <2>2
    <3>2. v = w /\ w < Power[2]
      BY <1>1, <3>1
    <3>3. Power[2] \in Nat
      BY <1>7
    <3> HIDE DEF v
    <3>4. QED  BY <1>1, <3>2, <3>3
  <2>3. ~(size > T + 2) /\ ~(size > T + 1)
    BY <1>1, <1>2, <2>1
  <2> HIDE DEF v
  <2>4. QED  BY Zenon, <1>6, <2>2, <2>3
<1> DEFINE e == IF l > 2 THEN l - 2 ELSE 0
<1>10. e \in Nat /\ Power[e] \in Nat \ {0}
  <2>1. e \in Nat
    BY <1>1
  <2> HIDE DEF e
  <2>2. QED  BY <1>7, <2>1
<1>11. CASE size <= 3
  <2>1. 3 - size \in Nat /\ w = n * Power[3 - size] /\ v = w \div Power[3 - size]
    BY <1>1, <1>11
  <2> DEFINE p == Power[3 - size]
  <2>2. p \in Nat \ {0}
    BY <1>7, <2>1
  <2>3. w = n * p /\ v = w \div p
    BY <2>1
  <2> HIDE DEF p, v
  <2>4. v = n
    BY <2>2, <2>3, DivideMultiple
  <2>5. again.normal = n
    BY <1>6, <1>11, <2>4
  <2>6. n - again.normal = 0 /\ again.normal <= n
    BY <2>5
  <2> HIDE DEF e
  <2>7. n - again.normal < Power[e]
    BY <1>10, <2>6
  <2>8. /\ again.normal = IF size <= 3 THEN n ELSE Power[size - 3] * (n \div Power[size - 3])
        /\ again.normal \in Nat /\ again.normal <= n /\ n - again.normal < Power[e]
    BY <1>11, <2>5, <2>6, <2>7
  <2>9. QED  BY <1>5, <1>8, <1>9, <2>8 DEF again, bits, w, size, l, e
<1>12. CASE ~(size <= 3)
  <2>1. size - 3 \in Nat /\ w = n \div Power[size - 3] /\ v = w
    BY <1>1, <1>12
  <2> DEFINE p == Power[size - 3]
             m == p * w
  <2>2. p \in Nat \ {0}
    BY <1>7, <2>1
  <2>3. w = n \div p
    BY <2>1
  <2> HIDE DEF p, v
  <2>4. n = m + (n % p) /\ n % p \in 0..p - 1 /\ m \in Nat
    BY <2>2, <2>3
  <2>5. again.normal = m
    <3>1. w * p = m
      BY <1>1, <2>2
    <3>2. again.normal = m % Power[T]
      BY <1>6, <1>12, <2>1, <3>1 DEF p
    <3> HIDE DEF m
    <3> DEFINE x == n % p
    <3>3. x \in Nat /\ n = m + x
      BY <2>2, <2>4
    <3> HIDE DEF x
    <3>4. m < Power[T] /\ Power[T] \in Nat \ {0}
      BY <1>2, <1>7, <2>4, <3>3
    <3>5. m % Power[T] = m
      BY <2>4, <3>4, WithinWidth
    <3>6. QED  BY <3>2, <3>5
  <2>6. size - 3 <= e
    BY <1>1, <1>12
  <2>7. p <= Power[e]
    <3> HIDE DEF e
    <3>1. QED  BY <1>10, <2>1, <2>6, PowersGrow DEF p
  <2>8. again.normal <= n /\ n - again.normal < Power[e]
    <3> HIDE DEF m, e
    <3> DEFINE x == n % p
    <3>1. x \in 0..p - 1 /\ n = m + x
      BY <2>4
    <3> HIDE DEF x
    <3>2. QED  BY <1>10, <2>2, <2>4, <2>5, <2>7, <3>1
  <2>9. m = Power[size - 3] * (n \div Power[size - 3])
    BY <2>1 DEF p
  <2> HIDE DEF e, m
  <2>10. /\ again.normal = IF size <= 3 THEN n ELSE Power[size - 3] * (n \div Power[size - 3])
         /\ again.normal \in Nat /\ again.normal <= n /\ n - again.normal < Power[e]
    BY <1>12, <2>4, <2>5, <2>8, <2>9
  <2>11. QED  BY <1>5, <1>8, <1>9, <2>10 DEF again, bits, w, size, l, e
<1>13. QED  BY <1>11, <1>12

\* Shifting a number by whole bytes adds them to its size.
LEMMA SizeShifted ==
  ASSUME NEW w \in Nat \ {0}, NEW k \in Nat
  PROVE  w * Power[k] \in Nat /\ LogicalSize[w * Power[k]] = LogicalSize[w] + k
<1> DEFINE l == LogicalSize[w]
           p == Power[k]
           n == w * p
<1>1. l \in Nat \ {0} /\ l - 1 \in Nat /\ w < Power[l] /\ Power[l - 1] <= w
  BY SizeBounds
<1>2. \A i \in Nat : Power[i] \in Nat \ {0}
  BY PowerEquation
<1> HIDE DEF l
<1>3. Power[l + k] = Power[l] * p /\ Power[(l - 1) + k] = Power[l - 1] * p
  BY <1>1, PowersGrow
<1>4. p \in Nat \ {0} /\ Power[l] \in Nat /\ Power[l - 1] \in Nat
  BY <1>1, <1>2
<1> HIDE DEF p
<1>5. n \in Nat /\ n < Power[l] * p /\ Power[l - 1] * p <= n
  <2> DEFINE a == Power[l]
             b == Power[l - 1]
  <2>1. a \in Nat /\ b \in Nat /\ w < a /\ b <= w
    BY <1>1, <1>4
  <2> HIDE DEF a, b
  <2>2. w * p \in Nat /\ w * p < a * p /\ b * p <= w * p
    BY <1>4, <2>1
  <2>3. QED  BY <2>2 DEF a, b
<1> HIDE DEF n
<1>6. n < Power[l + k] /\ Power[(l + k) - 1] <= n /\ l + k \in Nat
  <2>1. (l + k) - 1 = (l - 1) + k /\ l + k \in Nat
    BY <1>1
  <2>2. QED  BY <1>3, <1>5, <2>1
<1>7. LogicalSize[n] = l + k
  BY <1>5, <1>6, SizeIsThat
<1>8. QED  BY <1>5, <1>7 DEF n, p, l

\* A target that is a word without sign and whole bytes below it loses nothing.
LEMMA CompactExact ==
  ASSUME NEW n \in Nat, n < Power[TargetBytes],
         NEW w \in Nat, w < SignOfWord, NEW k \in Nat, n = w * Power[k]
  PROVE  SetCompact(GetCompact(n)).normal = n
<1> DEFINE l == LogicalSize[n]
           size == Parts(n).size
           word == Parts(n).word
           b == LogicalSize[w]
           again == SetCompact(GetCompact(n))
<1>1. again.normal = IF size <= 3 THEN n ELSE Power[size - 3] * (n \div Power[size - 3])
  <2>1. LET again1 == SetCompact(GetCompact(n))
            size1 == Parts(n).size
            l1 == LogicalSize[n]
        IN /\ GetCompact(n) \in Nat
           /\ GetCompact(n) \div Power[3] = size1
           /\ GetCompact(n) % SignOfWord = Parts(n).word
           /\ ~again1.negative /\ ~again1.overflowed
           /\ again1.normal = IF size1 <= 3 THEN n ELSE Power[size1 - 3] * (n \div Power[size1 - 3])
           /\ again1.normal \in Nat /\ again1.normal <= n
           /\ n - again1.normal < Power[IF l1 > 2 THEN l1 - 2 ELSE 0]
    BY CompactAgain
  <2>2. QED  BY Zenon, <2>1
<1>2. /\ l \in Nat /\ size \in Nat /\ (size = l \/ (size = l + 1 /\ l >= 1 /\ FirstWord(n) >= SignOfWord))
  <2>1. LET l1 == LogicalSize[n]
            size1 == Parts(n).size
            word1 == Parts(n).word
        IN /\ l1 \in Nat /\ size1 \in Nat /\ word1 \in Nat /\ word1 < SignOfWord
           /\ word1 = IF size1 <= 3 THEN n * Power[3 - size1] ELSE n \div Power[size1 - 3]
           /\ \/ size1 = l1
              \/ size1 = l1 + 1 /\ l1 >= 1 /\ word1 < Power[2] /\ FirstWord(n) >= SignOfWord
    BY PartsFacts
  <2>2. QED  BY Zenon, <2>1
<1>3. SUFFICES ASSUME ~(size <= 3)  PROVE Power[size - 3] * (n \div Power[size - 3]) = n
  BY Zenon, <1>1
<1>4. l = b + k /\ w # 0
  <2>1. w # 0
    <3>1. SUFFICES ASSUME w = 0  PROVE FALSE
      OBVIOUS
    <3>2. Power[k] \in Nat
      BY PowerEquation
    <3>3. n = 0
      BY <3>1, <3>2
    <3>4. l = 0
      BY <3>3, SizeBounds
    <3> HIDE DEF l, size
    <3>5. QED  BY <1>2, <1>3, <3>4
  <2>2. QED  BY <2>1, SizeShifted
<1>5. b \in Nat /\ b <= 3
  <2>1. Power[3] \in Nat /\ w < Power[3] /\ 3 \in Nat
    <3>1. 3 \in 1..4
      OBVIOUS
    <3>2. QED  BY <3>1, WordFacts, FirstPowers
  <2>2. QED  BY <2>1, SizeIsThat, SizeBounds
<1>6. ASSUME size = l + 1, b = 3  PROVE FALSE
  <2>1. FirstWord(n) = IF l <= 3 THEN n * Power[3 - l] ELSE n \div Power[l - 3]
    BY DEF FirstWord
  <2>2. FirstWord(n) >= SignOfWord
    <3> HIDE DEF l, size
    <3>1. QED  BY <1>2, <1>6
  <2> HIDE DEF l
  <2>3. l = 3 + k
    BY <1>4, <1>6
  <2>4. Power[0] = 1 /\ Power[k] \in Nat \ {0}
    BY PowerEquation
  <2>5. CASE k = 0
    <3>1. l <= 3 /\ 3 - l = 0
      BY <2>3, <2>5
    <3>2. FirstWord(n) = n * Power[0] /\ n = w * Power[0]
      BY <2>1, <2>5, <3>1
    <3>3. FirstWord(n) = w
      BY <2>4, <3>2
    <3>4. QED  BY <2>2, <3>3, WordFacts
  <2>6. CASE k # 0
    <3>1. ~(l <= 3) /\ l - 3 = k
      BY <2>3, <2>6
    <3>2. FirstWord(n) = n \div Power[k]
      BY <2>1, <3>1
    <3>3. FirstWord(n) = w
      <4>1. (w * Power[k]) \div Power[k] = w
        BY <2>4, DivideMultiple
      <4>2. QED  BY <3>2, <4>1
    <3>4. QED  BY <2>2, <3>3, WordFacts
  <2>7. QED  BY <2>5, <2>6
<1> DEFINE j == size - 3
<1>7. j \in Nat /\ j <= k
  <2> HIDE DEF l, size, b
  <2>1. QED  BY <1>2, <1>3, <1>4, <1>5, <1>6
<1> HIDE DEF j
<1> DEFINE p == Power[j]
           q == Power[k - j]
<1>8. p \in Nat \ {0} /\ q \in Nat \ {0} /\ Power[k] = p * q
  <2>1. k - j \in Nat /\ j + (k - j) = k
    BY <1>7
  <2>2. Power[j + (k - j)] = Power[j] * Power[k - j]
    BY <1>7, <2>1, PowersGrow
  <2>3. QED  BY <1>7, <2>1, <2>2, PowerEquation
<1> HIDE DEF p, q
<1>9. n = p * (w * q) /\ w * q \in Nat
  BY <1>8
<1>10. n \div p = w * q
  BY <1>8, <1>9, DivideMultiple
<1>11. p * (n \div p) = n
  BY <1>9, <1>10
<1>12. QED  BY <1>11 DEF p, j

\* What does not fit, of any bits (compact.cpp:66).
Exceeds(bits) ==
  LET size == bits \div Power[3]
      low == bits % SignOfWord
  IN size > 3 /\ low # 0 /\ LogicalSize[low] + size - 3 > TargetBytes

\* That is when SetCompact reports an overflow.
LEMMA OverflowIsExcess ==
  ASSUME NEW bits \in Nat
  PROVE  SetCompact(bits).overflowed <=> Exceeds(bits)
<1> DEFINE size == bits \div Power[3]
           low == bits % SignOfWord
           v == IF size <= 3 THEN low \div Power[3 - size] ELSE low
           T == TargetBytes
           b == LogicalSize[low]
<1>1. size \in Nat /\ low \in Nat /\ low < SignOfWord
  <2> DEFINE s == SignOfWord
             p == Power[3]
  <2>1. s \in Nat \ {0} /\ p \in Nat \ {0}
    BY WordFacts
  <2> HIDE DEF s, p
  <2>2. bits \div p \in Nat /\ bits % s \in Nat /\ bits % s < s
    BY <2>1
  <2>3. QED  BY <2>2 DEF s, p
<1>2. T \in Nat /\ T >= 3
  BY EncodingsAssumption
<1>3. SetCompact(bits).overflowed = (v # 0 /\ \/ size > T + 2
                                              \/ v >= Radix /\ size > T + 1
                                              \/ v >= Power[2] /\ size > T)
  BY Zenon, SetCompactFields
<1>4. Exceeds(bits) <=> size > 3 /\ low # 0 /\ b + size - 3 > T
  BY DEF Exceeds
<1>5. b \in Nat /\ b <= 3 /\ (low # 0 => b >= 1)
  <2> HIDE DEF low
  <2>1. Power[3] \in Nat /\ low < Power[3] /\ 3 \in Nat
    <3>1. 3 \in 1..4
      OBVIOUS
    <3>2. QED  BY <1>1, <3>1, WordFacts, FirstPowers
  <2>2. b <= 3 /\ b \in Nat /\ (low = 0 <=> b = 0)
    BY <1>1, <2>1, SizeIsThat, SizeBounds
  <2>3. QED  BY <2>2
<1> HIDE DEF size, low
<1>6. (b >= 2 <=> low >= Radix) /\ (b >= 3 <=> low >= Power[2])
  <2>1. /\ low < Power[b] /\ (low = 0 <=> b = 0)
        /\ low # 0 => b - 1 \in Nat /\ Power[b - 1] <= low
        /\ b \in Nat
    BY <1>1, SizeBounds
  <2>2. /\ Power[0] = 1 /\ Power[1] = Radix /\ Radix \in Nat /\ Radix >= 4 /\ Power[2] \in Nat /\ Power[3] \in Nat
        /\ Radix <= Power[2] /\ Power[2] <= Power[3]
    <3>1. 2 \in 1..4 /\ 3 \in 1..4
      OBVIOUS
    <3>2. QED  BY <3>1, PowerEquation, FirstPowers, RadixFacts
  <2> HIDE DEF b
  <2>3. CASE b = 0
    BY <1>1, <2>1, <2>2, <2>3
  <2>4. CASE b = 1
    BY <1>1, <2>1, <2>2, <2>4
  <2>5. CASE b = 2
    <3>1. low < Power[2] /\ Power[2 - 1] <= low /\ 2 - 1 = 1
      BY <2>1, <2>5
    <3>2. QED  BY <1>1, <2>2, <2>5, <3>1
  <2>6. CASE b = 3
    <3>1. low < Power[3] /\ Power[3 - 1] <= low /\ 3 - 1 = 2
      BY <2>1, <2>6
    <3>2. QED  BY <1>1, <2>2, <2>6, <3>1
  <2>7. QED  BY <1>5, <2>3, <2>4, <2>5, <2>6
<1> HIDE DEF b
<1>7. CASE size <= 3
  <2>1. ~(size > 3) /\ ~(size > T + 2) /\ ~(size > T + 1) /\ ~(size > T)
    BY <1>1, <1>2, <1>7
  <2> HIDE DEF v
  <2>2. QED  BY Zenon, <1>3, <1>4, <2>1
<1>8. CASE ~(size <= 3)
  <2>1. v = low
    BY <1>8
  <2> HIDE DEF v
  <2>2. SetCompact(bits).overflowed <=> low # 0 /\ \/ size > T + 2
                                                   \/ low >= Radix /\ size > T + 1
                                                   \/ low >= Power[2] /\ size > T
    BY Zenon, <1>3, <2>1
  <2> DEFINE over == SetCompact(bits).overflowed
             excess == Exceeds(bits)
  <2>3. over <=> low # 0 /\ \/ size > T + 2
                            \/ b >= 2 /\ size > T + 1
                            \/ b >= 3 /\ size > T
    BY Zenon, <1>6, <2>2
  <2>4. excess <=> size > 3 /\ low # 0 /\ b + size - 3 > T
    BY <1>4
  <2> HIDE DEF over, excess
  <2>5. (low # 0 /\ \/ size > T + 2
                    \/ b >= 2 /\ size > T + 1
                    \/ b >= 3 /\ size > T)
        <=> (size > 3 /\ low # 0 /\ b + size - 3 > T)
    BY <1>1, <1>2, <1>5, <1>8
  <2>6. over <=> excess
    BY Zenon, <2>3, <2>4, <2>5
  <2>7. QED  BY <2>6 DEF over, excess
<1>9. QED  BY <1>7, <1>8

\* The value that bits stand for has the width of a target; if it counts as work, it is exact
\* and the work is the number of hashes expected (BlockHeader::GetBlockProof, block.cpp:95).
LEMMA WorkFacts ==
  ASSUME NEW bits \in Nat
  PROVE  LET c == SetCompact(bits)
         IN /\ c.normal \in Nat /\ c.normal < Power[TargetBytes]
            /\ GetBlockProof(bits) # 0 =>
                 /\ SetCompact(GetCompact(c.normal)).normal = c.normal
                 /\ GetBlockProof(bits) = Power[TargetBytes] \div (c.normal + 1)
<1> DEFINE size == bits \div Power[3]
           low == bits % SignOfWord
           v == IF size <= 3 THEN low \div Power[3 - size] ELSE low
           T == TargetBytes
           W == Power[T]
           c == SetCompact(bits)
           n == c.normal
<1>1. size \in Nat /\ low \in Nat /\ low < SignOfWord
  <2> DEFINE s == SignOfWord
             p == Power[3]
  <2>1. s \in Nat \ {0} /\ p \in Nat \ {0}
    BY WordFacts
  <2> HIDE DEF s, p
  <2>2. bits \div p \in Nat /\ bits % s \in Nat /\ bits % s < s
    BY <2>1
  <2>3. QED  BY <2>2 DEF s, p
<1>2. T \in Nat /\ T >= 3
  BY EncodingsAssumption
<1>3. \A k \in Nat : Power[k] \in Nat \ {0}
  BY PowerEquation
<1>4. W \in Nat \ {0} /\ Power[3] <= W
  BY <1>2, <1>3, PowersGrow
<1>5. n = IF size <= 3 THEN v ELSE (v * Power[size - 3]) % W
  BY Zenon, SetCompactFields
<1>6. c.overflowed <=> Exceeds(bits)
  BY OverflowIsExcess
<1>7. Exceeds(bits) <=> size > 3 /\ low # 0 /\ LogicalSize[low] + size - 3 > T
  BY DEF Exceeds
<1> HIDE DEF size, low, c
<1>8. v \in Nat /\ v < SignOfWord
  <2>1. CASE size <= 3
    <3>1. 3 - size \in Nat /\ v = low \div Power[3 - size]
      BY <1>1, <2>1
    <3> DEFINE p == Power[3 - size]
    <3>2. p \in Nat \ {0} /\ v = low \div p
      BY <1>3, <3>1
    <3> HIDE DEF p, v
    <3>3. v \in Nat /\ v <= low
      <4> DEFINE x == low % p
      <4>1. v \in Nat /\ x \in Nat /\ low = (p * v) + x
        BY <1>1, <3>2
      <4> HIDE DEF x
      <4>2. v <= p * v /\ p * v \in Nat
        BY <3>2, <4>1
      <4> DEFINE pv == p * v
      <4>3. v <= pv /\ pv \in Nat /\ low = pv + x
        BY <4>1, <4>2
      <4> HIDE DEF pv
      <4>4. QED  BY <4>1, <4>3
    <3>4. QED  BY <1>1, <3>3, WordFacts
  <2>2. CASE ~(size <= 3)
    BY <1>1, <2>2
  <2>3. QED  BY <2>1, <2>2
<1> HIDE DEF v
<1>9. n \in Nat /\ n < W
  <2> HIDE DEF n, W
  <2>1. CASE size <= 3
    <3>1. n = v
      BY <1>5, <2>1
    <3>2. Power[3] \in Nat /\ SignOfWord < Power[3] /\ SignOfWord \in Nat
      BY <1>3, WordFacts
    <3>3. QED  BY <1>4, <1>8, <3>1, <3>2
  <2>2. CASE ~(size <= 3)
    <3>1. size - 3 \in Nat
      BY <1>1, <2>2
    <3> DEFINE p == Power[size - 3]
    <3>2. p \in Nat /\ n = (v * p) % W
      BY <1>3, <1>5, <2>2, <3>1
    <3> HIDE DEF p
    <3>3. v * p \in Nat
      BY <1>8, <3>2
    <3> DEFINE m == v * p
    <3>4. m \in Nat /\ n = m % W
      BY <3>2, <3>3
    <3> HIDE DEF m
    <3>5. QED  BY <1>4, <3>4
  <2>3. QED  BY <2>1, <2>2
<1>10. ASSUME GetBlockProof(bits) # 0
       PROVE  SetCompact(GetCompact(n)).normal = n /\ GetBlockProof(bits) = W \div (n + 1)
  <2>1. GetBlockProof(bits) = IF c.negative \/ c.overflowed \/ n = 0 THEN 0 ELSE (W - 1 - n) \div (n + 1) + 1
    BY Zenon DEF GetBlockProof, c
  <2>2. ~c.overflowed /\ n # 0 /\ GetBlockProof(bits) = (W - 1 - n) \div (n + 1) + 1
    BY Zenon, <1>10, <2>1
  <2> HIDE DEF n
  <2>3. GetBlockProof(bits) = W \div (n + 1)
    <3> HIDE DEF W
    <3> DEFINE d == n + 1
               r == W - d
    <3>1. d \in Nat \ {0} /\ r \in Nat /\ W - 1 - n = r /\ W = r + d
      BY <1>4, <1>9
    <3> HIDE DEF d, r
    <3> DEFINE q == r \div d
               x == r % d
    <3>2. q \in Nat /\ x \in 0..d - 1 /\ r = (d * q) + x
      BY <3>1
    <3> HIDE DEF q, x
    <3>3. W = (d * (q + 1)) + x
      <4>1. d * (q + 1) = (d * q) + d /\ d * q \in Nat
        BY <3>1, <3>2
      <4> DEFINE dq == d * q
      <4>2. dq \in Nat /\ d * (q + 1) = dq + d /\ r = dq + x
        BY <3>2, <4>1
      <4> HIDE DEF dq
      <4>3. QED  BY <3>1, <3>2, <4>2
    <3>4. ((d * (q + 1)) + x) \div d = q + 1
      <4>1. \A a \in Int, b \in 0..d - 1 : ((d * a) + b) \div d = a
        BY <3>1, Division
      <4>2. q + 1 \in Int
        BY <3>2
      <4>3. QED  BY <3>2, <4>1, <4>2
    <3>5. W \div d = q + 1
      BY <3>3, <3>4
    <3>6. (W - 1 - n) \div d = q
      BY <3>1 DEF q
    <3>7. QED  BY <2>2, <3>5, <3>6 DEF d
  <2>4. \E k \in Nat : n = v * Power[k]
    <3>1. CASE size <= 3
      <4>1. n = v * Power[0]
        BY <1>5, <1>8, <3>1, PowerEquation
      <4>2. 0 \in Nat
        OBVIOUS
      <4> HIDE DEF W
      <4>3. QED  BY <4>1, <4>2
    <3>2. CASE ~(size <= 3)
      <4>1. size - 3 \in Nat /\ v = low /\ n = (v * Power[size - 3]) % W
        BY <1>1, <1>5, <3>2 DEF v
      <4>2. v * Power[size - 3] < W /\ v * Power[size - 3] \in Nat
        <5>1. CASE v = 0
          <6>1. Power[size - 3] \in Nat
            BY <1>3, <4>1
          <6> DEFINE p == Power[size - 3]
          <6> HIDE DEF p, W
          <6>2. v * p = 0
            BY <5>1, <6>1 DEF p
          <6>3. QED  BY <1>4, <6>2 DEF p
        <5>2. CASE v # 0
          <6> DEFINE m == v * Power[size - 3]
                     b == LogicalSize[v]
          <6>1. m \in Nat /\ LogicalSize[m] = b + (size - 3) /\ b \in Nat
            BY <1>8, <4>1, <5>2, SizeShifted, SizeBounds
          <6>2. ~(b + size - 3 > T)
            <7>1. size > 3 /\ low # 0
              BY <1>1, <3>2, <4>1, <5>2
            <7>2. ~(LogicalSize[low] + size - 3 > T)
              BY Zenon, <1>6, <1>7, <2>2, <7>1
            <7>3. QED  BY <4>1, <7>2
          <6> HIDE DEF m, b
          <6>3. b + (size - 3) \in Nat /\ b + (size - 3) <= T
            BY <1>1, <1>2, <3>2, <6>1, <6>2
          <6>4. m < Power[b + (size - 3)]
            BY <6>1, SizeBounds
          <6>5. Power[b + (size - 3)] <= Power[T] /\ Power[b + (size - 3)] \in Nat
            BY <1>2, <1>3, <6>3, PowersGrow
          <6>6. m < W
            BY <1>4, <6>1, <6>4, <6>5
          <6>7. QED  BY <6>1, <6>6 DEF m
        <5>3. QED  BY <5>1, <5>2
      <4> DEFINE m == v * Power[size - 3]
      <4>3. m < W /\ m \in Nat /\ n = m % W
        BY <4>1, <4>2
      <4> HIDE DEF m, W
      <4>4. n = m
        BY <1>4, <4>3, WithinWidth
      <4>5. QED  BY <4>1, <4>4 DEF m
    <3>3. QED  BY <3>1, <3>2
  <2>5. PICK k \in Nat : n = v * Power[k]
    BY <2>4
  <2>6. SetCompact(GetCompact(n)).normal = n
    BY <1>8, <1>9, <2>5, CompactExact
  <2>7. QED  BY <2>3, <2>6
<1>11. QED  BY Zenon, <1>9, <1>10 DEF n, c, W, T

\* A Compact as it should be: of a value of the width, its compact form, what overflowed
\* and the work.
CompactSound(c) ==
  /\ c.normal \in Nat /\ c.normal < Power[TargetBytes]
  /\ c.compact = GetCompact(c.normal)
  /\ c.overflowed <=> Exceeds(c.bits)
  /\ c.proof # 0 =>
       /\ SetCompact(c.compact).normal = c.normal
       /\ c.proof = Power[TargetBytes] \div (c.normal + 1)

\* Such a Compact stands for its target.
LEMMA SoundIsTarget == CompactSound(compact) => CompactIsTarget
<1>1. SUFFICES ASSUME CompactSound(compact)  PROVE CompactIsTarget
  OBVIOUS
<1> DEFINE n == compact.normal
           again == SetCompact(compact.compact)
           l == LogicalSize[n]
<1>2. n \in Nat /\ n < Power[TargetBytes] /\ compact.compact = GetCompact(n)
  BY <1>1 DEF CompactSound
<1>3. ~again.negative /\ ~again.overflowed /\ again.normal <= n /\ n - again.normal < Power[IF l > 2 THEN l - 2 ELSE 0]
  <2>1. LET again1 == SetCompact(GetCompact(n))
            size1 == Parts(n).size
            l1 == LogicalSize[n]
        IN /\ GetCompact(n) \in Nat
           /\ GetCompact(n) \div Power[3] = size1
           /\ GetCompact(n) % SignOfWord = Parts(n).word
           /\ ~again1.negative /\ ~again1.overflowed
           /\ again1.normal = IF size1 <= 3 THEN n ELSE Power[size1 - 3] * (n \div Power[size1 - 3])
           /\ again1.normal \in Nat /\ again1.normal <= n
           /\ n - again1.normal < Power[IF l1 > 2 THEN l1 - 2 ELSE 0]
    <3> HIDE DEF n
    <3>1. QED  BY <1>2, CompactAgain
  <2>2. QED  BY Zenon, <1>2, <2>1
<1>4. Parts(n).word < SignOfWord
  <2> HIDE DEF n
  <2>1. QED  BY <1>2, PartsFacts
<1>5. compact.overflowed <=>
        compact.bits \div Power[3] > 3 /\ compact.bits % SignOfWord # 0
        /\ LogicalSize[compact.bits % SignOfWord] + (compact.bits \div Power[3]) - 3 > TargetBytes
  BY Zenon, <1>1 DEF CompactSound, Exceeds
<1>6. compact.proof # 0 => again.normal = n /\ compact.proof = Power[TargetBytes] \div (n + 1)
  BY Zenon, <1>1 DEF CompactSound
<1>7. QED  BY Zenon, <1>3, <1>4, <1>5, <1>6 DEF CompactIsTarget

\* Nothing has been encoded yet.
LEMMA NoCompactSound == CompactSound(NoCompact)
<1>1. /\ NoCompact.normal = 0 /\ NoCompact.compact = 0 /\ NoCompact.overflowed = FALSE /\ NoCompact.bits = 0
      /\ NoCompact.proof = 0
  BY DEF NoCompact
<1>2. Power[TargetBytes] \in Nat \ {0}
  BY EncodingsAssumption, PowerEquation
<1>3. GetCompact(0) = 0
  <2>1. LogicalSize[0] = 0 /\ Power[3] \in Nat
    BY SizeEquation, WordFacts
  <2>2. FirstWord(0) = 0 * Power[3 - 0]
    BY <2>1 DEF FirstWord
  <2>3. FirstWord(0) = 0
    BY <2>1, <2>2
  <2>4. ~(0 >= SignOfWord)
    BY WordFacts
  <2>5. Parts(0) = IF FirstWord(0) >= SignOfWord
                   THEN [word |-> FirstWord(0) \div Radix, size |-> LogicalSize[0] + 1]
                   ELSE [word |-> FirstWord(0), size |-> LogicalSize[0]]
    BY Zenon DEF Parts, FirstWord
  <2>6. Parts(0) = [word |-> 0, size |-> 0]
    BY <2>1, <2>3, <2>4, <2>5
  <2>7. GetCompact(0) = 0 + (0 * Power[3])
    BY <2>6 DEF GetCompact
  <2>8. QED  BY <2>1, <2>7
<1>4. ~Exceeds(0)
  <2>1. ~(0 \div Power[3] > 3)
    <3> DEFINE p == Power[3]
    <3>1. p \in Nat \ {0}
      BY WordFacts
    <3> HIDE DEF p
    <3>2. 0 \div p = 0
      BY <3>1
    <3>3. QED  BY <3>2 DEF p
  <2>2. QED  BY <2>1 DEF Exceeds
<1> HIDE DEF NoCompact
<1>5. QED  BY <1>1, <1>2, <1>3, <1>4 DEF CompactSound

\* The Compact is as it should be after every step.
CompactIInv == CompactSound(compact)

\* Every step leaves it so.
LEMMA CompactKept ==
  ASSUME CompactIInv, [EncodingsNext]_encodingState
  PROVE  CompactIInv'
<1>1. ASSUME NEW bits \in Bits, FromBits(bits)  PROVE CompactSound(compact')
  <2> DEFINE c == SetCompact(bits)
  <2>1. bits \in Nat
    <3>1. bits \in 0..Power[4] - 1
      BY EncodingsAssumption
    <3>2. QED  BY <3>1
  <2>2. compact' = [normal |-> c.normal, negative |-> c.negative, overflowed |-> c.overflowed,
                    bits |-> bits, compact |-> GetCompact(c.normal), proof |-> GetBlockProof(bits)]
    BY Zenon, <1>1 DEF FromBits
  <2>3. c.overflowed <=> Exceeds(bits)
    BY <2>1, OverflowIsExcess
  <2>4. /\ c.normal \in Nat /\ c.normal < Power[TargetBytes]
        /\ GetBlockProof(bits) # 0 =>
             /\ SetCompact(GetCompact(c.normal)).normal = c.normal
             /\ GetBlockProof(bits) = Power[TargetBytes] \div (c.normal + 1)
    BY Zenon, <2>1, WorkFacts
  <2> HIDE DEF c
  <2>5. /\ compact'.normal = c.normal /\ compact'.overflowed = c.overflowed /\ compact'.bits = bits
        /\ compact'.compact = GetCompact(c.normal) /\ compact'.proof = GetBlockProof(bits)
    BY <2>2
  <2>6. QED  BY <2>3, <2>4, <2>5 DEF CompactSound
<1>2. ASSUME NEW n \in Targets, FromNormal(n)  PROVE CompactSound(compact')
  <2>1. n \in Nat /\ n < Power[TargetBytes]
    <3>1. n \in 0..Power[TargetBytes] - 1 /\ Power[TargetBytes] \in Nat
      BY EncodingsAssumption, PowerEquation
    <3>2. QED  BY <3>1
  <2>2. compact' = [NoCompact EXCEPT !.normal = n, !.bits = GetCompact(n), !.compact = GetCompact(n)]
    BY Zenon, <1>2 DEF FromNormal
  <2>3. /\ compact'.normal = n /\ compact'.overflowed = FALSE /\ compact'.bits = GetCompact(n)
        /\ compact'.compact = GetCompact(n) /\ compact'.proof = 0
    BY <2>2 DEF NoCompact
  <2>4. ~Exceeds(GetCompact(n))
    <3> DEFINE again == SetCompact(GetCompact(n))
    <3>1. ~again.overflowed /\ GetCompact(n) \in Nat
      <4>1. LET again1 == SetCompact(GetCompact(n))
                size1 == Parts(n).size
                l1 == LogicalSize[n]
            IN /\ GetCompact(n) \in Nat
               /\ GetCompact(n) \div Power[3] = size1
               /\ GetCompact(n) % SignOfWord = Parts(n).word
               /\ ~again1.negative /\ ~again1.overflowed
               /\ again1.normal = IF size1 <= 3 THEN n ELSE Power[size1 - 3] * (n \div Power[size1 - 3])
               /\ again1.normal \in Nat /\ again1.normal <= n
               /\ n - again1.normal < Power[IF l1 > 2 THEN l1 - 2 ELSE 0]
        BY <2>1, CompactAgain
      <4>2. QED  BY Zenon, <4>1
    <3>2. QED  BY <3>1, OverflowIsExcess
  <2>5. QED  BY <2>1, <2>3, <2>4 DEF CompactSound
<1>3. ASSUME UNCHANGED compact  PROVE CompactSound(compact')
  BY <1>3 DEF CompactIInv
<1>4. \/ \E bits \in Bits : FromBits(bits)
      \/ \E n \in Targets : FromNormal(n)
      \/ UNCHANGED compact
  BY DEF EncodingsNext, encodingState, PushNumber, PushScriptInt, PushBytes, PushData, PushOpcode, Pushing,
         NeverPushed, Received, PopNext, SetTransactions
<1>5. QED  BY <1>1, <1>2, <1>3, <1>4 DEF CompactIInv

-----------------------------------------------------------------------------

EncodingsIInv == ScriptIInv /\ CompactIInv /\ TxsIInv

\* script.cpp, compact.cpp, block.cpp: whatever is pushed is read back item by item as far as
\* the script has arrived, by a reader that steps over the data Pop gives it (by one that
\* does not, as far as the first data); bits and targets are each other's but for the bytes
\* below the leading ones; the root tells apart any two lists of one length.
THEOREM NothingLostInEncodings == EncodingsSpec => []EncodingsSafe
<1>1. EncodingsInit => EncodingsIInv
  <2>1. SUFFICES ASSUME EncodingsInit  PROVE EncodingsIInv
    OBVIOUS
  <2>2. compact = NoCompact /\ txs = <<>>
    BY <2>1 DEF EncodingsInit
  <2>3. CompactIInv
    BY <2>2, NoCompactSound DEF CompactIInv
  <2>4. TxsIInv
    BY <2>2 DEF TxsIInv
  <2>5. ScriptIInv
    BY <2>1, ScriptBegins
  <2>6. QED  BY <2>3, <2>4, <2>5 DEF EncodingsIInv
<1>2. EncodingsIInv /\ [EncodingsNext]_encodingState => EncodingsIInv'
  BY ScriptKept, CompactKept, TxsKept DEF EncodingsIInv
<1>3. EncodingsIInv => EncodingsSafe
  BY ScriptIsReadBack, SoundIsTarget, RootNames DEF EncodingsIInv, CompactIInv, EncodingsSafe
<1>4. QED  BY <1>1, <1>2, <1>3, PTL DEF EncodingsSpec

-----------------------------------------------------------------------------
(***************************************************************************)
(* Amounts, and all of the data together.                                  *)
(***************************************************************************)

\* Adding up from b on, by h; and two that are added up alike.
Adds(n, R, b, h) == n \in Nat /\ b \in R /\ h \in [(1..n) \X R -> R]
AddUp(n, b, h, f) == f[0] = b /\ \A k \in 1..n : f[k] = h[<<k, f[k - 1]>>]
Alike(n, f, g) == f[0] = g[0] /\ \A k \in 1..n : f[k - 1] = g[k - 1] => f[k] = g[k]

\* What is added up value by value exists.
LEMMA AddedUp ==
  ASSUME NEW n, NEW R, NEW b, NEW h, Adds(n, R, b, h)
  PROVE  \E f \in [0..n -> R] : AddUp(n, b, h, f)
<1> USE DEF Adds, AddUp
<1> DEFINE D == 0..n
           m == [k \in D |-> k]
           s == [k \in D |-> k - 1]
           r == [k \in D |-> b]
           g == [q \in D \X R |-> IF q[1] = 0 THEN b ELSE h[q]]
<1>1. m \in [D -> Nat] /\ r \in [D -> R] /\ \A k \in D : k \in {0} \/ (s[k] \in D /\ m[s[k]] < m[k])
  OBVIOUS
<1>2. g \in [D \X R -> R]
  <2>1. ASSUME NEW q \in D \X R, q[1] # 0  PROVE h[q] \in R
    <3>1. q \in (1..n) \X R
      BY <2>1
    <3>2. QED  BY <3>1
  <2>2. QED  BY <2>1
<1>3. GoesDown(D, m, {0}, s, R, r, g)
  <2> HIDE DEF D, m, s, r, g
  <2>1. QED  BY <1>1, <1>2 DEF GoesDown
<1>4. PICK f \in [D -> R] : \A k \in D : f[k] = IF k \in {0} THEN r[k] ELSE g[<<k, f[s[k]]>>]
  <2> HIDE DEF D, m, s, r, g
  <2>1. QED  BY <1>3, Recursion
<1>5. f[0] = b
  <2>1. 0 \in D /\ r[0] = b
    OBVIOUS
  <2>2. QED  BY <1>4, <2>1
<1>6. ASSUME NEW k \in 1..n  PROVE f[k] = h[<<k, f[k - 1]>>]
  <2>1. k \in D /\ k # 0 /\ k - 1 \in D /\ s[k] = k - 1
    OBVIOUS
  <2>2. <<k, f[k - 1]>> \in D \X R /\ <<k, f[k - 1]>>[1] = k
    BY <2>1
  <2>3. g[<<k, f[k - 1]>>] = h[<<k, f[k - 1]>>]
    BY <2>1, <2>2
  <2>4. f[k] = g[<<k, f[s[k]]>>]
    BY <1>4, <2>1
  <2>5. QED  BY <2>1, <2>3, <2>4
<1>7. QED  BY <1>5, <1>6

\* And it is the only one.
LEMMA OneAddedUp ==
  ASSUME NEW n \in Nat, NEW f, NEW g, Alike(n, f, g)
  PROVE  \A k \in 0..n : f[k] = g[k]
<1> USE DEF Alike
<1> DEFINE T == {k \in Nat : k <= n => f[k] = g[k]}
<1>1. 0 \in T
  OBVIOUS
<1>2. ASSUME NEW k \in T  PROVE k + 1 \in T
  <2>1. SUFFICES ASSUME k + 1 <= n  PROVE f[k + 1] = g[k + 1]
    OBVIOUS
  <2>2. k + 1 \in 1..n /\ k + 1 - 1 = k /\ f[k] = g[k]
    BY <2>1
  <2>3. QED  BY <2>2
<1>3. T = Nat
  <2>1. T \subseteq Nat
    OBVIOUS
  <2> HIDE DEF T
  <2>2. QED  BY <1>1, <1>2, <2>1, NatSetInduction
<1>4. QED  BY <1>3

\* The values up to each place of a list sum up to that much, and the last sum is SumOf.
LEMMA SumSteps ==
  ASSUME NEW b \in Seq(Nat)
  PROVE  \E f \in [0..Len(b) -> Nat] :
           f[0] = 0 /\ (\A k \in 1..Len(b) : f[k] = f[k - 1] + b[k]) /\ SumOf(b) = f[Len(b)]
<1> DEFINE n == Len(b)
           h == [q \in (1..n) \X Nat |-> q[2] + b[q[1]]]
           F(g) == [k \in 0..n |-> IF k = 0 THEN 0 ELSE g[k - 1] + b[k]]
           L == CHOOSE g : g = F(g)
<1>1. n \in Nat /\ h \in [(1..n) \X Nat -> Nat] /\ Adds(n, Nat, 0, h)
  BY DEF Adds
<1>2. PICK f \in [0..n -> Nat] : f[0] = 0 /\ \A k \in 1..n : f[k] = h[<<k, f[k - 1]>>]
  <2> HIDE DEF n, h
  <2>1. \E f \in [0..n -> Nat] : AddUp(n, 0, h, f)
    BY <1>1, AddedUp
  <2>2. QED  BY <2>1 DEF AddUp
<1>3. ASSUME NEW k \in 1..n  PROVE f[k] = f[k - 1] + b[k]
  <2>1. k - 1 \in 0..n
    BY <1>1
  <2>2. f[k - 1] \in Nat
    BY <1>2, <2>1
  <2>3. h[<<k, f[k - 1]>>] = f[k - 1] + b[k]
    BY <2>2
  <2>4. QED  BY <1>2, <2>3
<1>4. f = F(f)
  <2>1. \A k \in 0..n : f[k] = IF k = 0 THEN 0 ELSE f[k - 1] + b[k]
    BY <1>1, <1>2, <1>3
  <2>2. QED  BY <1>2, <2>1
<1>5. L = F(L)
  <2>1. \E g : g = F(g)
    BY <1>4
  <2> HIDE DEF F
  <2>2. QED  BY <2>1, Zenon
<1>6. SumOf(b) = L[n]
  BY Zenon DEF SumOf
<1> HIDE DEF L
<1>7. L[0] = f[0] /\ \A k \in 1..n : L[k] = L[k - 1] + b[k]
  <2>1. \A k \in 0..n : L[k] = IF k = 0 THEN 0 ELSE L[k - 1] + b[k]
    BY <1>5
  <2>2. QED  BY <1>1, <1>2, <2>1
<1> HIDE DEF n
<1>8. \A k \in 0..n : L[k] = f[k]
  <2>1. Alike(n, L, f)
    BY <1>3, <1>7 DEF Alike
  <2>2. QED  BY <1>1, <2>1, OneAddedUp
<1>9. SumOf(b) = f[n] /\ f[0] = 0
  BY <1>1, <1>2, <1>6, <1>8
<1>10. QED  BY <1>2, <1>3, <1>9 DEF n

\* What the loop of OutputsAmount carries from value to value.
Carried == [amount : Nat, thrown : BOOLEAN]

\* One value more: it is added, or the limit is exceeded.
LEMMA SummedOnce ==
  ASSUME TransactionsAssumption, NEW acc \in Carried, NEW sum \in Nat, NEW v \in Nat,
         acc.thrown <=> sum > MaxSatoshiAmount, ~acc.thrown => acc.amount = sum
  PROVE  /\ Summed(acc, v) \in Carried
         /\ Summed(acc, v).thrown <=> sum + v > MaxSatoshiAmount
         /\ ~Summed(acc, v).thrown => Summed(acc, v).amount = sum + v
<1> DEFINE a == (acc.amount + v) % AmountModulus
           o == v > MaxSatoshiAmount \/ a > MaxSatoshiAmount
<1>1. /\ MaxSatoshiAmount \in Nat /\ AmountModulus \in Nat \ {0}
      /\ MaxSatoshiAmount + MaxSatoshiAmount < AmountModulus
  BY TransactionsAssumption DEF TransactionsAssumption
<1>2. acc.amount \in Nat /\ acc.thrown \in BOOLEAN
  BY DEF Carried
<1>3. a \in Nat
  <2>1. acc.amount + v \in Nat
    BY <1>2
  <2>2. QED  BY <1>1, <2>1
<1>4. Summed(acc, v) = IF acc.thrown THEN acc ELSE [amount |-> a, thrown |-> o]
  BY DEF Summed
<1>5. CASE acc.thrown
  <2>1. Summed(acc, v) = acc
    BY <1>4, <1>5
  <2>2. sum + v > MaxSatoshiAmount
    BY <1>1, <1>5
  <2>3. QED  BY <1>5, <2>1, <2>2
<1>6. CASE ~acc.thrown
  <2>1. Summed(acc, v) = [amount |-> a, thrown |-> o]
    BY <1>4, <1>6
  <2>2. acc.amount = sum /\ sum <= MaxSatoshiAmount
    BY <1>1, <1>6
  <2>3. v <= MaxSatoshiAmount => a = sum + v
    <3>1. SUFFICES ASSUME v <= MaxSatoshiAmount  PROVE a = sum + v
      OBVIOUS
    <3>2. acc.amount + v \in 0..AmountModulus - 1 /\ acc.amount + v = sum + v
      BY <1>1, <1>2, <2>2, <3>1
    <3>3. QED  BY <1>1, <3>2
  <2> HIDE DEF a
  <2>4. o <=> sum + v > MaxSatoshiAmount
    BY <1>1, <1>3, <2>2, <2>3
  <2>5. ~o => a = sum + v
    BY <1>1, <1>3, <2>3
  <2>6. Summed(acc, v).amount = a /\ Summed(acc, v).thrown = o /\ Summed(acc, v) \in Carried
    <3>1. o \in BOOLEAN
      OBVIOUS
    <3> HIDE DEF o
    <3>2. QED  BY <1>3, <2>1, <3>1 DEF Carried
  <2> HIDE DEF o
  <2>7. QED  BY <2>4, <2>5, <2>6
<1>7. QED  BY <1>5, <1>6

\* OutputsAmount returns the sum of the values or throws, whatever the values are.
LEMMA AmountOf ==
  ASSUME TransactionsAssumption, NEW tx, tx.outputs \in Seq(Nat)
  PROVE  /\ OutputsAmount(tx).thrown <=> SumOf(tx.outputs) > MaxSatoshiAmount
         /\ ~OutputsAmount(tx).thrown => OutputsAmount(tx).amount = SumOf(tx.outputs)
<1> DEFINE b == tx.outputs
           n == Len(b)
           z == [amount |-> 0, thrown |-> FALSE]
           F(g) == [k \in 0..n |-> IF k = 0 THEN z ELSE Summed(g[k - 1], b[k])]
           L == CHOOSE g : g = F(g)
           h == [q \in (1..n) \X Carried |-> IF Summed(q[2], b[q[1]]) \in Carried
                                             THEN Summed(q[2], b[q[1]]) ELSE z]
<1>1. n \in Nat /\ z \in Carried /\ \A k \in 1..n : b[k] \in Nat
  BY DEF Carried
<1>2. h \in [(1..n) \X Carried -> Carried]
  BY <1>1
<1>3. PICK f \in [0..n -> Carried] : f[0] = z /\ \A k \in 1..n : f[k] = h[<<k, f[k - 1]>>]
  <2> HIDE DEF n, h, z
  <2>1. Adds(n, Carried, z, h)
    BY <1>1, <1>2 DEF Adds
  <2>2. \E f \in [0..n -> Carried] : AddUp(n, z, h, f)
    BY <2>1, AddedUp
  <2>3. QED  BY <2>2 DEF AddUp
<1>4. PICK s \in [0..n -> Nat] :
        s[0] = 0 /\ (\A k \in 1..n : s[k] = s[k - 1] + b[k]) /\ SumOf(b) = s[n]
  BY SumSteps
<1> DEFINE Right(k) == (f[k].thrown <=> s[k] > MaxSatoshiAmount) /\ (~f[k].thrown => f[k].amount = s[k])
           T == {k \in Nat : k <= n => Right(k)}
<1>5. ASSUME NEW k \in 1..n, Right(k - 1)
      PROVE  f[k] = Summed(f[k - 1], b[k]) /\ Right(k)
  <2>1. k - 1 \in 0..n /\ f[k - 1] \in Carried /\ s[k - 1] \in Nat /\ b[k] \in Nat
    <3> HIDE DEF b, n
    <3>1. k - 1 \in 0..n
      BY <1>1
    <3>2. f[k - 1] \in Carried
      BY <1>3, <3>1
    <3>3. s[k - 1] \in Nat
      BY <1>4, <3>1
    <3>4. QED  BY <1>1, <3>1, <3>2, <3>3
  <2> DEFINE c == f[k - 1]
             w == Summed(c, b[k])
  <2>2. /\ w \in Carried
        /\ w.thrown <=> s[k - 1] + b[k] > MaxSatoshiAmount
        /\ ~w.thrown => w.amount = s[k - 1] + b[k]
    <3> HIDE DEF b, n
    <3>1. QED  BY <1>5, <2>1, SummedOnce
  <2>3. <<k, c>> \in (1..n) \X Carried /\ <<k, c>>[1] = k /\ <<k, c>>[2] = c
    BY <2>1
  <2>4. h[<<k, c>>] = w
    <3> HIDE DEF b, n, z
    <3>1. h[<<k, c>>] = IF Summed(<<k, c>>[2], b[<<k, c>>[1]]) \in Carried
                        THEN Summed(<<k, c>>[2], b[<<k, c>>[1]]) ELSE z
      BY <2>3
    <3>2. QED  BY <2>2, <2>3, <3>1
  <2> HIDE DEF w, h
  <2>5. f[k] = w
    BY <1>3, <2>4
  <2>6. s[k] = s[k - 1] + b[k]
    BY <1>4
  <2>7. QED  BY <2>2, <2>5, <2>6 DEF w
<1>6. T = Nat
  <2>1. 0 \in T
    <3>1. MaxSatoshiAmount \in Nat
      BY TransactionsAssumption DEF TransactionsAssumption
    <3>2. QED  BY <1>3, <1>4, <3>1
  <2>2. ASSUME NEW k \in T  PROVE k + 1 \in T
    <3>1. SUFFICES ASSUME k + 1 <= n  PROVE Right(k + 1)
      OBVIOUS
    <3>2. k + 1 \in 1..n /\ k + 1 - 1 = k /\ Right(k)
      BY <1>1, <3>1
    <3> HIDE DEF Right
    <3>3. Right(k + 1 - 1)
      BY <3>2
    <3>4. QED  BY <1>5, <3>2, <3>3
  <2>3. T \subseteq Nat
    OBVIOUS
  <2> HIDE DEF T
  <2>4. QED  BY <2>1, <2>2, <2>3, NatSetInduction
<1>7. ASSUME NEW k \in 1..n  PROVE f[k] = Summed(f[k - 1], b[k])
  <2>1. k - 1 \in Nat /\ k - 1 <= n
    BY <1>1
  <2>2. Right(k - 1)
    BY <1>6, <2>1
  <2> HIDE DEF Right
  <2>3. QED  BY <1>5, <2>2
<1>8. f = F(f)
  <2>1. \A k \in 0..n : f[k] = IF k = 0 THEN z ELSE Summed(f[k - 1], b[k])
    <3> HIDE DEF z
    <3>1. QED  BY <1>1, <1>3, <1>7
  <2>2. QED  BY <1>3, <2>1
<1>9. L = F(L)
  <2>1. \E g : g = F(g)
    BY <1>8
  <2> HIDE DEF F
  <2>2. QED  BY <2>1, Zenon
<1>10. OutputsAmount(tx) = L[n]
  BY Zenon DEF OutputsAmount
<1> HIDE DEF L
<1>11. L[0] = f[0] /\ \A k \in 1..n : L[k] = Summed(L[k - 1], b[k])
  <2>1. \A k \in 0..n : L[k] = IF k = 0 THEN z ELSE Summed(L[k - 1], b[k])
    <3> HIDE DEF z
    <3>1. QED  BY <1>9
  <2> HIDE DEF z
  <2>2. QED  BY <1>1, <1>3, <2>1
<1>12. L[n] = f[n]
  <2> HIDE DEF n
  <2>1. Alike(n, L, f)
    BY <1>7, <1>11 DEF Alike
  <2>2. \A k \in 0..n : L[k] = f[k]
    BY <1>1, <2>1, OneAddedUp
  <2>3. QED  BY <1>1, <2>2
<1>13. Right(n)
  BY <1>1, <1>6
<1>14. QED  BY <1>4, <1>10, <1>12, <1>13

\* What a transaction object holds: lists that were given to it, or the empty ones.
HeldTx == [version : Versions, inputs : InputLists \cup {<<>>}, outputs : OutputLists \cup {<<>>}]
AmountIInv == \A s \in Slots : held[s].tx \in HeldTx

\* A constructed, a fresh, a hashed object and one that was moved from.
LEMMA HeldByKind ==
  /\ Contents \subseteq HeldTx
  /\ \A tx, h : Hashed([tx |-> tx, hash |-> h]).tx = tx /\ Fresh(tx).tx = tx
  /\ \A o : o = [tx |-> o.tx, hash |-> o.hash] => Hashed(o).tx = o.tx
  /\ \A o : o = [tx |-> o.tx, hash |-> o.hash] /\ o.tx \in HeldTx => MovedFrom(o).tx \in HeldTx
<1>1. Contents \subseteq HeldTx
  BY DEF Contents, Content, HeldTx
<1>2. \A tx, h : Hashed([tx |-> tx, hash |-> h]).tx = tx /\ Fresh(tx).tx = tx
  BY DEF Hashed, Fresh
<1>3. ASSUME NEW o, o = [tx |-> o.tx, hash |-> o.hash]  PROVE Hashed(o).tx = o.tx
  BY <1>3, HashedKeeps
<1>4. ASSUME NEW o, o = [tx |-> o.tx, hash |-> o.hash], o.tx \in HeldTx
      PROVE  MovedFrom(o).tx \in HeldTx
  <2> DEFINE x == [o.tx EXCEPT !.inputs = <<>>, !.outputs = <<>>]
  <2>1. x \in HeldTx
    BY <1>4 DEF HeldTx
  <2>2. MovedFrom(o) = [o EXCEPT !.tx = x]
    BY DEF MovedFrom
  <2> HIDE DEF x
  <2>3. MovedFrom(o).tx = x
    BY <1>4, <2>2
  <2>4. QED  BY <2>1, <2>3
<1>5. QED  BY <1>1, <1>2, <1>3, <1>4

\* No step puts anything else into an object.
LEMMA AmountStepIInv ==
  TransactionsAssumption /\ TxIInv /\ AmountIInv /\ [TransactionsNext]_transactionState => AmountIInv'
<1>1. SUFFICES ASSUME TransactionsAssumption, TxIInv, AmountIInv, [TransactionsNext]_transactionState
               PROVE  AmountIInv'
  OBVIOUS
<1>2. held = [s \in Slots |-> held[s]]
  BY <1>1 DEF TxIInv, Objects
<1>3. \A s \in Slots : held[s] = [tx |-> held[s].tx, hash |-> held[s].hash]
  BY <1>1 DEF TxIInv, Objects
<1>4. \A s \in Slots : /\ held[s].tx \in HeldTx /\ Hashed(held[s]).tx = held[s].tx
                       /\ MovedFrom(held[s]).tx \in HeldTx
  BY <1>1, <1>3, HeldByKind DEF AmountIInv
<1>5. SUFFICES \A u \in Slots : held'[u].tx \in HeldTx
  BY DEF AmountIInv
<1>6. ASSUME NEW s \in Slots, NEW tx \in HeldTx, NEW h,
             held' = [held EXCEPT ![s] = Hashed([tx |-> tx, hash |-> h])]
      PROVE  \A u \in Slots : held'[u].tx \in HeldTx
  <2>1. Hashed([tx |-> tx, hash |-> h]).tx = tx
    BY HeldByKind
  <2>2. QED  BY <1>2, <1>4, <1>6, <2>1
<1>7. ASSUME NEW s \in Slots, NEW tx \in HeldTx, held' = [held EXCEPT ![s] = Fresh(tx)]
      PROVE  \A u \in Slots : held'[u].tx \in HeldTx
  <2>1. Fresh(tx).tx = tx
    BY HeldByKind
  <2>2. QED  BY <1>2, <1>4, <1>7, <2>1
<1>8. ASSUME NEW s \in Slots, ConstructOf(s)  PROVE \A u \in Slots : held'[u].tx \in HeldTx
  <2>1. PICK tx \in HeldTx : Construct(s, tx)
    BY <1>8, HeldByKind DEF ConstructOf
  <2>2. QED  BY <1>6, <2>1 DEF Construct
<1>9. ASSUME NEW s \in Slots, SetVersionOf(s) \/ SetInputsOf(s) \/ SetOutputsOf(s)
      PROVE  \A u \in Slots : held'[u].tx \in HeldTx
  <2>1. PICK tx \in HeldTx : SetTo(s, tx)
    <3>1. held[s].tx \in HeldTx
      BY <1>4
    <3>2. CASE SetVersionOf(s)
      <4>1. PICK v \in Versions : SetTo(s, [held[s].tx EXCEPT !.version = v])
        BY <3>2 DEF SetVersionOf
      <4>2. [held[s].tx EXCEPT !.version = v] \in HeldTx
        BY <3>1 DEF HeldTx
      <4>3. QED  BY <4>1, <4>2
    <3>3. CASE SetInputsOf(s)
      <4>1. PICK ins \in InputLists : SetTo(s, [held[s].tx EXCEPT !.inputs = ins])
        BY <3>3 DEF SetInputsOf
      <4>2. [held[s].tx EXCEPT !.inputs = ins] \in HeldTx
        BY <3>1 DEF HeldTx
      <4>3. QED  BY <4>1, <4>2
    <3>4. CASE SetOutputsOf(s)
      <4>1. PICK outs \in OutputLists : SetTo(s, [held[s].tx EXCEPT !.outputs = outs])
        BY <3>4 DEF SetOutputsOf
      <4>2. [held[s].tx EXCEPT !.outputs = outs] \in HeldTx
        BY <3>1 DEF HeldTx
      <4>3. QED  BY <4>1, <4>2
    <3>5. QED  BY <1>9, <3>2, <3>3, <3>4
  <2>2. QED  BY <1>7, <2>1 DEF SetTo
<1>10. ASSUME NEW s \in Slots, DeserializeInto(s)  PROVE \A u \in Slots : held'[u].tx \in HeldTx
  <2>1. PICK tx \in HeldTx : held' = [held EXCEPT ![s].tx = tx]
    BY <1>10, HeldByKind DEF DeserializeInto
  <2>2. held'[s].tx = tx
    BY <1>2, <1>3, <2>1
  <2>3. \A u \in Slots \ {s} : held'[u] = held[u]
    BY <1>2, <2>1
  <2>4. QED  BY <1>4, <2>2, <2>3
<1>11. ASSUME NEW s \in Slots, GetHashOf(s)  PROVE \A u \in Slots : held'[u].tx \in HeldTx
  BY <1>2, <1>4, <1>11 DEF GetHashOf
<1>12. ASSUME NEW s \in Slots, NEW t \in Slots, CopyConstruct(s, t)
       PROVE  \A u \in Slots : held'[u].tx \in HeldTx
  <2>1. held[t].tx \in HeldTx
    BY <1>4
  <2>2. QED  BY <1>6, <1>12, <2>1 DEF CopyConstruct, Construct
<1>13. ASSUME NEW s \in Slots, NEW t \in Slots, MoveConstruct(s, t)
       PROVE  \A u \in Slots : held'[u].tx \in HeldTx
  <2>1. PICK h : held' = [held EXCEPT ![s] = Hashed([tx |-> held[t].tx, hash |-> h]),
                                      ![t] = MovedFrom(held[t])]
    BY <1>13 DEF MoveConstruct
  <2>2. Hashed([tx |-> held[t].tx, hash |-> h]).tx = held[t].tx
    BY HeldByKind
  <2>3. s # t
    BY <1>13 DEF MoveConstruct
  <2>4. QED  BY <1>2, <1>4, <2>1, <2>2, <2>3
<1>14. ASSUME NEW s \in Slots, NEW t \in Slots, AssignFrom(s, t)
       PROVE  \A u \in Slots : held'[u].tx \in HeldTx
  <2>1. held[t].tx \in HeldTx
    BY <1>4
  <2>2. QED  BY <1>7, <1>14, <2>1 DEF AssignFrom
<1>15. ASSUME NEW s \in Slots, NEW t \in Slots, AssignMoved(s, t)
       PROVE  \A u \in Slots : held'[u].tx \in HeldTx
  <2>1. s # t /\ held' = [held EXCEPT ![s] = Fresh(held[t].tx), ![t] = MovedFrom(held[t])]
    BY <1>15 DEF AssignMoved
  <2>2. Fresh(held[t].tx).tx = held[t].tx
    BY HeldByKind
  <2>3. QED  BY <1>2, <1>4, <2>1, <2>2
<1>16. ASSUME NEW s \in Slots, NEW t \in Slots, Compare(s, t)
       PROVE  \A u \in Slots : held'[u].tx \in HeldTx
  <2>1. held' = [held EXCEPT ![s] = Hashed(@), ![t] = Hashed(@)]
    BY <1>16 DEF Compare
  <2>2. CASE s # t
    BY <1>2, <1>4, <2>1, <2>2
  <2>3. CASE s = t
    <3>1. Hashed(held[s]) = [tx |-> held[s].tx, hash |-> HashOf(held[s])]
      BY <1>3, HashedKeeps
    <3>2. Hashed(Hashed(held[s])).tx = held[s].tx
      BY <3>1, HeldByKind
    <3>3. QED  BY <1>2, <1>4, <2>1, <2>3, <3>2
  <2>4. QED  BY <2>2, <2>3
<1>17. CASE UNCHANGED transactionState
  BY <1>4, <1>17 DEF transactionState
<1>18. QED
  BY <1>1, <1>8, <1>9, <1>10, <1>11, <1>12, <1>13, <1>14, <1>15, <1>16, <1>17
     DEF TransactionsNext

\* For any limit that is less than half of what an amount can count, OutputsAmount
\* (transaction.cpp:468) returns the sum of the outputs or throws, whatever was done with the
\* object before; it never returns a sum that wrapped around.
THEOREM AmountsAreSums == TransactionsSpec => []AmountIsSum
<1>1. TransactionsInit => AmountIInv
  <2>1. SUFFICES ASSUME TransactionsInit  PROVE AmountIInv
    OBVIOUS
  <2>2. Content(DefaultVersion, <<>>, <<>>) \in HeldTx
    BY TransactionsAssumption DEF TransactionsAssumption, Content, HeldTx
  <2>3. Fresh(Content(DefaultVersion, <<>>, <<>>)).tx = Content(DefaultVersion, <<>>, <<>>)
    BY HeldByKind
  <2>4. QED  BY <2>1, <2>2, <2>3 DEF TransactionsInit, DefaultTransaction, AmountIInv
<1>2. TxIInv /\ AmountIInv /\ [TransactionsNext]_transactionState => AmountIInv'
  BY AmountStepIInv, TransactionsAssumption
<1>3. AmountIInv => AmountIsSum
  <2>1. SUFFICES ASSUME AmountIInv, NEW s \in Slots
                 PROVE  LET sum == SumOf(held[s].tx.outputs)
                            amount == OutputsAmount(held[s].tx)
                        IN /\ amount.thrown <=> sum > MaxSatoshiAmount
                           /\ ~amount.thrown => amount.amount = sum
    BY DEF AmountIsSum
  <2>2. held[s].tx.outputs \in Seq(Nat)
    <3>1. held[s].tx.outputs \in OutputLists \cup {<<>>}
      BY <2>1 DEF AmountIInv, HeldTx
    <3>2. \A b \in OutputLists : b \in Seq(0..AmountModulus - 1)
      BY TransactionsAssumption DEF TransactionsAssumption
    <3>3. Seq(0..AmountModulus - 1) \subseteq Seq(Nat)
      <4>1. 0..AmountModulus - 1 \subseteq Nat
        OBVIOUS
      <4>2. QED  BY <4>1, SeqMonotonic
    <3>4. <<>> \in Seq(Nat)
      OBVIOUS
    <3>5. QED  BY <3>1, <3>2, <3>3, <3>4
  <2>3. QED  BY <2>2, AmountOf, TransactionsAssumption
<1>4. QED
  BY TxInitIInv, TxStepIInv, <1>1, <1>2, <1>3, PTL DEF TransactionsSpec

\* Scripts, targets, Merkle roots and transactions together: what is written is what is read
\* by a reader that steps over the data it pops (script.cpp, compact.cpp, block.cpp:234),
\* and objects keep to their contents (transaction.cpp).
THEOREM ConsensusDataIsSafe == EncodingsSpec /\ TransactionsSpec => []ConsensusDataSafe
<1>1. EncodingsSafe /\ HashIsOfContent /\ AmountIsSum => ConsensusDataSafe
  BY DEF ConsensusDataSafe, TransactionsSafe
<1>2. QED
  BY NothingLostInEncodings, HashesAreOfContent, AmountsAreSums, <1>1, PTL

=============================================================================
