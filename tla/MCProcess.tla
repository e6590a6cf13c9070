----------------------------- MODULE MCProcess -----------------------------
(* What the process stands on: its start and stop, the thread pool and the   *)
(* locks, messages on the wire, addresses, blocks, scripts, transactions,    *)
(* time, the circular buffer.  One behaviour is one part's, the others stay *)
(* where they begin.                                                         *)
EXTENDS Lifecycle, ThreadPool, LockOrder, Wire, NetAddress, BlockTree, ConsensusData,
        TimeData, CircularBuffer, Bitwise

CONSTANT ProcessParts

VARIABLE part

ProcessInit ==
  /\ part \in ProcessParts
  /\ LifeInit /\ (part # "life" => ~specified /\ readable)
  /\ PoolInit /\ LockInit
  /\ WireInit /\ (part # "wire" => object = "verack")
  /\ EncodingsInit /\ (part # "encodings" => use = "script")
  /\ AddressInit /\ TreeInit /\ TransactionsInit /\ TimeInit /\ BufferInit

\* The parts but one stay as they are.
Others(name) ==
  /\ IF name = "life" THEN TRUE ELSE UNCHANGED lifeState
  /\ IF name = "pool" THEN TRUE ELSE UNCHANGED poolState
  /\ IF name = "locks" THEN TRUE ELSE UNCHANGED lockState
  /\ IF name = "wire" THEN TRUE ELSE UNCHANGED wireState
  /\ IF name = "address" THEN TRUE ELSE UNCHANGED addressState
  /\ IF name = "tree" THEN TRUE ELSE UNCHANGED treeState
  /\ IF name = "encodings" THEN TRUE ELSE UNCHANGED encodingState
  /\ IF name = "transactions" THEN TRUE ELSE UNCHANGED transactionState
  /\ IF name = "time" THEN TRUE ELSE UNCHANGED timeState
  /\ IF name = "buffer" THEN TRUE ELSE UNCHANGED bufferState
  /\ UNCHANGED part

ProcessNext ==
  \/ part = "life" /\ LifeNext /\ Others("life")
  \/ part = "pool" /\ PoolNext /\ Others("pool")
  \/ part = "locks" /\ LockNext /\ Others("locks")
  \/ part = "wire" /\ WireNext /\ Others("wire")
  \/ part = "address" /\ AddressNext /\ Others("address")
  \/ part = "tree" /\ TreeNext /\ Others("tree")
  \/ part = "encodings" /\ EncodingsNext /\ Others("encodings")
  \/ part = "transactions" /\ TransactionsNext /\ Others("transactions")
  \/ part = "time" /\ TimeNext /\ Others("time")
  \/ part = "buffer" /\ BufferNext /\ Others("buffer")

processState == <<lifeState, poolState, lockState, wireState, addressState, treeState,
                  encodingState, transactionState, timeState, bufferState, part>>

\* Threads run on; tasks end.
LifeFairness ==
  /\ WF_lifeState(part = "life" /\ (MainStep \/ TimerLoopExits))
  /\ \A l \in Loops : WF_lifeState(part = "life" /\ LoopExits(l))
  /\ WF_lifeState(part = "life" /\ RunJob)
PoolFairness ==
  /\ \A w \in PoolThreads : WF_poolState(part = "pool" /\ PoolThread(w))
  /\ WF_poolState(part = "pool" /\ NotifyOne)
  /\ WF_poolState(part = "pool" /\ (NotifyAll \/ JoinThreads))

ProcessSpec == ProcessInit /\ [][ProcessNext]_processState /\ LifeFairness /\ PoolFairness

-----------------------------------------------------------------------------
(* Messages: a hash, a script or a string has a few bytes. *)

Home == <<3, 1, <<1, 2>>, 4>>
Away == <<5, 0, <<2, 2>>, 24>>
In1 == <<<<<<1, 2>>, 0>>, <<>>, 5>>
In2 == <<<<<<2, 2>>, 1>>, <<1, 2, 3>>, 5>>
Tx1 == <<2, <<In1>>, <<<<7, <<1>>>>>>, 0>>
Values == [
  version |-> <<{2, 9}, {1}, {1}, {Home}, {Away}, {3},
                {<<1>>, <<1, 0, 2>>, <<1, 2, 3, 4>>, <<1, 2, 3, 4, 1>>}, {9}, {1}>>,
  verack |-> <<>>,
  addr |-> <<{<<Home>>, <<Home, Away>>, <<Away, Away, Home>>}>>,
  inv |-> <<{<< <<1, <<1, 2>>>> >>, [i \in 1..3 |-> <<2, <<i, 0>>>>]}>>,
  reject |-> <<{<<1>>, <<2>>, <<3, 3>>, <<1, 1, 1>>, <<0, 1>>}, {1, 2, 4},
               {<<1>>, <<1, 1, 1>>}, {<<4, 3>>}>>,
  ping |-> <<{1, 9}, {0}>>,
  pong |-> <<{1, 9}>>,
  sendcmpct |-> <<{1}, {1, 2, 3}>>,
  header |-> <<{1}, {<<1, 2>>}, {70}, {9}>>,
  getblocks |-> <<{1}, {<<<<1, 2>>>>, [i \in 1..3 |-> <<i, i>>]}, {<<1, 1>>}>>,
  tx |-> <<{1}, {<<In1>>, <<In1, In2>>}, {<<<<7, <<>>>>>>, <<<<7, [i \in 1..25 |-> 1]>>>>}, {4}>>,
  block |-> <<{<<1, <<1, 2>>, <<3, 4>>, 5, 6, 7>>}, {<<Tx1>>, <<Tx1, Tx1>>}>>]
Patterns == {Zeros(8), [Zeros(8) EXCEPT ![3] = 1], [i \in 1..8 |-> 1]}
CommandTx == <<1>>
CommandBlock == <<2>>

-----------------------------------------------------------------------------
(* Addresses on both sides of the limits of each range. *)

SampleIpv4s ==
  {<<8, 8, 8, 8>>, <<8, 8, 4, 4>>, <<8, 9, 8, 8>>, <<10, 0, 0, 1>>, <<192, 168, 1, 1>>,
   <<172, 31, 0, 1>>, <<172, 32, 0, 1>>, <<198, 18, 0, 1>>, <<198, 51, 100, 1>>,
   <<100, 64, 0, 1>>, <<100, 128, 0, 1>>, <<169, 254, 1, 1>>, <<127, 0, 0, 1>>,
   <<0, 0, 0, 0>>, <<255, 255, 255, 255>>}

\* a at the front, b at the end.
Ip(a, b) ==
  [n \in 0..15 |->
     IF n < Len(a) THEN a[n + 1] ELSE IF n >= 16 - Len(b) THEN b[n - 15 + Len(b)] ELSE 0]
SampleIps ==
  {Ip(<<>>, <<>>), Ip(<<>>, <<1>>), Ip(<<>>, <<255, 255, 8, 8, 8, 8>>),
   Ip(<<>>, <<255, 255, 0, 0, 8, 8, 8, 8>>), Ip(<<0, 0, 0, 0, 0, 0, 0, 255, 255>>, <<8, 8, 8, 8>>),
   Ip(<<0, 100, 255, 155>>, <<8, 8, 8, 8>>),
   Ip(<<32, 2, 8, 8, 8, 8>>, <<1>>), Ip(<<32, 2, 10, 0, 0, 1>>, <<1>>),
   Ip(<<32, 2, 8, 8, 8, 8>>, <<8, 8, 8, 8>>), Ip(<<>>, <<1, 8, 8, 8, 8>>),
   Ip(<<32, 1, 0, 0>>, <<247, 247, 247, 247>>), Ip(<<32, 1, 0, 0>>, <<8, 8, 1, 1>>),
   Ip(<<32, 1, 13, 184>>, <<1>>), Ip(<<32, 1, 0, 31>>, <<1>>), Ip(<<32, 1, 0, 32>>, <<1>>),
   Ip(<<32, 1, 4, 112, 16>>, <<1>>), Ip(<<32, 1, 4, 112, 31>>, <<1>>),
   Ip(<<32, 1, 4, 112, 32>>, <<1>>), Ip(<<32, 1, 5, 1, 1>>, <<1>>), Ip(<<32, 1, 5, 1, 2>>, <<1>>),
   Ip(<<252>>, <<1>>), Ip(<<254, 128>>, <<1>>), Ip(<<254, 128, 0, 0, 0, 0, 0, 1>>, <<1>>),
   Ip(<<253, 135, 216, 126, 235, 67, 16, 1>>, <<>>), Ip(<<253, 135, 216, 126, 235, 67, 31, 1>>, <<>>),
   Ip(<<253, 107, 136, 192, 135, 36, 1>>, <<>>)}
SampleHashes == {[i \in 1..32 |-> i]}
SampleLengths == {-1, 0, 4, 15, 16, 31, 32, 33, 127, 128, 129}
SampleMasks ==
  {Ip(<<255, 255, 255, 255>>, <<>>), Ip(<<255, 0, 255>>, <<>>), Ip(<<>>, <<255, 255, 255, 0>>),
   Ip(<<>>, <<255, 0, 255, 0>>)}

\* The operations on bits of the code (network_address.cpp:145, 156, 430, 455, 666, 672).
ASSUME BytesAreBitwise ==
  /\ \A b \in 0..255 : /\ \A mask \in 0..255 : BitAnd[<<b, mask>>] = b & mask
                       /\ b \in {252, 253} <=> (b & 254) = 252
                       /\ b \in 16..31 <=> (b & 240) = 16
                       /\ 255 - b = b ^^ 255
  /\ \A k \in 1..7 :
       /\ HighBits[k] = 256 - 2 ^ (8 - k)
       /\ \A b \in 0..255 :
            BitAnd[<<b, HighBits[k]>>] + 255 - HighBits[k] = b | (2 ^ (8 - k) - 1)

-----------------------------------------------------------------------------
(* Blocks: a chain long enough for a locator to leave some out, two forks, and a *)
(* tree of its own.                                                              *)

TreeBlocks == 0..21
TreeParent ==
  [b \in TreeBlocks |->
     CASE b \in {0, 20} -> NoBlock [] b = 16 -> 2 [] b = 19 -> 14 [] OTHER -> b - 1]
TreeProof == [b \in TreeBlocks |-> IF b \in {16, 19} THEN 2 ELSE 1]
TreeTxs == [b \in TreeBlocks |-> 1]

\* The code takes the lowest bit off with n & (n - 1) (block_index.h:211).
ASSUME LowestOneIsBitwise == \A n \in 1..128 : InvertLowestOne[n] = n & (n - 1)

-----------------------------------------------------------------------------
(* Scripts: numbers on both sides of each size, data of every kind of push.  Targets: *)
(* every size with the words around the limits of overflow and sign.                 *)

SampleNumbers == {-300, -1, 0, 1, 2, 3, 4, 31, 32, 2047, 2048}
SampleData == {<<4>>, <<7, 3>>, <<1, 5>>, <<0, 0, 0, 5>>, <<7, 7, 7, 7>>, [i \in 1..7 |-> 0],
               [i \in 1..8 |-> 1], [i \in 1..64 |-> 2]}
SampleBits ==
  {size * 512 + word : size \in 0..7,
     word \in {0, 1, 7, 8, 63, 64, 255, 256, 257, 263, 264, 319, 320, 511}}
SampleTargets == {0, 1, 3, 4, 7, 8, 31, 32, 63, 64, 255, 256, 257, 511, 512, 2047, 2048, 2049, 4095}

-----------------------------------------------------------------------------
(* Transactions: sums within the limit, above it, and beyond the width of an amount. *)

SampleInputs == {<<"coin">>}
SampleOutputs == {<<1, 2>>, <<2, 2, 5>>}

SampleOffsets == {-1, 1, 2}

=============================================================================
