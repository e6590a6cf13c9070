----------------------------- MODULE BlockTree -----------------------------
(***************************************************************************)
(* The index of blocks and the active chain: BlockIndex (block_index.h,    *)
(* block_index.cpp), Chain and ChainState (chain_state.h,                  *)
(* chain_state.cpp).                                                       *)
(*                                                                         *)
(* A header is told from another by its block, its work is given.  One     *)
(* behaviour is that of a client (the unit tests) that links BlockIndex    *)
(* objects and moves a Chain of its own over them, or that of a ChainState *)
(* whose one public operation that changes anything is LoadGenesisBlock.   *)
(* BlockIndex::BuildSkip of a block with a parent never returns, in        *)
(* either.                                                                 *)
(***************************************************************************)
EXTENDS Integers, Sequences, FiniteSets

CONSTANTS
  Blocks,      \* 0 .. n, in the order in which they are made
  Parent,      \* the parent of each, NoBlock for a genesis block
  BlockProof,  \* the work in the header of each
  TxNum,       \* how many transactions each has
  NoBlock,
  StackFrames  \* the calls the stack of a thread has room for

\* A block has a transaction at least, and is not its own name for none.
ASSUME TreeAssumption ==
  /\ NoBlock \notin Blocks
  /\ Parent \in [Blocks -> Blocks \cup {NoBlock}]
  /\ BlockProof \in [Blocks -> Nat]
  /\ TxNum \in [Blocks -> Nat \ {0}]
  /\ StackFrames \in Nat \ {0}

VARIABLES
  index,      \* the BlockIndex of each block: those linked, or all of map_block_index_
  best,       \* pindex_best_header_, NoBlock as long as nothing was loaded
  candidates, \* set_block_index_candidates_
  sequence,   \* block_sequence_id
  chain,      \* the client's Chain, or active_chain_, from height 0
  building,   \* the block whose BuildSkip is running, or NoBlock
  frames,     \* how often its parent's GetAncestor has been called
  ended       \* the process: by an assertion, or for want of stack

treeState == <<index, best, candidates, sequence, chain, building, frames, ended>>

-----------------------------------------------------------------------------
(* BlockIndex. *)

\* The numeric values of the levels of BlockStatus that are reached.
BlockValidTree == 2
BlockValidTransactions == 3

\* n & (n - 1), from the lowest bit up.
InvertLowestOne[n \in Nat] ==
  IF n = 0 THEN 0 ELSE IF n % 2 = 1 THEN n - 1 ELSE 2 * InvertLowestOne[n \div 2]
GetSkipHeight(height) ==
  CASE height < 2 -> 0
    [] height >= 2 /\ height % 2 = 1 -> InvertLowestOne[InvertLowestOne[height - 1]] + 1
    [] OTHER -> InvertLowestOne[height]

Height(b) == index[b].height

\* The condition of the loop of GetAncestor at b, said to be of height at: the skip
\* pointer is followed unless it goes too far, or that of the parent is better.
SkipHelps(b, at, height) ==
  LET skip == GetSkipHeight(at)
      skipPrev == GetSkipHeight(at - 1)
  IN /\ index[b].skip # NoBlock
     /\ \/ skip = height
        \/ skip > height /\ ~(skipPrev < skip - 2 /\ skipPrev >= height)

\* The loop, of a block and the height it is said to have; no block is where the code
\* asserts that there is a parent.
WalkBack(b, height) ==
  LET Walk[p \in (DOMAIN index \cup {NoBlock}) \X Nat] ==
        IF p[1] = NoBlock \/ p[2] <= height THEN p[1]
        ELSE IF SkipHelps(p[1], p[2], height)
             THEN Walk[<<index[p[1]].skip, GetSkipHeight(p[2])>>]
             ELSE Walk[<<index[p[1]].prev, p[2] - 1>>]
  IN Walk[<<b, Height(b)>>]

GetAncestor(b, height) ==
  IF height > Height(b) \/ height < 0 THEN NoBlock ELSE WalkBack(b, height)

\* BlockIndexWorkComparator: is a before b in i; blocks stand for their addresses too.
LessWork(i, a, b) ==
  LET x == i[a]
      y == i[b]
  IN \/ x.work < y.work
     \/ x.work = y.work /\ x.seq > y.seq
     \/ x.work = y.work /\ x.seq = y.seq /\ a > b

-----------------------------------------------------------------------------
(* Chain, read. *)

Tip == IF chain = << >> THEN NoBlock ELSE chain[Len(chain)]
GetBlockIndex(height) ==
  IF height >= 0 /\ height < Len(chain) THEN chain[height + 1] ELSE NoBlock
IsExist(b) == GetBlockIndex(Height(b)) = b

\* Without a test that b is in the chain.
NextOf(b) == GetBlockIndex(Height(b) + 1)

\* The next block of a locator after b, step blocks before it.
StepBack(b, step) ==
  LET height == IF Height(b) > step THEN Height(b) - step ELSE 0
  IN IF IsExist(b) THEN GetBlockIndex(height) ELSE GetAncestor(b, height)

\* The loop: of a block, the step to the next, and how many hashes are out before it.
GetLocator(b) ==
  LET From[p \in (DOMAIN index \cup {NoBlock}) \X (Nat \ {0}) \X Nat] ==
        IF p[1] = NoBlock THEN << >>
        ELSE IF Height(p[1]) = 0 THEN <<p[1]>>
        ELSE <<p[1]>> \o From[<<StepBack(p[1], p[2]),
                               IF p[3] + 1 > 10 THEN 2 * p[2] ELSE p[2], p[3] + 1>>]
  IN From[<<IF b = NoBlock THEN Tip ELSE b, 1, 0>>]

FirstInChain(b) ==
  LET First[x \in DOMAIN index \cup {NoBlock}] ==
        IF x = NoBlock \/ IsExist(x) THEN x ELSE First[index[x].prev]
  IN First[b]

\* Height() of an empty chain is the largest uint32_t.
FindFork(b) ==
  FirstInChain(IF chain # << >> /\ Height(b) > Len(chain) - 1
               THEN GetAncestor(b, Len(chain) - 1) ELSE b)

-----------------------------------------------------------------------------
(* ChainState and Chain, changed. *)

TreeInit ==
  /\ index = << >> /\ best = NoBlock /\ candidates = {} /\ sequence = 1 /\ chain = << >>
  /\ building = NoBlock /\ frames = 0 /\ ended = FALSE

Idle == building = NoBlock /\ ~ended

\* A BlockIndex with its parent and height, and nothing else.
Linked(prev) ==
  [prev |-> prev, skip |-> NoBlock, height |-> IF prev = NoBlock THEN 0 ELSE Height(prev) + 1,
   work |-> 0, tx |-> 0, chainTx |-> 0, data |-> FALSE, seq |-> 0, valid |-> 0]

With(b, entry) == [x \in DOMAIN index \cup {b} |-> IF x = b THEN entry ELSE index[x]]

\* The call in the GetAncestor of a BlockIndex that is not const is meant for the const
\* one, and is of itself.
CallGetAncestor(b) == building' = b /\ frames' = 1

GetAncestorAgain ==
  /\ building # NoBlock /\ ~ended
  /\ \/ frames < StackFrames /\ frames' = frames + 1 /\ UNCHANGED ended
     \/ frames = StackFrames /\ ended' = TRUE /\ UNCHANGED frames
  /\ UNCHANGED <<index, best, candidates, sequence, chain, building>>

\* The entry AddToBlockIndex makes of a header whose parent is not known.
Root(b) == [Linked(NoBlock) EXCEPT !.work = BlockProof[b], !.valid = BlockValidTree]

BetterHeader(entry) == best = NoBlock \/ index[best].work < entry.work

\* What ReceivedBlockTransactions makes of the entry of b in i; without a complete
\* parent nothing else is done.
Complete(i, b) ==
  LET prev == i[b].prev
      known == [i[b] EXCEPT !.tx = TxNum[b], !.chainTx = 0, !.data = TRUE,
                  !.valid = IF @ < BlockValidTransactions THEN BlockValidTransactions ELSE @]
  IN CASE prev = NoBlock -> [known EXCEPT !.chainTx = TxNum[b], !.seq = sequence]
       [] prev # NoBlock /\ i[prev].chainTx # 0 ->
            [known EXCEPT !.chainTx = i[prev].chainTx + TxNum[b], !.seq = sequence]
       [] OTHER -> known

\* A loop that only fills cells that are empty.
FillFrom_Gaps(cells, b) ==
  LET Fill[x \in DOMAIN index \cup {NoBlock}] ==
        IF x = NoBlock \/ cells[Height(x) + 1] # NoBlock THEN cells
        ELSE [Fill[index[x].prev] EXCEPT ![Height(x) + 1] = x]
  IN Fill[b]

\* resize to the height of b, then the blocks from b back to the first that is there.
FillFrom(cells, b) ==
  LET Fill[x \in DOMAIN index \cup {NoBlock}] ==
        IF x = NoBlock \/ cells[Height(x) + 1] = x THEN cells
        ELSE [Fill[index[x].prev] EXCEPT ![Height(x) + 1] = x]
  IN Fill[b]

SetTip(b) ==
  chain' = FillFrom([h \in 1..Height(b) + 1 |-> IF h <= Len(chain) THEN chain[h] ELSE NoBlock], b)

\* A client sets the parent and the height of a BlockIndex.
LinkIndex(b) ==
  /\ best = NoBlock
  /\ b \notin DOMAIN index /\ Parent[b] \in DOMAIN index \cup {NoBlock}
  /\ \A c \in Blocks : c < b => c \in DOMAIN index  \* bound: in the order of their numbers
  /\ index' = With(b, Linked(Parent[b]))
  /\ UNCHANGED <<best, candidates, sequence, chain, building, frames, ended>>

\* Without a parent nothing is done.
BuildSkip(b) ==
  /\ best = NoBlock
  /\ index[b].prev # NoBlock
  /\ CallGetAncestor(b)
  /\ UNCHANGED <<index, best, candidates, sequence, chain, ended>>

\* Chain::SetTip to any block linked, and to none.
MoveTip ==
  /\ best = NoBlock
  /\ \/ \E b \in DOMAIN index : SetTip(b)
     \/ chain' = << >>
  /\ UNCHANGED <<index, best, candidates, sequence, building, frames, ended>>

\* LoadGenesisBlock of a block that is not known; of one that is nothing changes.  It is
\* all under one lock.  With a parent it hangs in AddToBlockIndex, and has set no work.
LoadChild(b) ==
  /\ Parent[b] \in DOMAIN index
  /\ index' = With(b, Linked(Parent[b]))
  /\ CallGetAncestor(b)
  /\ UNCHANGED <<best, candidates, sequence, chain, ended>>

\* Without one: the header, its transactions, and ConnectTip, whose assertion says that
\* the parent, none, is the tip.
LoadRoot(b) ==
  /\ Parent[b] \notin DOMAIN index
  /\ index' = With(b, Complete(With(b, Root(b)), b))
  /\ best' = IF BetterHeader(Root(b)) THEN b ELSE best
  /\ sequence' = sequence + 1
  /\ candidates' = IF Tip = NoBlock \/ ~LessWork(index', b, Tip) THEN candidates \cup {b}
                   ELSE candidates
  /\ IF Tip = NoBlock THEN chain' = <<b>> /\ UNCHANGED ended
     ELSE ended' = TRUE /\ UNCHANGED chain
  /\ UNCHANGED <<building, frames>>

LoadGenesisBlock(b) ==
  /\ best = NoBlock => index = << >>  \* the behaviour is not a client's
  /\ b \notin DOMAIN index
  /\ LoadChild(b) \/ LoadRoot(b)

TreeNext ==
  \/ Idle /\ \E b \in Blocks : LinkIndex(b) \/ LoadGenesisBlock(b)
  \/ Idle /\ \E b \in DOMAIN index : BuildSkip(b)
  \/ Idle /\ MoveTip
  \/ GetAncestorAgain

TreeSpec == TreeInit /\ [][TreeNext]_treeState

-----------------------------------------------------------------------------
(* Properties. *)

\* The blocks from the root of b to b, by parents alone.
Path(b) ==
  LET To[x \in DOMAIN index] ==
        IF index[x].prev = NoBlock THEN <<x>> ELSE Append(To[index[x].prev], x)
  IN To[b]

\* The step of a locator after i hashes.
Step[i \in Nat] == IF i <= 11 THEN 1 ELSE 2 * Step[i - 1]

\* GetAncestor (the const one) comes to the block that parents alone lead to.
AncestorsAreExact ==
  \A b \in DOMAIN index :
    LET path == Path(b)
    IN Len(path) = Height(b) + 1
         /\ \A h \in 0..Height(b) : GetAncestor(b, h) = path[h + 1]

\* What calls of LoadGenesisBlock that returned leave: one block, which is tip, best
\* header and the only candidate, with all its transactions.
GenesisStands ==
  best # NoBlock /\ Idle =>
    /\ DOMAIN index = {best} /\ chain = <<best>> /\ candidates = {best}
    /\ index[best].chainTx = TxNum[best] /\ index[best].seq < sequence

\* After SetTip the chain is the path to its tip, whatever it was before, and FindFork
\* is the last block common to it and to the path of another.
ChainIsPath ==
  chain # << >> =>
    /\ chain = Path(Tip)
    /\ \A b \in DOMAIN index :
         LET common == {i \in 1..Len(chain) : i <= Len(Path(b)) /\ Path(b)[i] = chain[i]}
         IN FindFork(b) = IF common = {} THEN NoBlock
                          ELSE chain[CHOOSE i \in common : \A j \in common : j <= i]

\* A locator names ancestors of its block, from itself through ten in a row and then in
\* steps that double, to the first; so a peer on a fork of depth d is found within 2 d.
LocatorIsSparse ==
  \A b \in DOMAIN index :
    LET out == GetLocator(b)
    IN /\ out[1] = b /\ Height(out[Len(out)]) = 0
       /\ \A i \in 1..Len(out) : out[i] = Path(b)[Height(out[i]) + 1]
       /\ \A i \in 1..Len(out) - 1 :
            Height(out[i + 1]) = IF Height(out[i]) > Step[i] THEN Height(out[i]) - Step[i] ELSE 0

\* The index and the chain together.
TreeSafe == AncestorsAreExact /\ GenesisStands /\ ChainIsPath /\ LocatorIsSparse
=============================================================================
