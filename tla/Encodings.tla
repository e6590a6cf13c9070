------------------------------- MODULE Encodings -------------------------------
(***************************************************************************)
(* Encodings of consensus data: numbers and data pushed on a Script and    *)
(* popped from it (consensus/src/script.cpp), targets in the compact form  *)
(* of a header's bits and the work they stand for (compact.cpp,            *)
(* BlockHeader::GetBlockProof), the root of the transactions               *)
(* (Block::ComputeMerkleRoot).                                             *)
(*                                                                         *)
(* A byte is a number below Radix (256 in the program); its upper half has *)
(* the sign bit set.  DoubleSha256 is taken to be injective: the hash of   *)
(* two hashes is the pair.                                                 *)
(***************************************************************************)
EXTENDS Integers, SequencesExt

CONSTANTS
  Radix,                  \* bytes are 0 .. Radix - 1
  IntBytes,               \* sizeof(int), and ScriptInt::max_size
  PushData1, PushData2, PushData4,  \* Opcode::OP_PUSHDATA1, 2 and 4; OP_0 is 0
  Op1, SmallNumbers,      \* OP_1, and how many opcodes stand for 1, 2, ... (16)
  OtherOpcodes,           \* opcodes that push nothing
  TargetBytes,            \* of a target (32)
  Numbers, Data, Bits, Targets, Txs, \* the values that are encoded
  MaxPushes, MaxTxs       \* bounds on a script and on a block

\* Radix^k.
Power[k \in Nat] == IF k = 0 THEN 1 ELSE Radix * Power[k - 1]

\* A number is an int64_t, data no longer than a size of four bytes can say, the bits of
\* a header are four bytes, a target has the bytes of a target.
ASSUME EncodingsAssumption ==
  /\ Radix \in Nat /\ Radix % 2 = 0 /\ Radix > 2
  /\ IntBytes \in Nat \ {0}
  /\ PushData1 \in Nat /\ PushData2 \in Nat /\ PushData4 \in Nat
  /\ Op1 \in Nat /\ SmallNumbers \in Nat
  /\ 0 < PushData1 /\ PushData1 < PushData2 /\ PushData2 < PushData4
  /\ PushData4 < Op1 - 2 /\ Op1 + SmallNumbers <= Radix
  /\ OtherOpcodes \subseteq PushData4 + 1..Radix - 1
  /\ TargetBytes \in Nat /\ TargetBytes >= 3
  /\ Numbers \subseteq Int /\ \A n \in Numbers : n < Power[8]
  /\ \A b \in Data : b \in Seq(0..Radix - 1) /\ Len(b) < Power[4]
  /\ Bits \subseteq 0..Power[4] - 1
  /\ Targets \subseteq 0..Power[TargetBytes] - 1

VARIABLES
  use,     \* what is encoded: "script", "compact", "merkle"
  script,  \* data_
  pushed,  \* history: what was pushed
  walk,    \* the reader of the script: its iterator, what it popped, how it stands, and
           \* whether it moves the iterator past data that it popped
  compact, \* a Compact
  txs      \* the hashes of a block's transactions

encodingState == <<use, script, pushed, walk, compact, txs>>

-----------------------------------------------------------------------------
(* ScriptInt. *)

SignBit == Radix \div 2

\* Compact::LogicalSize, and the number of rounds of BytesEncoding.
LogicalSize[n \in Nat] == IF n = 0 THEN 0 ELSE 1 + LogicalSize[n \div Radix]
Digits(n, k) == [i \in 1..k |-> (n \div Power[i - 1]) % Radix]

\* The lowest byte first.
Number(b) ==
  LET low[k \in 0..Len(b)] == IF k = 0 THEN 0 ELSE low[k - 1] + Power[k - 1] * b[k]
  IN low[Len(b)]

\* The value is unsigned, so no number is taken to be negative, and the loop over one
\* whose top bit is set shifts in that bit for ever.
Endless(n) == n < 0
BytesEncoding(n) ==
  LET b == Digits(n, LogicalSize[n])
  IN IF n > 0 /\ Last(b) >= SignBit THEN Append(b, 0) ELSE b

NonMinimal(b) ==
  /\ Last(b) % SignBit = 0
  /\ Len(b) < 2 \/ b[Len(b) - 1] < SignBit

\* ScriptInt(bytes, minimal) throws.
Refused(b, minimal) ==
  b # <<>> /\ (Len(b) > IntBytes \/ (minimal /\ NonMinimal(b)))

\* Shifted to the top of an int, the last byte of four makes it negative.
ScriptInt(b) ==
  LET negative == b # <<>> /\ Last(b) >= SignBit
      value == Number(b) - (IF negative /\ Len(b) = IntBytes THEN Power[IntBytes] ELSE 0)
  IN IF negative THEN - (value - SignBit * Power[Len(b) - 1]) ELSE value

IntMax == Power[IntBytes] \div 2 - 1
IntValue(n) == IF n > IntMax THEN IntMax ELSE IF n < - IntMax - 1 THEN - IntMax - 1 ELSE n

-----------------------------------------------------------------------------
(* Script. *)

SizeBytes_OffByOne(n) ==
  CASE n <= PushData1 -> <<n>>
    [] n > PushData1 /\ n < Radix -> <<PushData1, n>>
    [] n >= Radix /\ n < Power[2] -> <<PushData2>> \o Digits(n, 2)
    [] OTHER -> <<PushData4>> \o Digits(n, 4)

\* What Push(vector) puts before n bytes.
SizeBytes(n) ==
  CASE n < PushData1 -> <<n>>
    [] n >= PushData1 /\ n < Radix -> <<PushData1, n>>
    [] n >= Radix /\ n < Power[2] -> <<PushData2>> \o Digits(n, 2)
    [] OTHER -> <<PushData4>> \o Digits(n, 4)

Opcode(op) == [op |-> op, data |-> <<>>]
Small(n) == n = -1 \/ n \in 1..SmallNumbers

Pushing(bytes, b, n) ==
  /\ use = "script" /\ walk.at = "writing" /\ Len(pushed) < MaxPushes
  /\ script' = script \o bytes
  /\ pushed' = Append(pushed, [op |-> bytes[1], data |-> b, n |-> n])
  /\ UNCHANGED <<use, walk, compact, txs>>

PushBytes(b, n) == Pushing(SizeBytes(Len(b)) \o b, b, n)

\* Push(uint64_t), Push(ScriptInt), Push(vector), Push(Opcode).
PushNumber(n) ==
  IF Small(n) THEN Pushing(<<Op1 + n - 1>>, <<>>, 0)
  ELSE ~Endless(n) /\ PushBytes(BytesEncoding(n), n)
PushScriptInt(n) == ~Endless(n) /\ PushBytes(BytesEncoding(n), n)
PushData(b) == PushBytes(b, 0)
PushOpcode(op) == Pushing(<<op>>, <<>>, 0)

\* A number with its top bit set takes all memory.
NeverPushed(n) ==
  /\ use = "script" /\ walk.at = "writing" /\ Len(pushed) < MaxPushes
  /\ Endless(n)
  /\ walk' = [walk EXCEPT !.at = "stuck"]
  /\ UNCHANGED <<use, script, pushed, compact, txs>>

\* A script that arrived from elsewhere may end anywhere.
Received ==
  /\ use = "script" /\ walk.at = "writing"
  /\ \E skips \in BOOLEAN : walk' = [walk EXCEPT !.at = "reading", !.skips = skips]
  /\ \E n \in 0..Len(script) : script' = SubSeq(script, 1, n)
  /\ UNCHANGED <<use, pushed, compact, txs>>

\* Pop(pc, op, &data), the opcode being read: the size, the data if all of it is there.
SizeIs(op, pc) ==
  CASE op < PushData1 -> [at |-> pc, size |-> op]
    [] op = PushData1 -> [at |-> pc + 1, size |-> IF pc < Len(script) THEN script[pc + 1] ELSE 0]
    [] op = PushData2 /\ pc + 2 <= Len(script) ->
         [at |-> pc + 2, size |-> Number(SubSeq(script, pc + 1, pc + 2))]
    [] op = PushData4 /\ pc + 4 <= Len(script) ->
         [at |-> pc + 4, size |-> Number(SubSeq(script, pc + 1, pc + 4))]
    [] OTHER -> [at |-> Len(script) + 1, size |-> 0]

\* Pop leaves the iterator where the data begin; a reader that wants the next item moves
\* it past them, with the size of what it got.
PopData(op, pc) ==
  LET s == SizeIs(op, pc)
  IN IF pc >= Len(script) \/ s.at + s.size > Len(script)
     THEN [walk EXCEPT !.at = "failed"]
     ELSE [walk EXCEPT !.pc = IF walk.skips THEN s.at + s.size ELSE s.at,
             !.popped = Append(@, [op |-> op, data |-> SubSeq(script, s.at + 1, s.at + s.size)])]

\* Pop(pc, &op), then Pop of the data of an opcode that has some.
PopNext ==
  /\ use = "script" /\ walk.at = "reading" /\ walk.pc < Len(script)
  /\ LET op == script[walk.pc + 1]
     IN walk' = IF op = 0 \/ op > PushData4
                THEN [walk EXCEPT !.pc = @ + 1, !.popped = Append(@, Opcode(op))]
                ELSE PopData(op, walk.pc + 1)
  /\ UNCHANGED <<use, script, pushed, compact, txs>>

-----------------------------------------------------------------------------
(* Compact. *)

\* Radix^3 has the size above and the mantissa, with its sign bit on top, below.
SignOfWord == Power[3] \div 2

SetCompact(bits) ==
  LET size == bits \div Power[3]
      low == bits % SignOfWord
      word == IF size <= 3 THEN low \div Power[3 - size] ELSE low
  IN [normal |-> IF size <= 3 THEN word ELSE (word * Power[size - 3]) % Power[TargetBytes],
      negative |-> word # 0 /\ bits % Power[3] >= SignOfWord,
      overflowed |-> word # 0 /\ \/ size > TargetBytes + 2
                                 \/ word >= Radix /\ size > TargetBytes + 1
                                 \/ word >= Power[2] /\ size > TargetBytes]

\* The mantissa and the size before they are joined.
Parts(normal) ==
  LET size == LogicalSize[normal]
      word == IF size <= 3 THEN normal * Power[3 - size] ELSE normal \div Power[size - 3]
  IN IF word >= SignOfWord THEN [word |-> word \div Radix, size |-> size + 1]
                           ELSE [word |-> word, size |-> size]
GetCompact(normal) == LET p == Parts(normal) IN p.word + p.size * Power[3]

\* BlockHeader::GetBlockProof.
GetBlockProof(bits) ==
  LET c == SetCompact(bits)
  IN IF c.negative \/ c.overflowed \/ c.normal = 0 THEN 0
     ELSE (Power[TargetBytes] - 1 - c.normal) \div (c.normal + 1) + 1

NoCompact == [normal |-> 0, negative |-> FALSE, overflowed |-> FALSE, bits |-> 0, compact |-> 0,
              proof |-> 0]

\* Compact(uint32_t), and the work of a header with these bits.
FromBits(bits) ==
  /\ use = "compact"
  /\ LET c == SetCompact(bits)
     IN compact' = [normal |-> c.normal, negative |-> c.negative, overflowed |-> c.overflowed,
                    bits |-> bits, compact |-> GetCompact(c.normal),
                    proof |-> GetBlockProof(bits)]
  /\ UNCHANGED <<use, script, pushed, walk, txs>>

\* Compact(uint256_t).
FromNormal(normal) ==
  /\ use = "compact"
  /\ compact' = [NoCompact EXCEPT !.normal = normal, !.bits = GetCompact(normal),
                                  !.compact = GetCompact(normal)]
  /\ UNCHANGED <<use, script, pushed, walk, txs>>

-----------------------------------------------------------------------------
(* The Merkle root. *)

\* One round of the loop, as long as it goes on: each pair is hashed, the last of an odd
\* list with itself.
Paired(leaves) ==
  [i \in 1..(Len(leaves) + 1) \div 2 |->
     <<leaves[2 * i - 1], IF 2 * i <= Len(leaves) THEN leaves[2 * i] ELSE leaves[2 * i - 1]>>]
Round(leaves) == IF Len(leaves) > 1 THEN Paired(leaves) ELSE leaves

ComputeMerkleRoot(leaves) ==
  LET level[k \in Nat] == IF k = 0 THEN leaves ELSE Round(level[k - 1])
  IN level[Len(leaves)][1]

\* set_transactions, of the block that is being built.
SetTransactions ==
  /\ use = "merkle" /\ Len(txs) < MaxTxs
  /\ \E tx \in Txs : txs' = Append(txs, tx)
  /\ UNCHANGED <<use, script, pushed, walk, compact>>

-----------------------------------------------------------------------------

EncodingsInit ==
  /\ use \in {"script", "compact", "merkle"}
  /\ script = <<>> /\ pushed = <<>> /\ walk = [at |-> "writing", pc |-> 0, popped |-> <<>>, skips |-> FALSE]
  /\ compact = NoCompact
  /\ txs = <<>>

EncodingsNext ==
  \/ \E n \in Numbers : PushNumber(n) \/ PushScriptInt(n) \/ NeverPushed(n)
  \/ \E b \in Data : PushData(b)
  \/ \E op \in OtherOpcodes : PushOpcode(op)
  \/ Received \/ PopNext
  \/ \E bits \in Bits : FromBits(bits)
  \/ \E n \in Targets : FromNormal(n)
  \/ SetTransactions

EncodingsSpec == EncodingsInit /\ [][EncodingsNext]_encodingState

-----------------------------------------------------------------------------
(* Properties. *)

AsRead(item) == [op |-> item.op, data |-> item.data]

\* The number a ScriptInt is made of, its sign in the top bit of the last byte.
Meant(b) ==
  IF b # <<>> /\ Last(b) >= SignBit THEN - (Number(b) - SignBit * Power[Len(b) - 1])
  ELSE Number(b)

\* The reader's first i pops left it where an item begins: it moves past data, or there
\* were none.
InStep(i) == walk.skips \/ \A j \in 1..i : walk.popped[j].data = <<>>

\* A script is read as it was written (script.cpp:115-211) as long as the reader is at the
\* beginning of an item: the item there is popped, and Pop fails only where the script ends
\* in the middle of one.  The first data popped take a reader that does not move past them
\* out of step: it takes them for opcodes.  A number pushed as data, unless it needs more
\* than the four bytes of a ScriptInt, is read back as itself and is minimal.  Any other
\* bytes are the number they mean, but for a negative one of four bytes: that is too large
\* by 2^32.
ScriptReadsBack ==
  /\ LET n == Len(walk.popped)
     IN /\ \A i \in 1..n :
             InStep(i - 1) => i <= Len(pushed) /\ walk.popped[i] = AsRead(pushed[i])
        /\ walk.at = "failed" /\ InStep(n) => n < Len(pushed)
        /\ walk.pc <= Len(script)
  /\ \A i \in DOMAIN pushed :
       pushed[i].n \in 1..IntMax =>
         LET b == pushed[i].data
         IN ~Refused(b, TRUE) /\ ScriptInt(b) = pushed[i].n /\ IntValue(ScriptInt(b)) = pushed[i].n
  /\ \A i \in DOMAIN walk.popped :
       LET b == walk.popped[i].data
       IN ~Refused(b, FALSE) =>
            ScriptInt(b) = Meant(b) + (IF Len(b) = IntBytes /\ Last(b) >= SignBit
                                       THEN Power[IntBytes] ELSE 0)

\* The bits of a header and the target they stand for (compact.cpp:48-87): overflow is
\* what does not fit, the compact form of what fits is that of its value, keeps its leading
\* two bytes, is never negative; and the work is 2^256 divided by one more than the target.
CompactIsTarget ==
  LET size == compact.bits \div Power[3]
      low == compact.bits % SignOfWord
      again == SetCompact(compact.compact)
  IN /\ compact.overflowed <=>
          size > 3 /\ low # 0 /\ LogicalSize[low] + size - 3 > TargetBytes
     /\ Parts(compact.normal).word < SignOfWord
     /\ ~again.negative /\ ~again.overflowed
     /\ again.normal <= compact.normal
     /\ LET n == LogicalSize[compact.normal]
        IN compact.normal - again.normal < Power[IF n > 2 THEN n - 2 ELSE 0]
     /\ compact.proof # 0 =>
          /\ again.normal = compact.normal
          /\ compact.proof = Power[TargetBytes] \div (compact.normal + 1)

\* The root tells apart any two lists of as many transactions (block.cpp:234-257).
RootNamesBlock ==
  txs # <<>> =>
    \A other \in [1..Len(txs) -> Txs] :
      ComputeMerkleRoot(other) = ComputeMerkleRoot(txs) => other = txs

\* Nothing is lost in the encodings of consensus data.
EncodingsSafe == ScriptReadsBack /\ CompactIsTarget /\ RootNamesBlock
=============================================================================
