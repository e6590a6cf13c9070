----------------------------- MODULE Transactions -----------------------------
(***************************************************************************)
(* Transaction objects and the hash each of them remembers                 *)
(* (consensus/src/transaction.cpp): constructed, copied, moved, assigned,  *)
(* set, deserialized, compared.                                            *)
(*                                                                         *)
(* The content of a transaction is the record of its fields; its lock time *)
(* is treated like its version, an input is its prevout, an output its     *)
(* value.  The hash is taken to tell contents apart, so a hash is the      *)
(* content it was computed of.  The constructors do not initialise         *)
(* hash_cache_: it holds the null hash or whatever the memory held.        *)
(***************************************************************************)
EXTENDS Naturals, Sequences

CONSTANTS
  Slots,                            \* the objects
  Versions, InputLists, OutputLists,\* values of the fields
  DefaultVersion,
  MaxSatoshiAmount,                 \* kMaxSatoshiAmount
  AmountModulus,                    \* 2^64; TxOut::null_value is one less
  NullHash, MemoryHash              \* null_hash, and what was in memory instead

ASSUME TransactionsAssumption ==
  /\ DefaultVersion \in Versions
  /\ AmountModulus \in Nat /\ MaxSatoshiAmount \in Nat /\ 2 * MaxSatoshiAmount < AmountModulus
  /\ OutputLists \subseteq Seq(0..AmountModulus - 1)

VARIABLES
  held,     \* held[s]: the content and the remembered hash of object s
  outdated  \* history: objects whose remembered hash may not be theirs

transactionState == <<held, outdated>>

-----------------------------------------------------------------------------

Content(v, ins, outs) == [version |-> v, inputs |-> ins, outputs |-> outs]
Contents == {Content(v, ins, outs) : v \in Versions, ins \in InputLists, outs \in OutputLists}

\* Transaction().
Fresh(tx) == [tx |-> tx, hash |-> NullHash]
DefaultTransaction == Fresh(Content(DefaultVersion, <<>>, <<>>))

\* GetHash computes the hash of an object that remembers none.
HashOf(o) == IF o.hash = NullHash THEN o.tx ELSE o.hash
Hashed(o) == [o EXCEPT !.hash = HashOf(o)]

\* What a vector that was moved away leaves behind.
MovedFrom(o) == [o EXCEPT !.tx.inputs = <<>>, !.tx.outputs = <<>>]

\* OutputsAmount throws, or returns the sum.
Summed(acc, value) ==
  LET amount == (acc.amount + value) % AmountModulus
  IN IF acc.thrown THEN acc
     ELSE [amount |-> amount, thrown |-> value > MaxSatoshiAmount \/ amount > MaxSatoshiAmount]
OutputsAmount(tx) ==
  LET after[k \in 0..Len(tx.outputs)] ==
        IF k = 0 THEN [amount |-> 0, thrown |-> FALSE] ELSE Summed(after[k - 1], tx.outputs[k])
  IN after[Len(tx.outputs)]

-----------------------------------------------------------------------------

TransactionsInit ==
  /\ held = [s \in Slots |-> DefaultTransaction]
  /\ outdated = {}

\* The other constructors, which compute the hash over memory as they find it.
Construct(s, tx) ==
  \E memory \in {NullHash, MemoryHash} :
    /\ held' = [held EXCEPT ![s] = Hashed([tx |-> tx, hash |-> memory])]
    /\ outdated' = IF memory = NullHash THEN outdated \ {s} ELSE outdated \cup {s}

ConstructOf(s) == \E tx \in Contents : Construct(s, tx)
CopyConstruct(s, from) == s # from /\ Construct(s, held[from].tx)

MoveConstruct(s, from) ==
  /\ s # from
  /\ \E memory \in {NullHash, MemoryHash} :
       /\ held' = [held EXCEPT ![s] = Hashed([tx |-> held[from].tx, hash |-> memory]),
                               ![from] = MovedFrom(held[from])]
       /\ outdated' = (IF memory = NullHash THEN outdated \ {s} ELSE outdated \cup {s})
                      \cup (IF held[from].hash = NullHash THEN {} ELSE {from})

\* operator=.
AssignFrom(s, from) ==
  /\ held' = [held EXCEPT ![s] = Fresh(held[from].tx)]
  /\ outdated' = outdated \ {s}

AssignMoved(s, from) ==
  /\ s # from
  /\ held' = [held EXCEPT ![s] = Fresh(held[from].tx), ![from] = MovedFrom(held[from])]
  /\ outdated' = (outdated \ {s}) \cup (IF held[from].hash = NullHash THEN {} ELSE {from})

\* Each setter forgets the hash.
SetTo(s, tx) == held' = [held EXCEPT ![s] = Fresh(tx)] /\ outdated' = outdated \ {s}
SetVersionOf(s) == \E v \in Versions : SetTo(s, [held[s].tx EXCEPT !.version = v])
SetInputsOf(s) == \E ins \in InputLists : SetTo(s, [held[s].tx EXCEPT !.inputs = ins])
SetOutputsOf(s) == \E outs \in OutputLists : SetTo(s, [held[s].tx EXCEPT !.outputs = outs])

\* Deserialize reads the fields and leaves the remembered hash alone.
DeserializeInto(s) ==
  /\ \E tx \in Contents : held' = [held EXCEPT ![s].tx = tx]
  /\ outdated' = IF held[s].hash = NullHash THEN outdated ELSE outdated \cup {s}

GetHashOf(s) == held' = [held EXCEPT ![s] = Hashed(@)] /\ UNCHANGED outdated

\* operator== compares the hashes.
Equal(s, t) == HashOf(held[s]) = HashOf(held[t])
Compare(s, t) ==
  /\ held' = [held EXCEPT ![s] = Hashed(@), ![t] = Hashed(@)]
  /\ UNCHANGED outdated

TransactionsNext ==
  \E s \in Slots :
    \/ ConstructOf(s)
    \/ SetVersionOf(s) \/ SetInputsOf(s) \/ SetOutputsOf(s)
    \/ DeserializeInto(s) \/ GetHashOf(s)
    \/ \E t \in Slots :
         \/ CopyConstruct(s, t) \/ MoveConstruct(s, t)
         \/ AssignFrom(s, t) \/ AssignMoved(s, t)
         \/ Compare(s, t)

TransactionsSpec == TransactionsInit /\ [][TransactionsNext]_transactionState

-----------------------------------------------------------------------------
(* Properties. *)

\* However a transaction came to hold what it holds, its hash is that of its content
\* (transaction.cpp:442) and two of them are equal exactly when their contents are
\* (transaction.cpp:408); but for one constructed over memory that was not clean, and one
\* deserialized or moved from after its hash was computed, until it is set or assigned.
HashIsOfContent ==
  /\ \A s \in Slots : HashOf(held[s]) # held[s].tx => s \in outdated
  /\ \A s, t \in Slots \ outdated : Equal(s, t) <=> held[s].tx = held[t].tx

SumOf(values) ==
  LET sum[k \in 0..Len(values)] == IF k = 0 THEN 0 ELSE sum[k - 1] + values[k]
  IN sum[Len(values)]

\* OutputsAmount (transaction.cpp:468) returns the sum of the outputs or throws: no output
\* and no sum above the limit is returned, not even one that wrapped around.
AmountIsSum ==
  \A s \in Slots :
    LET sum == SumOf(held[s].tx.outputs)
        amount == OutputsAmount(held[s].tx)
    IN /\ amount.thrown <=> sum > MaxSatoshiAmount
       /\ ~amount.thrown => amount.amount = sum

TransactionsSafe == HashIsOfContent /\ AmountIsSum
=============================================================================
