----------------------------- MODULE ConsensusData -----------------------------
(* What blocks are made of, scripts, targets, Merkle roots and transactions, *)
(* taken together.                                                           *)
EXTENDS Encodings, Transactions

\* Nothing of a block is lost on its way into bytes and out of them, nor while it is handed
\* around as objects (script.cpp, compact.cpp, block.cpp:234, transaction.cpp:442).
ConsensusDataSafe == EncodingsSafe /\ TransactionsSafe
=============================================================================
