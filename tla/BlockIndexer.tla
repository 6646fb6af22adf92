----------------------------- MODULE BlockIndexer -----------------------------
(***************************************************************************)
(* batch/indexer_Block_Tx_Data.py: every block of the chain with its       *)
(* transactions.  Block, transactions and block number are committed block *)
(* by block; block 0 is the first one.  A node that lags does not know a   *)
(* block and raises.                                                       *)
(***************************************************************************)
EXTENDS Integers

CONSTANTS Node,         \* nodes a request can be served by
          MaxHeight,    \* bound on the height of the chain
          TxCount,      \* number of transactions of each block
          MaxFailures   \* bound on exceptions and restarts

ASSUME BlockAssumption ==
    /\ MaxHeight \in Nat /\ MaxFailures \in Nat
    /\ TxCount \in [0..MaxHeight -> Nat]

VARIABLES
    height,     \* the newest block
    head,       \* the newest block each node has imported
    blocks,     \* IDXBlockData: a block with the transactions it lists, for each row
    txs,        \* IDXTxData: block and index of each transaction
    number,     \* IDXBlockDataBlockNumber, -1: no row
    next,       \* the block the process reads next
    last,       \* latest_block of its pass, -1: between two passes
    failures

vars == <<height, head, blocks, txs, number, next, last, failures>>

Transactions(b) == {b} \X (1..TxCount[b])

Init ==
    /\ height = 0
    /\ head = [n \in Node |-> 0]
    /\ blocks = {} /\ txs = {} /\ number = -1
    /\ next = 0 /\ last = -1 /\ failures = 0

\* Blocks are made, and imported by the nodes at their own pace.
NewBlock ==
    /\ height < MaxHeight
    /\ height' = height + 1
    /\ UNCHANGED <<head, blocks, txs, number, next, last, failures>>

Import ==
    /\ \E n \in Node : head[n] < height /\ head' = [head EXCEPT ![n] = @ + 1]
    /\ UNCHANGED <<height, blocks, txs, number, next, last, failures>>

\* Mutant: the newest block is left for the next pass.
StartBehind ==
    /\ last = -1
    /\ \E n \in Node : number + 1 < head[n] /\ last' = head[n] - 1
    /\ next' = number + 1
    /\ UNCHANGED <<height, head, blocks, txs, number, failures>>

\* block_number, and the number of the last block stored.
Start ==
    /\ last = -1
    /\ \E n \in Node : number + 1 <= head[n] /\ last' = head[n]
    /\ next' = number + 1
    /\ UNCHANGED <<height, head, blocks, txs, number, failures>>

\* Mutant: the block number is left for the end of the pass.
StoreAtEnd(b) ==
    /\ blocks' = blocks \union {<<b, Transactions(b)>>}
    /\ txs' = txs \union Transactions(b)
    /\ number' = IF b = last THEN b ELSE number

\* The rows of one block and its number, in one commit.
Store(b) ==
    /\ blocks' = blocks \union {<<b, Transactions(b)>>}
    /\ txs' = txs \union Transactions(b)
    /\ number' = b

\* get_block of the next block.
IndexBlock ==
    /\ last # -1
    /\ \E n \in Node : next <= head[n]
    /\ Store(next)
    /\ next' = next + 1
    /\ last' = IF next = last THEN -1 ELSE last
    /\ UNCHANGED <<height, head, failures>>

\* BlockNotFound, any other exception or the end of the process.
Fail ==
    /\ last # -1 /\ failures < MaxFailures
    /\ last' = -1
    /\ failures' = failures + 1
    /\ UNCHANGED <<height, head, blocks, txs, number, next>>

Next == NewBlock \/ Import \/ Start \/ IndexBlock \/ Fail

Spec == Init /\ [][Next]_vars

\* The process runs on.
FairSpec == Spec /\ WF_vars(Start) /\ WF_vars(IndexBlock)

------------------------------------------------------------------------------
(* Properties. *)

TypeOK ==
    /\ height \in 0..MaxHeight
    /\ head \in [Node -> 0..height]
    /\ number \in -1..height /\ last \in -1..height
    /\ last # -1 => next = number + 1 /\ next <= last
    /\ failures \in 0..MaxFailures

\* After any number of aborted passes, answered by nodes that lag, the tables hold the
\* chain up to the block number: no block and no transaction is missing or too many.
TablesAreChainPrefix ==
    /\ blocks = {<<b, Transactions(b)>> : b \in 0..number}
    /\ txs = UNION {Transactions(b) : b \in 0..number}

\* Every block is stored in the end.
EveryBlockIndexed == \A b \in 0..MaxHeight : (\A n \in Node : b <= head[n]) ~> (number >= b)
==============================================================================
