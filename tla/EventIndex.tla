------------------------------ MODULE EventIndex ------------------------------
(***************************************************************************)
(* What an event indexer promises: the table of rows and the block number  *)
(* of each token change together, in one step; the rows are always exactly *)
(* the indexable events up to the block number; a block number only grows  *)
(* and never runs ahead of the chain.                                      *)
(***************************************************************************)
EXTENDS Integers, Sequences

CONSTANTS Token, Event, MaxBlock, Indexable(_)

VARIABLES log,     \* the event sets of the blocks
          index,   \* number of rows for each event of each block
          upto     \* block number of each token

vars == <<log, index, upto>>

Init ==
    /\ log = <<>>
    /\ index = [r \in (1..MaxBlock) \X Event |-> 0]
    /\ upto = [t \in Token |-> -1]

Grow ==
    /\ \E block \in SUBSET Event : log' = Append(log, block)
    /\ UNCHANGED <<index, upto>>

\* The events of tokens S in the blocks after their block number, up to b.
Unread(S, b) ==
    {r \in (1..MaxBlock) \X Event :
        /\ r[1] <= b
        /\ r[1] > upto[r[2].token]
        /\ r[2].token \in S
        /\ r[2] \in log[r[1]]
        /\ Indexable(r[2])}

\* The tokens S are brought up to block b.
Advance ==
    /\ \E S \in SUBSET Token, b \in 0..Len(log) :
          /\ \A t \in S : upto[t] <= b
          /\ index' = [r \in (1..MaxBlock) \X Event |->
                          IF r \in Unread(S, b) THEN index[r] + 1 ELSE index[r]]
          /\ upto' = [t \in Token |-> IF t \in S THEN b ELSE upto[t]]
    /\ UNCHANGED log

Next == Grow \/ Advance

Spec == Init /\ [][Next]_vars
==============================================================================
