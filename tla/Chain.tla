-------------------------------- MODULE Chain --------------------------------
(***************************************************************************)
(* The environment every indexer of the batch directory lives in: the      *)
(* blockchain whose event logs are read, the nodes that answer JSON-RPC    *)
(* requests about it, and the table of listed tokens that the admin API    *)
(* edits while the indexers run.                                           *)
(*                                                                         *)
(* The chain itself is not part of the repository.  It is a growing        *)
(* sequence of blocks, each one the set of the events it emitted.  With    *)
(* more than one node a request may be answered by a node that has not     *)
(* imported the newest blocks yet: the fail-over provider of               *)
(* app/utils/web3_utils.py picks a node anew for every request.            *)
(***************************************************************************)
EXTENDS Integers, Sequences, FiniteSets

CONSTANTS Token,      \* token contracts
          Node,       \* nodes a request can be served by
          Event,      \* the events the chain can emit
          Contents,   \* the event sets a block can carry
          MaxBlock    \* bound on the height of the chain

ASSUME ChainAssumption ==
    /\ MaxBlock \in Nat
    /\ Node # {}
    /\ Contents \subseteq SUBSET Event
    /\ \A e \in Event : e.token \in Token

VARIABLES chain,      \* sequence of blocks, chain[b] is the event set of block b
          head,       \* head[n]: the newest block node n has imported
          listed      \* tokens in the listing table

chainVars == <<chain, head, listed>>

Block == 1..MaxBlock
BlockNumber == 0..MaxBlock

\* The events of kind k that token t emitted in the blocks from..to, as far as
\* a node that has imported h blocks knows them: the answer to get_logs.
Logs(t, k, from, to, h) ==
    {r \in Block \X Event :
        /\ r[1] \in from..to
        /\ r[1] <= h
        /\ r[1] <= Len(chain)
        /\ r[2] \in chain[r[1]]
        /\ r[2].token = t
        /\ r[2].kind = k}

\* What getTokenByAddress of the TokenList contract answers on a node that has
\* imported h blocks.
RegisteredAt(t, h) ==
    \E b \in Block : b <= h /\ b <= Len(chain)
                     /\ \E e \in chain[b] : e.token = t /\ e.kind = "Register"

ChainTypeOK ==
    /\ chain \in Seq(SUBSET Event)
    /\ Len(chain) <= MaxBlock
    /\ head \in [Node -> BlockNumber]
    /\ \A n \in Node : head[n] <= Len(chain)
    /\ listed \subseteq Token

ChainInit ==
    /\ chain = <<>>
    /\ head = [n \in Node |-> 0]
    /\ listed = {}

\* A block is appended and imported at once by the nodes of S.
Mine ==
    /\ Len(chain) < MaxBlock
    /\ \E block \in Contents, S \in (SUBSET Node) \ {{}} :
          /\ chain' = Append(chain, block)
          /\ head' = [n \in Node |-> IF n \in S THEN Len(chain) + 1 ELSE head[n]]
    /\ UNCHANGED listed

\* A lagging node catches up with the chain.
CatchUp ==
    /\ \E n \in Node : head[n] < Len(chain)
                       /\ head' = [head EXCEPT ![n] = Len(chain)]
    /\ UNCHANGED <<chain, listed>>

\* POST /Admin/Tokens: a token is listed only when the node that serves the
\* request finds it in the TokenList contract; it must not be listed yet.
RegisterAdminToken ==
    /\ \E t \in Token \ listed, n \in Node :
          /\ RegisteredAt(t, head[n])
          /\ listed' = listed \union {t}
    /\ UNCHANGED <<chain, head>>

\* DELETE /Admin/Tokens/{token_address}.
DeleteToken ==
    /\ \E t \in listed : listed' = listed \ {t}
    /\ UNCHANGED <<chain, head>>

ChainNext == Mine \/ CatchUp \/ RegisterAdminToken \/ DeleteToken
==============================================================================
