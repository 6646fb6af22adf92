--------------------------- MODULE TokenListIndexer ---------------------------
(***************************************************************************)
(* batch/indexer_Token_List_Event.py: the tokens of the TokenList contract *)
(* with their owners, the last Register event of a token being the valid   *)
(* one.  Rows and block number are committed together at the end of a      *)
(* pass.  The listing plays no part.                                       *)
(***************************************************************************)
EXTENDS Chain

CONSTANTS TokenTemplate,    \* available_token_template_list
          ChunkSize,        \* blocks per range, 1,000,000 in the code
          MaxFailures       \* bound on exceptions and restarts

Assumption ==
    /\ MaxBlock \in Nat /\ Node # {} /\ Contents \subseteq SUBSET Event
    /\ ChunkSize \in Nat \ {0} /\ MaxFailures \in Nat

VARIABLES
    rows,       \* IDXTokenListRegister of each token
    sess,       \* the rows as the open session sees them
    number,     \* IDXTokenListBlockNumber, -1: no row
    from,       \* first block of the range
    latest,     \* latest_block of the pass, -1: between two passes
    failures

listVars == <<rows, sess, number, from, latest, failures>>
vars == <<chainVars, listVars>>

NoRow == [block |-> 0, template |-> "", owner |-> ""]

Init ==
    /\ ChainInit
    /\ rows = [t \in Token |-> NoRow] /\ sess = rows
    /\ number = -1 /\ from = 0 /\ latest = -1 /\ failures = 0

\* Mutant: a pass begins although there is no new block.
StartAlways ==
    /\ latest = -1
    /\ \E n \in Node : latest' = head[n]
    /\ from' = number + 1
    /\ sess' = rows
    /\ UNCHANGED <<chainVars, rows, number, failures>>

Start ==
    /\ latest = -1
    /\ \E n \in Node : number + 1 <= head[n] /\ latest' = head[n]
    /\ from' = number + 1
    /\ sess' = rows
    /\ UNCHANGED <<chainVars, rows, number, failures>>

To == IF from + ChunkSize - 1 < latest THEN from + ChunkSize - 1 ELSE latest

\* The Register events of available templates in a range, from a node with h blocks.
Registered(t, h) ==
    {r \in Logs(t, "Register", from, To, h) : r[2].template \in TokenTemplate}

\* Mutant: a token that has a row keeps it.
SinkOnTokenInfoOnce(row, events) ==
    IF events = {} \/ row # NoRow THEN row
    ELSE LET r == CHOOSE x \in events : \A y \in events : y[1] <= x[1]
         IN [block |-> r[1], template |-> r[2].template, owner |-> r[2].owner]

\* __sink_on_token_info for each event in the order of the blocks.
SinkOnTokenInfo(row, events) ==
    IF events = {} THEN row
    ELSE LET r == CHOOSE x \in events : \A y \in events : y[1] <= x[1]
         IN [block |-> r[1], template |-> r[2].template, owner |-> r[2].owner]

\* The block is kept in the model only, to compare rows with the chain.
SyncRegister ==
    /\ latest # -1 /\ from <= latest
    /\ \E n \in Node : sess' = [t \in Token |-> SinkOnTokenInfo(sess[t], Registered(t, head[n]))]
    /\ from' = To + 1
    /\ UNCHANGED <<chainVars, rows, number, latest, failures>>

Commit ==
    /\ latest # -1 /\ from > latest
    /\ rows' = sess /\ number' = latest /\ latest' = -1
    /\ UNCHANGED <<chainVars, sess, from, failures>>

\* An exception, or the end of the process.
Fail ==
    /\ latest # -1 /\ failures < MaxFailures
    /\ latest' = -1 /\ failures' = failures + 1
    /\ UNCHANGED <<chainVars, rows, sess, number, from>>

Next == Start \/ SyncRegister \/ Commit \/ Fail \/ (ChainNext /\ UNCHANGED listVars)

Spec == Init /\ [][Next]_vars

------------------------------------------------------------------------------
(* Properties. *)

TypeOK ==
    /\ ChainTypeOK
    /\ number \in -1..MaxBlock /\ latest \in -1..MaxBlock /\ from \in 0..MaxBlock + 1
    /\ \A t \in Token : rows[t] = NoRow \/ rows[t].template \in TokenTemplate
    /\ failures \in 0..MaxFailures

\* With one node, each token has the owner the TokenList contract had at the block
\* number, whichever ranges the events were in.
OwnersAsRegistered ==
    Cardinality(Node) = 1 =>
        \A t \in Token :
            LET known == {r \in Block \X Event :
                            /\ r[1] <= number /\ r[2] \in chain[r[1]] /\ r[2].token = t
                            /\ r[2].kind = "Register" /\ r[2].template \in TokenTemplate}
            IN  /\ (known = {}) => (rows[t] = NoRow)
                /\ \A r \in known : rows[t].block >= r[1]
                /\ rows[t] # NoRow => \E r \in known : /\ r[1] = rows[t].block
                                                       /\ r[2].owner = rows[t].owner

\* Whichever nodes answer, a former owner never replaces a later one.
NeverOlder == \A t \in Token : rows'[t].block >= rows[t].block
OwnerNeverOlder == [][NeverOlder]_vars
==============================================================================
