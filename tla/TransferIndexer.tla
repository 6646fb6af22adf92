--------------------------- MODULE TransferIndexer ---------------------------
(***************************************************************************)
(* batch/indexer_Transfer.py: the process that copies Transfer, Unlock,    *)
(* ForceUnlock and ForceChangeLockedAccount events of the listed tokens    *)
(* into the table IDXTransfer and remembers, per token, the newest block   *)
(* it has read (IDXTransferBlockNumber).                                   *)
(*                                                                         *)
(* One sync_new_logs() is one database session: the chain is read in       *)
(* chunks, four passes per chunk, and rows and block numbers are committed *)
(* together at the end.  Everything before the commit is in the session    *)
(* only (sess) and is lost by an exception or a crash.                     *)
(***************************************************************************)
EXTENDS Chain

CONSTANTS ChunkSize,    \* blocks per chunk, 1,000,000 in the code
          BlockTime,    \* timestamp of each block
          MaxFailures,  \* bound on exceptions and crashes
          MaxCopies     \* bound on the rows counted for one event

ASSUME TransferAssumption ==
    /\ ChunkSize \in Nat \ {0}
    /\ MaxFailures \in Nat
    /\ MaxCopies \in Nat \ {0, 1}
    /\ BlockTime \in [Block -> Nat \ {0}]
    /\ \A b, c \in Block : b < c => BlockTime[b] < BlockTime[c]

VARIABLES
    rows,       \* committed IDXTransfer rows: how many for each event
    cursor,     \* committed IDXTransferBlockNumber of each token
    sess,       \* the rows as the open session sees them
    typeCache,  \* token_type_cache of the process
    targets,    \* token_list of the current sync
    skip,       \* skip_timestamp and skip_block of each target token
    latest,     \* latest_block of the current sync
    from,       \* first block of the current chunk
    pc,         \* position of the process in sync_new_logs
    failures    \* exceptions and crashes so far

indexVars == <<rows, cursor>>
syncVars == <<sess, typeCache, targets, skip, latest, from, pc>>
vars == <<chainVars, indexVars, syncVars, failures>>

------------------------------------------------------------------------------
Kinds == {"Transfer", "Unlock", "ForceUnlock", "ForceChangeLockedAccount"}
Phases == Kinds \union {"idle", "update_skip", "update_block"}
Row == Block \X Event

NoBlock == -1   \* no row in IDXTransferBlockNumber
NoTime == 0     \* no row in IDXTransfer

\* Values above sys.maxsize are not indexed by any pass, and the three lock
\* passes do not index an event whose two addresses are the same.
Indexable(e) ==
    /\ e.kind \in Kinds
    /\ e.value # "huge"
    /\ e.kind = "Transfer" \/ ~e.selfTransfer

\* The created column of the rows of token t.
CreatedTimes(t, count) ==
    {BlockTime[r[1]] : r \in {x \in Row : count[x] > 0 /\ x[2].token = t}}

\* order_by(desc(created)).limit(1)
LatestCreated(t, count) ==
    LET times == CreatedTimes(t, count)
    IN  IF times = {} THEN NoTime
        ELSE CHOOSE m \in times : \A c \in times : c <= m

NoSkip == [t \in Token |-> [time |-> NoTime, block |-> NoBlock]]

\* Mutant: the two values of the row are returned in the wrong order.
LatestSynchronizedSwapped(t, count) ==
    [time |-> cursor[t], block |-> LatestCreated(t, count)]

LatestSynchronized(t, count) ==
    [time |-> LatestCreated(t, count), block |-> cursor[t]]

ChunkTo ==
    IF from + ChunkSize - 1 < latest THEN from + ChunkSize - 1 ELSE latest

\* Mutant: the skip block is read again.
ReadFromInclusive(t) ==
    IF from <= skip[t].block /\ skip[t].block < ChunkTo
    THEN skip[t].block ELSE from

\* The first block a pass over the current chunk asks get_logs for.
ReadFrom(t) ==
    IF from <= skip[t].block /\ skip[t].block < ChunkTo
    THEN skip[t].block + 1 ELSE from

\* Mutant: a chunk that ends one block after the skip block is skipped.
AlreadySynchronizedTooFar(t) == ChunkTo - 1 <= skip[t].block

AlreadySynchronized(t) == ChunkTo <= skip[t].block

\* Mutant: a row of the same block time is not skipped.
SkippedByEarlierTime(t, r) ==
    r[2].kind = "Transfer" /\ BlockTime[r[1]] < skip[t].time

\* Only the Transfer pass compares the block time with the newest row.
SkippedByTime(t, r) ==
    r[2].kind = "Transfer" /\ BlockTime[r[1]] <= skip[t].time

\* The rows the pass for kind k adds for token t, read from a node with h blocks.
NewRows(t, k, h) ==
    IF AlreadySynchronized(t) THEN {}
    ELSE {r \in Logs(t, k, ReadFrom(t), ChunkTo, h) :
             Indexable(r[2]) /\ ~SkippedByTime(t, r)}

------------------------------------------------------------------------------
TypeOK ==
    /\ ChainTypeOK
    /\ rows \in [Row -> Nat]
    /\ sess \in [Row -> Nat]
    /\ cursor \in [Token -> BlockNumber \union {NoBlock}]
    /\ typeCache \in [Token -> {"absent", "unlisted", "known"}]
    /\ targets \subseteq Token
    /\ skip \in [Token -> [time : Nat, block : BlockNumber \union {NoBlock}]]
    /\ latest \in BlockNumber
    /\ from \in Nat
    /\ pc \in Phases
    /\ failures \in 0..MaxFailures

Init ==
    /\ ChainInit
    /\ rows = [r \in Row |-> 0]
    /\ sess = rows
    /\ cursor = [t \in Token |-> NoBlock]
    /\ typeCache = [t \in Token |-> "absent"]
    /\ targets = {}
    /\ skip = NoSkip
    /\ latest = 0
    /\ from = 0
    /\ pc = "idle"
    /\ failures = 0

\* getTokenByAddress is asked only for tokens whose type is not cached; the
\* empty answer for an unregistered token is cached like any other.
FetchTypes(server) ==
    [t \in Token |->
        IF t \in listed /\ typeCache[t] = "absent"
        THEN IF RegisteredAt(t, head[server[t]]) THEN "known" ELSE "unlisted"
        ELSE typeCache[t]]

\* Head of sync_new_logs and __get_token_list.
GetTokenList ==
    /\ pc = "idle"
    /\ \E n \in Node : latest' = head[n]
    /\ \E server \in [Token -> Node] : typeCache' = FetchTypes(server)
    /\ targets' = {t \in listed : typeCache'[t] = "known"}
    /\ skip' = [t \in Token |->
                   IF t \in targets' THEN LatestSynchronized(t, sess) ELSE NoSkip[t]]
    /\ from' = 0
    /\ pc' = "Transfer"
    /\ UNCHANGED <<chainVars, indexVars, sess, failures>>

\* One pass over the target tokens; every get_logs may reach another node.
SyncEvents(k, next) ==
    /\ pc = k
    /\ \E server \in [targets -> Node] :
          sess' = [r \in Row |->
                      IF \E t \in targets : r \in NewRows(t, k, head[server[t]])
                      THEN sess[r] + 1 ELSE sess[r]]
    /\ \A r \in Row : sess'[r] <= MaxCopies
    /\ pc' = next
    /\ UNCHANGED <<chainVars, indexVars, typeCache, targets, skip, latest, from,
                   failures>>

SyncTransfer == SyncEvents("Transfer", "Unlock")
SyncUnlock == SyncEvents("Unlock", "ForceUnlock")
SyncForceUnlock == SyncEvents("ForceUnlock", "ForceChangeLockedAccount")
SyncForceChangeLockedAccount ==
    SyncEvents("ForceChangeLockedAccount", "update_skip")

\* End of __sync_all: the skip values are read again, and the loop of
\* sync_new_logs goes to the next chunk or leaves.
UpdateSkipBlock ==
    /\ pc = "update_skip"
    /\ skip' = [t \in Token |->
                   IF t \in targets THEN LatestSynchronized(t, sess) ELSE NoSkip[t]]
    /\ IF from + ChunkSize - 1 < latest
       THEN from' = from + ChunkSize /\ pc' = "Transfer"
       ELSE from' = from /\ pc' = "update_block"
    /\ UNCHANGED <<chainVars, indexVars, sess, typeCache, targets, latest, failures>>

\* What sync_new_logs keeps for one call only; the target list stays in the
\* Processor object, where the next call replaces it before it is read.
EndOfCall ==
    /\ pc' = "idle"
    /\ targets' = {}
    /\ skip' = NoSkip
    /\ latest' = 0
    /\ from' = 0

\* Mutant: the block number is stored for every listed token, not for the
\* tokens of this sync.
UpdateIdxLatestBlockOfListed ==
    /\ pc = "update_block"
    /\ rows' = sess
    /\ cursor' = [t \in Token |-> IF t \in listed THEN latest ELSE cursor[t]]
    /\ EndOfCall
    /\ UNCHANGED <<chainVars, sess, typeCache, failures>>

\* Mutant: the table of block numbers is written anew, for the tokens of this sync.
UpdateIdxLatestBlockAnew ==
    /\ pc = "update_block"
    /\ rows' = sess
    /\ cursor' = [t \in Token |-> IF t \in targets THEN latest ELSE NoBlock]
    /\ EndOfCall
    /\ UNCHANGED <<chainVars, sess, typeCache, failures>>

\* __update_idx_latest_block and the commit.
UpdateIdxLatestBlock ==
    /\ pc = "update_block"
    /\ rows' = sess
    /\ cursor' = [t \in Token |-> IF t \in targets THEN latest ELSE cursor[t]]
    /\ EndOfCall
    /\ UNCHANGED <<chainVars, sess, typeCache, failures>>

\* An exception anywhere in the sync: rollback, and main() tries again.
Rollback ==
    /\ pc # "idle"
    /\ failures < MaxFailures
    /\ sess' = rows
    /\ EndOfCall
    /\ failures' = failures + 1
    /\ UNCHANGED <<chainVars, indexVars, typeCache>>

\* The process dies and is started again: its caches are gone as well.
Restart ==
    /\ failures < MaxFailures
    /\ sess' = rows
    /\ typeCache' = [t \in Token |-> "absent"]
    /\ EndOfCall
    /\ failures' = failures + 1
    /\ UNCHANGED <<chainVars, indexVars>>

SyncNewLogs ==
    \/ GetTokenList
    \/ SyncTransfer
    \/ SyncUnlock
    \/ SyncForceUnlock
    \/ SyncForceChangeLockedAccount
    \/ UpdateSkipBlock
    \/ UpdateIdxLatestBlock

Environment == ChainNext /\ UNCHANGED <<indexVars, syncVars, failures>>

Next == SyncNewLogs \/ Rollback \/ Restart \/ Environment

Spec == Init /\ [][Next]_vars

\* main() calls sync_new_logs again and again, and a failed call is repeated.
FairSpec == Spec /\ WF_vars(SyncNewLogs)

------------------------------------------------------------------------------
\* Block b has the event e and token e.token has been read up to a block >= b.
Covered(r) ==
    /\ r[1] <= Len(chain)
    /\ r[2] \in chain[r[1]]
    /\ Indexable(r[2])
    /\ r[1] <= cursor[r[2].token]

\* Exactly once.  Whatever the chunking, the failures and the delisting and
\* relisting of tokens, the committed table holds exactly one row for every
\* indexable event up to the token's block number, and none beyond it.
ExactlyOnce ==
    \A r \in Row : rows[r] = IF Covered(r) THEN 1 ELSE 0

\* A Transfer event never gets a second row, even when a lagging node moves the
\* stored block number backwards: the comparison with skip_timestamp protects it.
NoDuplicateTransfer ==
    \A r \in Row : r[2].kind = "Transfer" => rows[r] <= 1

\* Every row stands for an event of the chain: nothing is made up, whichever
\* nodes answered, and whatever was rolled back.
NoPhantomRow ==
    \A r \in Row : rows[r] > 0 =>
        r[1] <= Len(chain) /\ r[2] \in chain[r[1]] /\ Indexable(r[2])

\* No committed event is read again: "Skip if the token has already been
\* synchronized to block_to", for the three passes over lock events.
NoDuplicateUnlock ==
    \A r \in Row : r[2].kind # "Transfer" => rows[r] <= 1

\* The stored block number of a token never moves backwards.
CursorNeverRegresses ==
    [][\A t \in Token : cursor'[t] >= cursor[t]]_vars

\* An indexable event of a listed token is indexed eventually, or the token is
\* delisted first.
EventuallyIndexed ==
    \A b \in Block, e \in Event :
        (/\ b <= Len(chain)
         /\ e \in chain[b]
         /\ Indexable(e)
         /\ e.token \in listed)
        ~> (rows[<<b, e>>] = 1 \/ e.token \notin listed)

\* The committed tables implement the abstract event index: they change together,
\* in one step, and only to what the chain holds up to the new block number.
Index == INSTANCE EventIndex WITH log <- chain, index <- rows, upto <- cursor
ImplementsEventIndex == Index!Spec
==============================================================================
