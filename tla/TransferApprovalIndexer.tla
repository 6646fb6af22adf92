----------------------- MODULE TransferApprovalIndexer -----------------------
(***************************************************************************)
(* batch/indexer_TransferApproval.py: the process that keeps the history   *)
(* of transfer applications (IDXTransferApproval).  An application is      *)
(* identified by its token, the exchange it was made on (none for an       *)
(* application made on the token itself) and its number; events about it   *)
(* set flags in its row.                                                   *)
(*                                                                         *)
(* Progress is remembered per token and tradable exchange, but the events  *)
(* of an exchange are read once for all the tokens traded on it, from one  *)
(* cursor.  A sync reads the chain in chunks, seven passes per chunk, and  *)
(* commits rows and block numbers together at the end.                     *)
(***************************************************************************)
EXTENDS Chain

CONSTANTS Exchange,            \* escrow contracts
          NoExchange,          \* ZERO_ADDRESS: no tradable exchange
          Application,         \* application numbers
          ChunkSize,           \* blocks per chunk, 1,000,000 in the code
          InitialExchange,     \* tradableExchange of each token at first
          MaxExchangeChanges,  \* bound on later changes of it
          MaxFailures          \* bound on exceptions and crashes

Venue == Exchange \union {NoExchange}

\* What the constants must be; an instance assumes it of its own.
ApprovalAssumption ==
    /\ ChunkSize \in Nat \ {0}
    /\ MaxExchangeChanges \in Nat /\ MaxFailures \in Nat
    /\ NoExchange \notin Exchange
    /\ InitialExchange \in [Token -> Venue]
    /\ \A e \in Event : e.exchange \in Venue /\ e.application \in Application
    /\ \A e \in Event : e.kind = "EscrowFinished" => e.exchange # NoExchange

VARIABLES
    tradable,       \* tradableExchange of each token contract
    changes,        \* number of changes of it so far
    approvals,      \* committed rows: the flags of each application, {} for no row
    syncedNumber,   \* committed block number of each token and exchange
    sess,           \* the rows as the open session sees them
    exchangeCache,  \* token_tradable_exchange_address_cache of the process
    tokens,         \* token_list: the target tokens
    tokenStart, tokenCursor,        \* their start_block_number and cursor
    exchanges,      \* exchange_list: the target exchanges
    exchangeStart, exchangeCursor,  \* their start_block_number and cursor
    latest,         \* latest_block of the current sync
    blockTo,        \* last block of the current chunk
    pc,
    failures

tableVars == <<approvals, syncedNumber>>
listVars == <<tokens, tokenStart, tokenCursor, exchanges, exchangeStart, exchangeCursor>>
marketVars == <<tradable, changes>>
vars == <<chainVars, marketVars, tableVars, sess, exchangeCache, listVars, latest,
          blockTo, pc, failures>>

------------------------------------------------------------------------------
NotCached == "not cached"
Key == Token \X Venue \X Application
KeyOf(e) == <<e.token, e.exchange, e.application>>
Flags == {"ApplyForTransfer", "CancelTransfer", "EscrowFinished", "ApproveTransfer"}

\* The contracts let an application be made once, then be cancelled or approved,
\* on an exchange after the escrow has finished.
Legal(c) ==
    \A b \in DOMAIN c : \A e \in c[b] : e.kind \in Flags =>
        LET before == UNION {c[i] : i \in 1..(b - 1)}
            Seen(k, pool) == \E f \in pool : KeyOf(f) = KeyOf(e) /\ f.kind = k
        IN  /\ ~Seen(e.kind, before)
            /\ e.kind # "ApplyForTransfer" => Seen("ApplyForTransfer", before \union c[b])
            /\ e.kind = "CancelTransfer" => ~Seen("EscrowFinished", before \union c[b])
                                            /\ ~Seen("ApproveTransfer", before \union c[b])
            /\ e.kind = "EscrowFinished" => ~Seen("CancelTransfer", before)
            /\ e.kind = "ApproveTransfer" => ~Seen("CancelTransfer", before)
            /\ e.kind = "ApproveTransfer" /\ e.exchange # NoExchange =>
                    Seen("EscrowFinished", before \union c[b])

\* get_logs of one contract for one event: a token (x = NoExchange) or an exchange,
\* whose events are filtered by the target tokens.
ContractLogs(owners, x, k, from, h) ==
    {r \in Block \X Event :
        /\ r[1] \in from..blockTo /\ r[1] <= h /\ r[1] <= Len(chain)
        /\ r[2] \in chain[r[1]]
        /\ r[2].kind = k /\ r[2].exchange = x /\ r[2].token \in owners}

\* One request per target; each may be served by another node.
TokenLogs(k, server) ==
    UNION {ContractLogs({t}, NoExchange, k, tokenCursor[t], head[server[t]]) : t \in tokens}

ExchangeLogs(k, server) ==
    UNION {ContractLogs(tokens, x, k, exchangeCursor[x], head[server[x]]) : x \in exchanges}

\* Applications for more than sys.maxsize are not recorded.
Kept(k, logs) == {r \in logs : ~(k = "ApplyForTransfer" /\ r[2].value = "huge")}

\* __get_oldest_cursor
OldestCursor(S, cursor, to) ==
    IF S = {} THEN 0
    ELSE CHOOSE c \in {to} \union {cursor[t] : t \in S} :
            /\ c <= to
            /\ \A t \in S : c <= cursor[t]

\* sync_new_logs: the end of the chunk after one that ended before block b.
NextChunkEnd(b, to) == IF b + ChunkSize - 1 < to THEN b + ChunkSize - 1 ELSE to

------------------------------------------------------------------------------
TypeOK ==
    /\ ChainTypeOK
    /\ tradable \in [Token -> Venue]
    /\ changes \in 0..MaxExchangeChanges
    /\ approvals \in [Key -> SUBSET Flags]
    /\ sess \in [Key -> SUBSET Flags]
    /\ syncedNumber \in [Token \X Venue -> BlockNumber \union {-1}]
    /\ exchangeCache \in [Token -> Venue \union {NotCached}]
    /\ tokens \subseteq Token /\ exchanges \subseteq Exchange
    /\ tokenStart \in [Token -> Nat] /\ tokenCursor \in [Token -> Nat]
    /\ exchangeStart \in [Exchange -> Nat] /\ exchangeCursor \in [Exchange -> Nat]
    /\ latest \in BlockNumber /\ blockTo \in Nat
    /\ pc \in 0..8
    /\ failures \in 0..MaxFailures

NoTargets ==
    /\ tokens = {} /\ exchanges = {}
    /\ tokenStart = [t \in Token |-> 0] /\ tokenCursor = tokenStart
    /\ exchangeStart = [x \in Exchange |-> 0] /\ exchangeCursor = exchangeStart
    /\ latest = 0 /\ blockTo = 0
    /\ pc = 0

Init ==
    /\ ChainInit
    /\ tradable = InitialExchange
    /\ changes = 0
    /\ approvals = [k \in Key |-> {}]
    /\ sess = approvals
    /\ syncedNumber = [p \in Token \X Venue |-> -1]
    /\ exchangeCache = [t \in Token |-> NotCached]
    /\ NoTargets
    /\ failures = 0

\* __get_contract_list and the choice of the first chunk.  An exchange is appended
\* for the first listed token that is traded on it, with the block number of that
\* token; the order of the listing table is not defined by the query.
GetContractList ==
    /\ pc = 0
    /\ \E n \in Node : \A t \in listed : RegisteredAt(t, head[n])
    /\ \E n \in Node : latest' = head[n]
    /\ exchangeCache' = [t \in Token |->
          IF t \in listed /\ exchangeCache[t] = NotCached THEN tradable[t]
          ELSE exchangeCache[t]]
    /\ tokens' = listed
    /\ tokenStart' = [t \in Token |->
          IF t \in listed THEN syncedNumber[<<t, exchangeCache'[t]>>] + 1 ELSE 0]
    /\ tokenCursor' = tokenStart'
    /\ exchanges' = {exchangeCache'[t] : t \in listed} \ {NoExchange}
    /\ \E first \in [exchanges' -> listed] :
          /\ \A x \in exchanges' : exchangeCache'[first[x]] = x
          /\ exchangeStart' = [x \in Exchange |->
                IF x \in exchanges' THEN tokenStart'[first[x]] ELSE 0]
    /\ exchangeCursor' = exchangeStart'
    /\ blockTo' = NextChunkEnd(OldestCursor(listed, tokenStart', latest'), latest')
    /\ pc' = 1
    /\ UNCHANGED <<chainVars, marketVars, tableVars, sess, failures>>

\* The finally clause of sync_new_logs.
EndOfCall ==
    /\ tokens' = {} /\ exchanges' = {}
    /\ tokenStart' = [t \in Token |-> 0] /\ tokenCursor' = tokenStart'
    /\ exchangeStart' = [x \in Exchange |-> 0] /\ exchangeCursor' = exchangeStart'
    /\ latest' = 0 /\ blockTo' = 0
    /\ pc' = 0

\* Mutant: a row without the application is made.
SinkAnyway(k, logs) ==
    /\ sess' = [key \in Key |->
                   IF \E r \in logs : KeyOf(r[2]) = key
                   THEN sess[key] \union {k} ELSE sess[key]]
    /\ pc' = pc + 1
    /\ UNCHANGED <<listVars, latest, blockTo>>

\* __sink_on_transfer_approval for the logs of one pass.  ApplyFor makes the row;
\* any other event about an application without a row ends in merge(None), which
\* raises: the sync is rolled back.
Sink(k, logs) ==
    IF k # "ApplyForTransfer" /\ \E r \in logs : sess[KeyOf(r[2])] = {}
    THEN /\ sess' = approvals
         /\ EndOfCall
    ELSE /\ sess' = [key \in Key |->
                        IF \E r \in logs : KeyOf(r[2]) = key
                        THEN sess[key] \union {k} ELSE sess[key]]
         /\ pc' = pc + 1
         /\ UNCHANGED <<listVars, latest, blockTo>>

SyncToken(position, k) ==
    /\ pc = position
    /\ \E server \in [tokens -> Node] : Sink(k, Kept(k, TokenLogs(k, server)))
    /\ UNCHANGED <<chainVars, marketVars, tableVars, exchangeCache, failures>>

SyncExchange(position, k) ==
    /\ pc = position
    /\ \E server \in [exchanges -> Node] : Sink(k, Kept(k, ExchangeLogs(k, server)))
    /\ UNCHANGED <<chainVars, marketVars, tableVars, exchangeCache, failures>>

SyncTokenApplyForTransfer == SyncToken(1, "ApplyForTransfer")
SyncTokenCancelTransfer == SyncToken(2, "CancelTransfer")
SyncTokenApproveTransfer == SyncToken(3, "ApproveTransfer")
SyncExchangeApplyForTransfer == SyncExchange(4, "ApplyForTransfer")
SyncExchangeCancelTransfer == SyncExchange(5, "CancelTransfer")
SyncExchangeEscrowFinished == SyncExchange(6, "EscrowFinished")
SyncExchangeApproveTransfer == SyncExchange(7, "ApproveTransfer")

\* Mutant: a block is lost between two chunks.
MovedTooFar(S, start, cursor, b) ==
    [x \in DOMAIN cursor |-> IF x \in S /\ b > start[x] THEN b + 1 ELSE cursor[x]]

Moved(S, start, cursor, b) ==
    [x \in DOMAIN cursor |-> IF x \in S /\ b > start[x] THEN b ELSE cursor[x]]

\* __update_cursor, then the next chunk if this was not the last one.
UpdateCursor ==
    /\ pc = 8 /\ blockTo < latest
    /\ tokenCursor' = Moved(tokens, tokenStart, tokenCursor, blockTo + 1)
    /\ exchangeCursor' = Moved(exchanges, exchangeStart, exchangeCursor, blockTo + 1)
    /\ blockTo' = NextChunkEnd(blockTo + 1, latest)
    /\ pc' = 1
    /\ UNCHANGED <<chainVars, marketVars, tableVars, sess, exchangeCache, tokens,
                   tokenStart, exchanges, exchangeStart, latest, failures>>

\* __set_idx_transfer_approval_block_number and the commit, after the last chunk.
SetBlockNumber ==
    /\ pc = 8 /\ blockTo >= latest
    /\ approvals' = sess
    /\ syncedNumber' = [p \in Token \X Venue |->
          IF p[1] \in tokens /\ p[2] = exchangeCache[p[1]] THEN latest
          ELSE syncedNumber[p]]
    /\ EndOfCall
    /\ UNCHANGED <<chainVars, marketVars, sess, exchangeCache, failures>>

\* An exception: rollback, and main() tries again.
Rollback ==
    /\ pc # 0 /\ failures < MaxFailures
    /\ failures' = failures + 1
    /\ sess' = approvals
    /\ EndOfCall
    /\ UNCHANGED <<chainVars, marketVars, tableVars, exchangeCache>>

\* The process is started again: its caches are gone as well.
Restart ==
    /\ failures < MaxFailures
    /\ failures' = failures + 1
    /\ sess' = approvals
    /\ exchangeCache' = [t \in Token |-> NotCached]
    /\ EndOfCall
    /\ UNCHANGED <<chainVars, marketVars, tableVars>>

SyncNewLogs ==
    \/ GetContractList
    \/ SyncTokenApplyForTransfer
    \/ SyncTokenCancelTransfer
    \/ SyncTokenApproveTransfer
    \/ SyncExchangeApplyForTransfer
    \/ SyncExchangeCancelTransfer
    \/ SyncExchangeEscrowFinished
    \/ SyncExchangeApproveTransfer
    \/ UpdateCursor
    \/ SetBlockNumber

indexerVars == <<tableVars, sess, exchangeCache, listVars, latest, blockTo, pc, failures>>

\* The issuer moves a token to another exchange.
SetTradableExchange ==
    /\ changes < MaxExchangeChanges
    /\ changes' = changes + 1
    /\ \E t \in Token, x \in Venue :
          x # tradable[t] /\ tradable' = [tradable EXCEPT ![t] = x]
    /\ UNCHANGED <<chainVars, indexerVars>>

Environment ==
    /\ ChainNext
    /\ Legal(chain')
    /\ UNCHANGED <<marketVars, indexerVars>>

Next == SyncNewLogs \/ Rollback \/ Restart \/ SetTradableExchange \/ Environment

Spec == Init /\ [][Next]_vars

------------------------------------------------------------------------------
Happened(e, b) == b <= Len(chain) /\ e \in chain[b]
Recordable(e) ==
    e.kind \in Flags /\ ~(e.kind = "ApplyForTransfer" /\ e.value = "huge")

\* Every event about an application made on a token, up to a block number stored
\* for the token, is recorded in the application's row: whatever chunks, failures,
\* delistings and changes of the exchange came in between.
TokenHistoryComplete ==
    \A t \in Token, x \in Venue, b \in Block, e \in Event :
        /\ e.token = t /\ e.exchange = NoExchange /\ Recordable(e)
        /\ Happened(e, b) /\ b <= syncedNumber[<<t, x>>]
        => e.kind \in approvals[KeyOf(e)]

\* The same for applications made on an exchange, up to the block number stored for
\* the token and that exchange: "Returns a list of transfer approval histories for
\* a given token".
ExchangeHistoryComplete ==
    \A t \in Token, x \in Exchange, b \in Block, e \in Event :
        /\ e.token = t /\ e.exchange = x /\ Recordable(e)
        /\ Happened(e, b) /\ b <= syncedNumber[<<t, x>>]
        => e.kind \in approvals[KeyOf(e)]

\* A row tells nothing that did not happen: each of its flags is an event of the
\* chain, and a row without the application itself does not exist.
HistorySound ==
    \A k \in Key : \A f \in approvals[k] :
        /\ "ApplyForTransfer" \in approvals[k]
        /\ \E b \in Block, e \in Event : Happened(e, b) /\ KeyOf(e) = k /\ e.kind = f
==============================================================================
