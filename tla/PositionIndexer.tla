--------------------------- MODULE PositionIndexer ---------------------------
(***************************************************************************)
(* What the four position indexers batch/indexer_Position_*.py have in     *)
(* common: they keep, for every listed token and account, the balances the *)
(* contracts report, and the history of locks.  The modules PositionShare, *)
(* PositionBond, PositionCoupon and PositionMembership put the passes of   *)
(* one sync together.                                                      *)
(*                                                                         *)
(* Events only tell whose balances to read; the values are those of the    *)
(* newest state.  A value is modelled by its age: the last block that      *)
(* changed it.  Transfers are committed in batches of accounts, so part of *)
(* a sync is durable long before its block number is stored.               *)
(***************************************************************************)
EXTENDS Chain, FiniteSetsExt

CONSTANTS Account,      \* externally owned accounts
          Exchange,     \* contracts of exchanges, escrows and DVP
          ChunkSize,    \* blocks per chunk, 1,000,000 in the code
          BatchSize,    \* accounts per commit, 1,000 in the code
          MaxFailures,  \* bound on exceptions and crashes
          MaxSwallowed, \* bound on the exceptions that are swallowed
          MaxCopies,    \* bound on the rows counted for one lock event
          MaxMoves      \* bound on changes of a tradable exchange

Zero == "0x0"           \* ZERO_ADDRESS
Party == Account \union Exchange
Venue == Exchange \union {Zero}

LockKinds == {"Lock", "ForceLock", "Unlock", "ForceUnlock", "ForceChangeLockedAccount"}
OrderKinds == {"NewOrder", "CancelOrder", "ForceCancelOrder", "Agree", "SettlementOK",
               "SettlementNG"}
EscrowKinds == {"EscrowCreated", "EscrowCanceled", "EscrowFinished", "HolderChanged"}
DeliveryKinds == {"DeliveryCreated", "DeliveryCanceled", "DeliveryAborted",
                  "HolderChanged"}
VenueKinds == OrderKinds \union EscrowKinds \union DeliveryKinds

ASSUME PositionAssumption ==
    /\ {ChunkSize, BatchSize, MaxCopies} \subseteq Nat \ {0}
    /\ {MaxFailures, MaxSwallowed, MaxMoves} \subseteq Nat
    /\ Zero \notin Party /\ "absent" \notin Party
    /\ IsFiniteSet(Exchange)
    /\ \A e \in Event : /\ {e.from, e.to, e.at} \subseteq Party \union {Zero}
                        /\ e.kind \in VenueKinds => e.at \in Exchange

VARIABLES
    tradable,      \* tradableExchange of each token contract
    moves,         \* changes of it so far
    table,         \* IDXPosition and IDXLockedPosition, committed
    lockRows,      \* IDXLock and IDXUnlock, committed: rows for each event
    cursor,        \* IDXPosition*BlockNumber of each token and exchange
    sess,          \* table and lockRows as the open session sees them
    exchangeCache, \* token_tradable_exchange_address_cache
    targets,       \* token_list of the current sync
    start,         \* start_block_number of each of its tokens
    done,          \* last block of the chunks done in this sync
    latest,        \* latest_block
    blockTo,       \* block_to of the current chunk
    accounts,      \* token and accounts the Transfer pass has left to read
    pc,            \* the next pass of __sync_all
    failures, swallowed

marketVars == <<tradable, moves>>
tableVars == <<table, lockRows, cursor>>
listVars == <<exchangeCache, targets, start, latest>>
faultVars == <<failures, swallowed>>
vars == <<chainVars, marketVars, tableVars, sess, listVars, done, blockTo, accounts,
          pc, faultVars>>

------------------------------------------------------------------------------
(* The contracts. *)

Row == Block \X {e \in Event : e.kind \in LockKinds}

\* Columns: own stands for balance and pending_transfer, deposit for
\* exchange_balance, commitment for exchange_commitment, locked for the value
\* of the locked position.
Column == {"own", "deposit", "commitment", "locked"}

\* The values an event changes, each as an account and a column.  Tokens issued
\* or redeemed at a lock address change the locked amount.
Changed(e) ==
    CASE e.kind = "Transfer" ->
           ({e.from, e.to} \X {"own"})
             \union (IF e.to \in Exchange THEN {<<e.from, "deposit">>} ELSE {})
             \union (IF e.from \in Exchange THEN {<<e.to, "deposit">>} ELSE {})
      [] e.kind \in {"Lock", "ForceLock"} -> {<<e.from, "own">>, <<e.from, "locked">>}
      [] e.kind \in {"Unlock", "ForceUnlock"} -> {<<e.from, "locked">>, <<e.to, "own">>}
      [] e.kind = "ForceChangeLockedAccount" -> {e.from, e.to} \X {"locked"}
      [] e.kind \in {"Issue", "Redeem"} ->
           {<<e.to, IF e.at = Zero THEN "own" ELSE "locked">>}
      [] e.kind \in {"ApplyForTransfer", "CancelTransfer", "Consume"} ->
           {<<e.from, "own">>}
      [] e.kind = "ApproveTransfer" -> {e.from, e.to} \X {"own"}
      [] e.kind \in {"SettlementOK", "HolderChanged", "EscrowFinished"} ->
           {e.from, e.to} \X {"deposit", "commitment"}
      [] e.kind \in OrderKinds \union EscrowKinds \union DeliveryKinds ->
           {e.from} \X {"deposit", "commitment"}
      [] OTHER -> {}

\* The exchange whose books an event changes.
BookOf(e) ==
    IF e.kind # "Transfer" THEN e.at ELSE IF e.to \in Exchange THEN e.to ELSE e.from

\* Orders and escrows are made on the exchange the token is traded on.
Traded(block) ==
    moves = 0 => \A e \in block : e.kind \in VenueKinds => e.at = tradable[e.token]

\* What a node with h blocks answers for a column of account a of token t, the
\* exchange columns from the books of x: the last block that changed it.
ValueOf(t, a, c, x, h) ==
    Max({0} \union
        {b \in Block : /\ b <= h /\ b <= Len(chain)
                       /\ \E e \in chain[b] :
                             /\ e.token = t
                             /\ <<a, c>> \in Changed(e)
                             /\ c \in {"deposit", "commitment"} => BookOf(e) = x})

------------------------------------------------------------------------------
(* The session. *)

\* __sink_on_position and __sink_on_locked_position: the columns C of the pairs of
\* token and account are set to what a node with h blocks answers, those on the
\* exchange from the books x names.
Sink(tab, pairs, C, x, h) ==
    [k \in DOMAIN tab |->
        IF <<k[1], k[2]>> \in pairs /\ k[3] \in C
        THEN ValueOf(k[1], k[2], k[3], x[<<k[1], k[2]>>], h) ELSE tab[k]]

\* The exchange every token is traded on, as far as this process knows.
Books == [p \in Token \X Account |-> exchangeCache[p[1]]]

AtLeast(a, b) == IF a >= b THEN a ELSE b

\* Mutant: a chunk begins one block too late.
TokenCursorSkipping(t) == AtLeast(start[t], done + 2)

\* __update_cursor moves a cursor only beyond its start.
TokenCursor(t) == AtLeast(start[t], done + 1)

Exchanges == {exchangeCache[t] : t \in targets} \ {Zero}

\* TargetExchangeList visits each of them once.
Orders ==
    {order \in [1..Cardinality(Exchanges) -> Exchanges] :
        \A x \in Exchanges : \E i \in DOMAIN order : order[i] = x}

\* TargetExchangeList.append keeps the smallest block number of its tokens.
ExchangeCursor(x) ==
    AtLeast(Min({start[t] : t \in {u \in targets : exchangeCache[u] = x}}), done + 1)

\* Events of token t and kind k in the rest of the chunk.
TokenLogs(t, k, h) ==
    IF TokenCursor(t) > blockTo THEN {} ELSE Logs(t, k, TokenCursor(t), blockTo, h)

PassLogs(k, h) == UNION {TokenLogs(t, k, h) : t \in targets}

\* The tokens and the accounts in the fields of some events that have these names.
AccountsIn(rows, names) == {<<r[2].token, r[2][f]>> : r \in rows, f \in names}

\* Events of exchange x in the rest of the chunk, without those before the
\* cursor of their token, and of listed tokens only.
ExchangeLogs(x, kinds, h) ==
    IF ExchangeCursor(x) > blockTo THEN {}
    ELSE {r \in UNION {Logs(t, k, ExchangeCursor(x), blockTo, h) :
                          t \in targets, k \in kinds} :
             r[2].at = x /\ r[1] >= TokenCursor(r[2].token)}

\* The tokens and the parties of events, both for the kinds in both.
PartiesOf(rows, both) ==
    {p \in Token \X (Party \union {Zero}) :
        \E r \in rows : /\ p[1] = r[2].token
                        /\ p[2] = r[2].from \/ (r[2].kind \in both /\ p[2] = r[2].to)}

------------------------------------------------------------------------------
\* Where a call of sync_new_logs can be: the passes of __sync_all, most of them named
\* after the kind of event they read, and what comes before and after them.
Steps ==
    {"idle", "Transfer", "TransferBatch", "Issue", "Redeem", "ApplyForTransfer",
     "CancelTransfer", "ApproveTransfer", "Consume", "Exchange", "Escrow", "DVP",
     "update_cursor", "set_block_number"} \union LockKinds

TypeOK ==
    /\ ChainTypeOK
    /\ tradable \in [Token -> Venue]
    /\ moves \in 0..MaxMoves
    /\ table \in [Token \X Account \X Column -> BlockNumber]
    /\ lockRows \in [Row -> 0..MaxCopies]
    /\ cursor \in [Token \X Venue -> BlockNumber \union {-1}]
    /\ sess \in [table : [Token \X Account \X Column -> BlockNumber],
                lockRows : [Row -> 0..MaxCopies]]
    /\ exchangeCache \in [Token -> Venue \union {"absent"}]
    /\ targets \subseteq Token
    /\ start \in [Token -> 0..MaxBlock + 1]
    /\ done \in BlockNumber \union {-1}
    /\ latest \in BlockNumber
    /\ blockTo \in BlockNumber
    /\ accounts \subseteq Token \X Account
    /\ pc \in Steps
    /\ failures \in 0..MaxFailures
    /\ swallowed \in 0..MaxSwallowed

Init ==
    /\ ChainInit
    /\ tradable \in [Token -> Venue]
    /\ moves = 0
    /\ table = [k \in Token \X Account \X Column |-> 0]
    /\ lockRows = [r \in Row |-> 0]
    /\ cursor = [k \in Token \X Venue |-> -1]
    /\ sess = [table |-> table, lockRows |-> lockRows]
    /\ exchangeCache = [t \in Token |-> "absent"]
    /\ targets = {}
    /\ start = [t \in Token |-> 0]
    /\ done = -1
    /\ latest = 0
    /\ blockTo = 0
    /\ accounts = {}
    /\ pc = "idle"
    /\ failures = 0
    /\ swallowed = 0

\* setTradableExchange of a token contract.
SetTradableExchange ==
    /\ moves < MaxMoves
    /\ \E t \in Token, x \in Venue :
          tradable[t] # x /\ tradable' = [tradable EXCEPT ![t] = x]
    /\ moves' = moves + 1
    /\ UNCHANGED <<chainVars, tableVars, sess, listVars, done, blockTo, accounts, pc,
                   faultVars>>

\* The end of the chunk that begins at block b.
ChunkEnd(b) == Min({b + ChunkSize - 1, latest'})

\* __get_contract_list and the head of sync_new_logs or initial_sync; the first
\* chunk begins at the oldest cursor.
GetContractList(first) ==
    /\ pc = "idle"
    /\ targets' = listed
    /\ exchangeCache' =
          [t \in Token |-> IF t \in listed /\ exchangeCache[t] = "absent"
                           THEN tradable[t] ELSE exchangeCache[t]]
    /\ start' = [t \in Token |->
                    IF t \in listed THEN cursor[<<t, exchangeCache'[t]>>] + 1 ELSE 0]
    /\ \E n \in Node : latest' = head[n]
    /\ blockTo' = ChunkEnd(IF listed = {} THEN 0
                           ELSE Min({latest'} \union {start'[t] : t \in listed}))
    /\ pc' = first
    /\ UNCHANGED <<chainVars, marketVars, tableVars, sess, done, accounts, faultVars>>

\* __sync_transfer, the events: their accounts, except the exchange.
ReadTransfers(next) ==
    /\ pc = "Transfer"
    /\ \E n \in Node :
          accounts' = {ta \in targets \X Account :
              \E r \in TokenLogs(ta[1], "Transfer", head[n]) : ta[2] \in {r[2].from, r[2].to}}
    /\ pc' = IF accounts' = {} THEN next ELSE "TransferBatch"
    /\ UNCHANGED <<chainVars, marketVars, tableVars, sess, listVars, done, blockTo,
                   faultVars>>

\* __sync_transfer, a batch of accounts of one token: read, written, committed.
SinkTransfers(next) ==
    /\ pc = "TransferBatch"
    /\ \E n \in Node, t \in {p[1] : p \in accounts} :
         LET rest == {p \in accounts : p[1] = t}
         IN  \E batch \in kSubset(Min({BatchSize, Cardinality(rest)}), rest) :
               /\ sess' = [sess EXCEPT !.table =
                              Sink(@, batch, {"own", "deposit"}, Books, head[n])]
               /\ accounts' = accounts \ batch
    /\ table' = sess'.table
    /\ lockRows' = sess'.lockRows
    /\ pc' = IF accounts' = {} THEN next ELSE "TransferBatch"
    /\ UNCHANGED <<chainVars, marketVars, cursor, listVars, done, blockTo, faultVars>>

\* A pass over token events of kind k that reads the balances of the accounts
\* in the fields named by fields.
TokenPass(k, fields, next) ==
    /\ pc = k
    /\ \E n \in Node :
          sess' = [sess EXCEPT !.table = Sink(@, AccountsIn(PassLogs(k, head[n]), fields),
                                              {"own"}, Books, head[n])]
    /\ pc' = next
    /\ UNCHANGED <<chainVars, marketVars, tableVars, listVars, done, blockTo, accounts,
                   faultVars>>

\* A pass over lock events: a row for each, the locked amounts of the accounts
\* in lockFields, then the balances of those in fields.  An exception while rows
\* are made or locked amounts are read ends this part for one token, without a
\* trace: events up to some block have their rows.
LockPass(k, lockFields, fields, next) ==
    /\ pc = k
    /\ \E n \in Node, bad \in {{}} \union {{t} : t \in targets}, b \in BlockNumber :
          LET logs == PassLogs(k, head[n])
              good == {r \in logs : r[2].token \notin bad}
              indexed == good \union {r \in logs : r[2].token \in bad /\ r[1] <= b}
          IN  /\ bad = {} => b = 0
              /\ bad # {} => swallowed < MaxSwallowed /\ logs # good
              /\ swallowed' = swallowed + Cardinality(bad)
              /\ sess' = [table |-> Sink(Sink(sess.table, AccountsIn(good, lockFields),
                                              {"locked"}, Books, head[n]),
                                         AccountsIn(logs, fields),
                                         {"own"}, Books, head[n]),
                          lockRows |-> [r \in Row |-> IF r \in indexed
                                           THEN Min({MaxCopies, sess.lockRows[r] + 1})
                                           ELSE sess.lockRows[r]]]
    /\ pc' = next
    /\ UNCHANGED <<chainVars, marketVars, tableVars, listVars, done, blockTo, accounts,
                   failures>>

\* A pass over the exchanges: the accounts of the events of the given kinds,
\* both parties for the kinds in both, have their exchange columns read.  The
\* books read are those of the exchange, whatever the token is traded on now: of
\* the last one that has events of the account.
ExchangePass(name, kinds, both, next) ==
    /\ pc = name
    /\ \E n \in Node, order \in Orders :
          LET pairs(x) == PartiesOf(ExchangeLogs(x, kinds, head[n]), both)
              last == [p \in UNION {pairs(x) : x \in Exchanges} |->
                          order[Max({i \in DOMAIN order : p \in pairs(order[i])})]]
          IN  sess' = [sess EXCEPT !.table =
                          Sink(@, DOMAIN last, {"deposit", "commitment"}, last, head[n])]
    /\ pc' = next
    /\ UNCHANGED <<chainVars, marketVars, tableVars, listVars, done, blockTo, accounts,
                   faultVars>>

\* __update_cursor, and the loop over the chunks.
UpdateCursor(first) ==
    /\ pc = "update_cursor"
    /\ done' = blockTo
    /\ IF blockTo < latest
       THEN blockTo' = Min({blockTo + ChunkSize, latest}) /\ pc' = first
       ELSE blockTo' = blockTo /\ pc' = "set_block_number"
    /\ UNCHANGED <<chainVars, marketVars, tableVars, sess, listVars, accounts, faultVars>>

\* finally: the lists are emptied.
EndOfCall ==
    /\ pc' = "idle"
    /\ targets' = {}
    /\ start' = [t \in Token |-> 0]
    /\ done' = -1
    /\ latest' = 0
    /\ blockTo' = 0
    /\ accounts' = {}

\* __set_idx_position_block_number and the commit.
SetBlockNumber ==
    /\ pc = "set_block_number"
    /\ cursor' = [k \in DOMAIN cursor |->
                     IF k[1] \in targets /\ k[2] = exchangeCache[k[1]] THEN latest
                     ELSE cursor[k]]
    /\ table' = sess.table
    /\ lockRows' = sess.lockRows
    /\ EndOfCall
    /\ UNCHANGED <<chainVars, marketVars, sess, exchangeCache, faultVars>>

\* An exception: what was not committed yet is lost, main() tries again.
Rollback ==
    /\ pc # "idle"
    /\ failures < MaxFailures
    /\ sess' = [table |-> table, lockRows |-> lockRows]
    /\ EndOfCall
    /\ failures' = failures + 1
    /\ UNCHANGED <<chainVars, marketVars, tableVars, exchangeCache, swallowed>>

\* The process is started again, without its caches.
Restart ==
    /\ failures < MaxFailures
    /\ sess' = [table |-> table, lockRows |-> lockRows]
    /\ exchangeCache' = [t \in Token |-> "absent"]
    /\ EndOfCall
    /\ failures' = failures + 1
    /\ UNCHANGED <<chainVars, marketVars, tableVars, swallowed>>

Environment ==
    \/ /\ ChainNext
       /\ chain' # chain => Traded(chain'[Len(chain')])
       /\ UNCHANGED <<marketVars, tableVars, sess, listVars, done, blockTo, accounts, pc,
                      faultVars>>
    \/ SetTradableExchange

------------------------------------------------------------------------------
\* The last block of token t that is said to be synchronized.
SyncedTo(t) == Max({cursor[<<t, x>>] : x \in Venue})

\* The stored balances of the account are not older than the stored block
\* number says; those on the exchange as long as the token keeps its exchange.
UpToDate(C) ==
    \A k \in DOMAIN table :
        k[3] \in C =>
            table[k] >= ValueOf(k[1], k[2], k[3], tradable[k[1]], SyncedTo(k[1]))

\* Balances, pending transfers and, while no token moves, exchange balances and
\* commitments show every event up to the stored block number: no account is
\* missed by __sync_transfer and the other passes, whatever the chunks, the
\* batches committed in the middle and the failures.
BalancesUpToDate ==
    UpToDate({"own"} \union IF moves = 0 THEN {"deposit", "commitment"} ELSE {})

\* The same for the amounts locked (__sink_on_locked_position).
LockedUpToDate == UpToDate({"locked"})

\* No balance and no locked amount is older than the stored block number says.
ValuesUpToDate == TypeOK /\ BalancesUpToDate /\ LockedUpToDate

\* Every lock event up to the stored block number has its row (__insert_lock_idx,
\* __insert_unlock_idx).
LockHistoryComplete ==
    \A r \in Row : /\ r[1] <= Len(chain) /\ r[2] \in chain[r[1]]
                   /\ r[1] <= SyncedTo(r[2].token)
                   => lockRows[r] > 0

\* No event has two rows.
LockHistoryUnique == \A r \in Row : lockRows[r] <= 1
==============================================================================
