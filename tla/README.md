# ibet-Wallet-API: TLA+ models and proofs

ibet-Wallet-API is the server behind ibet wallet applications. Batch processes copy what
happens on the ibet blockchain (a Quorum network) into a database; an HTTP API answers from that
database, or from the blockchain itself. This directory models the processes that keep state,
model-checks them with TLC and proves the central results with TLAPS.

## The system

Every batch process is an operating-system process of its own with its own database sessions.
They meet only in the database and on the blockchain.

| Component | Source | State it keeps | Operations | What makes it correct |
|---|---|---|---|---|
| Token transfer indexer | `batch/indexer_Transfer.py` | rows of `IDXTransfer`, block number per token, type cache | `sync_new_logs`: four event passes per chunk, commit | each indexable event is a row exactly once; block number never ahead of the rows |
| Transfer approval indexer | `batch/indexer_TransferApproval.py` | one row per application, block number per token and exchange, caches | seven passes per chunk, cursors, commit | every event about an application reaches its row |
| Position indexers | `batch/indexer_Position_{Bond,Share,Coupon,Membership}.py` | balances per account, lock and unlock rows, block numbers | fourteen passes per chunk, commits in the middle | balances agree with the chain once all events are read |
| Node monitor, fail-over provider | `batch/processor_Block_Sync_Status.py`, `app/utils/web3_utils.py` | table of nodes with priority and status, block history per node | monitor pass; request with retries | a stuck node is not served; a request survives the loss of one node |
| Token holders collector | `batch/indexer_Token_Holders.py` | jobs, balances per job | `collect`, checkpoint of an earlier job | a finished job shows the holders at its block |
| DEX indexer | `batch/indexer_DEX.py` | orders, agreements; block number in memory | initial sync in ranges, sync of new blocks: six passes, commit | the tables show the last state of each order and agreement |
| Coupon consumption indexer | `batch/indexer_Consume_Coupon.py` | consumptions; block number in memory | the same with one pass | a row per consumption, however often a block is read |
| Block and transaction indexer | `batch/indexer_Block_Tx_Data.py` | blocks, transactions, block number | a commit per block | no gap, nothing twice below the block number |
| Token list indexer | `batch/indexer_Token_List_Event.py` | owner and template of each token | ranges, one commit per pass | the last registration wins |
| Notifications | `batch/processor_Notifications_*.py`, `app/api/routers/notification.py` | notifications, block number per watcher and contract | 27 watchers; users read, flag, delete | one notification per event, none lost, none back after a deletion |
| Token detail cache | `batch/indexer_Token_Detail*.py`, `app/model/blockchain/token.py` | a row per token with two time stamps | two refreshers, refresh on read, admin API, attribute watcher | a row is not older than its stamps; a deleted token stays deleted |
| List importers | `batch/indexer_Company_List.py`, `batch/indexer_PublicInfo_*.py` | imported table, digest in memory | poll | the table shows one list, the last one in the end |
| Mail and webhook queues | `batch/processor_Send_*.py`, `app/api/routers/messaging.py` | two queue tables | post; send and delete | each message is sent, none twice without a crash |
| Admin API | `app/api/routers/admin.py` | listing of tokens, cached row | register, update, delete | listing and cached row change together |
| Transaction API | `app/api/routers/eth.py` | none; the pool of the node | send several signed transactions, with and without waiting | the answer says what became of the transaction; nothing goes to a suspended token |
| Query API | `app/api/routers/*.py` | none | reads, joins, sorting, paging | two ways to ask one thing agree |

What is hard in it: block numbers read from one node and events from another, because the
fail-over provider picks a node for every request; sessions that fail or processes that stop
between two steps; ranges split into chunks with cursors of many tokens; the listing changing
during a sync; caches that live as long as the process. `PROJECT.json` lists these hazards at
their lines under `hazards`, with the properties that would show each going wrong.

## Modules

| Module | What it is |
|---|---|
| `Chain` | The environment: a growing chain of blocks of events, nodes that may lag behind it, the listing edited by the admin API (`register_admin_token`, `delete_token`). |
| `EventIndex` | Abstract specification: a table of rows and a block number per token that advance together. |
| `TransferIndexer` | `batch/indexer_Transfer.py`. |
| `TransferIndexer_proofs` | Its theorems, for one node and for any number of nodes. |
| `TransferApprovalIndexer` | `batch/indexer_TransferApproval.py`. |
| `PositionIndexer` | What the four position indexers have in common: target lists, cursors, the kinds of passes, commits. |
| `PositionShare`, `PositionBond`, `PositionCoupon`, `PositionMembership` | The passes of `batch/indexer_Position_*.py` in their order. |
| `PositionIndexer_proofs`, `TokenHolders_proofs` | The theorems of the position indexers and of the holders collector. |
| `TokenHolders` | `batch/indexer_Token_Holders.py` with the requests of `app/api/routers/token.py` that create its jobs. |
| `LogSync` | What `batch/indexer_DEX.py` and `batch/indexer_Consume_Coupon.py` have in common: a block number in memory, an initial sync of the whole chain, one commit per sync. |
| `DexIndexer`, `DexMarket` | The passes and sinks of `batch/indexer_DEX.py`; on top of it the answers of `app/api/routers/dex_market.py`. |
| `DexOrderList` | `app/api/routers/dex_order_list.py`, next to the indexer: a request step by step. |
| `CouponConsumption` | `batch/indexer_Consume_Coupon.py`. |
| `BlockIndexer` | `batch/indexer_Block_Tx_Data.py`. |
| `TokenListIndexer` | `batch/indexer_Token_List_Event.py`. |
| `Notifications` | The loop of a watcher, and the notification API. |
| `TokenNotifications`, `CouponNotifications`, `MembershipNotifications` | The watchers of `batch/processor_Notifications_Token.py`, `..._Coupon_Exchange.py` and `..._Membership_Exchange.py`. |
| `TokenCache` | The cached details of a token (`app/model/blockchain/token.py`) with everybody who writes them: `batch/indexer_Token_Detail.py`, `indexer_Token_Detail_ShortTerm.py`, the admin API, the attribute watcher. |
| `ListImporter` | `batch/indexer_Company_List.py` and the two `batch/indexer_PublicInfo_*.py`. |
| `MailQueue` | `batch/processor_Send_Mail.py`, `processor_Send_Chat_Webhook.py`, and the requests that fill their tables. |
| `TransactionApi` | The two sending endpoints of `app/api/routers/eth.py`. |
| `PositionApi` | `app/api/routers/position.py`. |
| `NodeMonitor` | `batch/processor_Block_Sync_Status.py` with the clients of `app/utils/web3_utils.py`. |
| `MCTransfer`, `MCTransferApproval`, `MCPositions`, `MCTokenHolders`, `MCPositionApi` | Instances of one component for TLC: events, blocks and tokens as small sets. |
| `Ledgers`, `Services` | Several components that share no table, side by side, each an `INSTANCE` with constants of its own: the initial state chooses one of them (`which`), and it runs alone. Their properties are those of the instances, each stated for its own `which`. |
| `MCLedgers`, `MCServices`, `MCLiveness` | The instances of these groups for TLC, and a group of its own for liveness. `MCSpec` leaves the listing alone where it plays no part (owners, exchanges) and gives watchers blocks of the kind they watch, and looks at one request of the DEX API; the theorems are about `LedgersSpec`, without these restrictions. |
| `TransferApprovalIndexer_proofs`, `Dex_proofs`, `Notifications_proofs` | Invariants of the approval indexer, of the DEX indexer with the requests it is read by, and of the watchers. |
| `Ledgers_proofs`, `Services_proofs` | The theorems about the properties of `Ledgers` and `Services`. |

### How the state corresponds to the code

*Chain.* `chain[b]` is the set of events of block `b`; `head[n]` is the newest block node `n`
has imported; `listed` is the table `Listing`. `Logs` is `get_logs` and `RegisteredAt` is
`getTokenByAddress`, both as answered by a node with a given head. `Mine` and `CatchUp` are the
blockchain's; `RegisterAdminToken` and `DeleteToken` are the two admin operations. A second
listing of a listed token is refused by the guard, as by the conflict check.

*TransferIndexer.* `rows` counts the committed rows of each event, `sess` the rows as the open
session sees them, `cursor` is `IDXTransferBlockNumber` (-1: no row). `skip` is the pair
(`skip_timestamp`, `skip_block`) of each target token. `pc` is the place in `sync_new_logs`: the
token list, the four passes of `__sync_all`, `__update_skip_block`, `__update_idx_latest_block`
with the commit. The chunks of 1,000,000 blocks are `ChunkSize`. The comparison with
`skip_timestamp` is made by the Transfer pass only; values above `sys.maxsize` are left out by
every pass, events from an address to itself by the three lock passes. `Rollback` is the
exception clause, `Restart` the loss of the process with its caches.

*TransferApprovalIndexer.* A row is the set of flags an application has; its key is token,
exchange and number. `tokens`, `tokenStart`, `tokenCursor` are `TargetTokenList`;
`exchanges`, `exchangeStart`, `exchangeCursor` are `TargetExchangeList`. The table of
listings is read without an order, so `GetContractList` picks any of the tokens traded on an
exchange as the first one. `Sink` fails the sync when an event has no row to go to (the
`merge(None)`), and `Moved` is the condition of `__update_cursor`. `Legal` restricts the chain
to what the contracts allow: an application is made once, and then cancelled or approved.

*NodeMonitor.* `history` is the ring buffer of each endpoint, `node` the table `Node`. One action
checks one endpoint: `CheckNode` is `__process`, `CheckFails` is `__web3_errors`, and `Store` is
the write and commit that ends both; a database error ends the pass, except in `__web3_errors`,
where it is swallowed. Time is discrete. `request` is one call of `make_request`: choose the
synchronized node of the best priority, send, wait and choose anew. `seen` (the last answers of a
node that reached the table) and `request.steady` (the nodes that were up and synchronized since
the request began) are history variables for the properties. Left out: a change of the configured
endpoints, and the provider with `fail_over_mode=False`. Checks and attempts take no time.

*PositionIndexer.* Events only say whose balances to read, and what is read is the newest state. So
a balance is modelled by its age, the last block that changed it (`ValueOf`, from `Changed`, which
says what an event of a contract changes), and a pass sets the columns it reads to the age at the
node that answers (`Sink`). `table` and `lockRows` are what is committed, `sess` what the session
holds; `SinkTransfers` commits after each batch of accounts, in the middle of a sync. `start` is
`start_block_number` of a token and `TokenCursor` its cursor; `ExchangeCursor` is that of an
exchange, with the smallest start of the tokens traded on it. `ReadTransfers`/`SinkTransfers`,
`TokenPass`, `LockPass` and `ExchangePass` are the four shapes a pass has; the four modules name the
event kinds, the fields whose accounts are read and the order. `Orders` are the orders in which the
exchanges can be visited (the table of listings is read without one). The exchange contract takes
orders and escrows of the tokens traded on it only (`Traded`), as long as no token has moved.
`LockPass` may end early for one token without an error (`except Exception: pass`). Left out: the
type cache (it is the one of `TransferIndexer`); the second and further lock addresses; the locked
amounts read before a swallowed exception; the mapping of a failed contract call to a default value.

*TokenHolders.* `jobs` is `TokenHoldersList` with the committed rows of `TokenHolder` of each job;
`saved` are the rows of the job in progress that its session holds; `book` is `self.balance_book`.
`collect` is cut at its calls: `LoadTarget`, `LoadTokenInfo` (or `UnknownToken`), `LoadCheckpoint`,
a `Process` per pass, `SaveHolders` per chunk, `UpdateStatus` with the commit. `Abort` is the
exception clause with its two outcomes: the failure is recorded, or `__update_status` raises before
it resets the target and the book. `Restart` also stands for a commit that fails after
`__update_status` has reset them. `Legal` is what the contracts guarantee: no account but the owner
spends more than it has, a contract emits the events of its template (`Kinds`), and the exchange of
a token is its tradable exchange until that changes. An event is a gain or a loss of 1 for an
account (`Effect`), a balance the sum of them. The owner and the tradable exchange are read once per
job and may change in between. Left out: amounts above `sys.maxsize`, and two equal requests at the
same time.

*LogSync, DexIndexer, CouponConsumption.* `latest` and `started` are what the process remembers
(`latest_block`, `initial_synced_completed`) and `Restart` forgets. A sync is one session: `pass`
is the kind of events being read, `from`..`To` the range, `sess` the tables as the session sees
them; `Commit` and `Fail` end it. `StartInitialSync` reads ranges of `ChunkSize` blocks,
`StartSync` all new blocks at once; a block number smaller than the last one begins an empty
sync, as in the code. `ListTokens` is the list of tokens that the coupon indexer reads before the
block number (`sync_new_logs`). Each sink of `indexer_DEX.py` is an operator on the pair of
tables; `SyncAgree` asks the exchange for the parties, at a node of its own. `Exchange` restricts
the chain to what an exchange contract allows (an order is made once and agreed on only while it is
open; an agreement is settled once). Left out: prices, agents, countries, timestamps.

*DexMarket.* The answers of `dex_market.py` are operators on the tables and on the exchange contract
as a node with `h` blocks answers (`ChainOrder`, `getAgreement`). The order book and the ticks of a
token are one query each. An agreement takes two calls, `getOrder` and `getAgreement`, each answered
by a node of its own. A query for ticks may fail: the `except` branch empties `tick_list` and the
loop goes on, so that the answer has the tokens after the last failure (`Ticks`, with the set
`failing`). Sorting is left out.

*DexOrderList.* `request` is the last request with what the client gets. It makes three lists in
turn (`Lists`, `request.at`): a query of the tables (`Found`), which sees what is committed then, one
call of the contract for each row found (`CallExchange`, `rest`), and the next query (`ListMade`).
Between any two of these steps the indexer may commit and the chain may grow, so the three lists are
of three states of the tables and each entry of a later state of the contract. An exception
(`RequestFails`) is swallowed, as in the code: the lists that are complete are answered, the one in
the making is lost, those after it are empty, and the status is that of success; `request.failed`
records what the client cannot see. A request is for one account, since the code answers them one
after the other and the lists of one do not depend on those of another; after an error of the
database those that follow fail as well, which is a `RequestFails` of each. `since` and `known` keep
where the tables stood when the request began; the properties are about them. Each query sees the
newest commit (`READ COMMITTED`, the default of PostgreSQL, and the code sets no other); a database
with one snapshot for the session answers as if nothing was committed meanwhile. Sorting, and the
details of the token that are shown with an entry (`TokenCache`), are left out.

*BlockIndexer.* `next` and `last` are the loop of `process`; `Store` is the commit of one block.
A row of `IDXBlockData` carries the transactions the block lists, `IDXTxData` is the set `txs`.

*TokenListIndexer.* `SyncRegister` reads one range and applies its events in order; of each
token the last one remains, so `SinkOnTokenInfo` takes the one of the last block. The block number of
a row exists in the model only, to compare with the chain.

*Notifications.* A watcher is a record: its type, the contracts it looks at, its event, whom it
notifies, and the conditions it checks (`fromPeople`, `registeredOnly`, `skipPast`, `option`). The
three other modules list the watchers with their records. `Begin` reads contracts and block number,
`WatchContract` a range of the first one with its commit, `UpToDate` is the early `return`,
`LogsFail` the `except` around `get_logs`, `EndPass` any other exception. An id is block,
transaction, log and option; `Merge` is `db_session.merge`: of a row that exists it keeps what
the users set. Left out: texts and metadata, sorting, paging and the count of unread ones.

*TokenCache.* One token with two columns, a long-term one and one that is short-term for every
template; each follows a source with a version number. `job` is what a process has read and will
write, so that any other process may write in between; `UpdateOf` is what the ORM writes at the
flush, the columns that differ from those loaded. `held` remembers when each version was last the
present one. The sets of columns are those of the `fetch` methods of the four classes.

*ListImporter.* `session` is the open update: rows, items left. `Treatment` says what the importer
of each `kind` does with an item that is not as it should be: skip it, raise, or store it. `spoiled`
remembers a failed update.

*MailQueue.* `batch` is the table as it was read, `current` the row being worked on between sending
and deleting; `Stop` is the end of the process, or a failed commit, at any of these points.

*TransactionApi.* `step`, `index` and `result` are a handler's position, the transaction it is at
and its answer so far. Its awaits are the places where others run: the check of all tokens, the full
pool, each `send_raw_transaction`, the receipt. The node orders the transactions of a sender by
nonce and knows each of them once. An answer may be lost after the transaction was accepted
(`LostAnswer`).

*PositionApi.* `held` is what the account has on the chain, by place; the tables are brought up to
date by `IndexPosition`, `IndexConsume`, `IndexTransfer` and `IndexRegister`, one token at a time
and each on its own. The answers are operators, one per method: the lists and single positions of
the three base classes, from the index and from the contracts, and `list_all_token_position` with
its one query over all tables.

## Runs

| Run | Shows |
|---|---|
| `transfer_single` | One node, two tokens, three blocks in chunks of two, one failure. `ExactlyOnce`: the committed rows are exactly the indexable events up to the block number of their token. `ImplementsEventIndex`: rows and block numbers change in one step, as in `EventIndex`. `CursorNeverRegresses`. |
| `transfer_reindex` | Violation: with two nodes, Unlock rows are repeated. |
| `approval_shared` | Violation: two tokens on one exchange. |
| `positions` | Each of the four indexers alone on a chain of its own (they share no table). `ValuesUpToDate`: no stored balance or locked amount is older than the stored block number says. `LockHistoryComplete`: no lock row is missing. |
| `position_repeat` | Violation: lock rows of an earlier chunk are committed with a batch of transfers, and inserted again after an exception. |
| `position_swallow` | Violation: an exception swallowed in a lock pass loses rows. |
| `holders` | Two jobs for a share (three blocks, chunks of two, locks, one failure) or for a membership (two blocks, a lagging node, one new owner or exchange). `HoldersAtBlock`: a finished list is what the accounts had at its block, whatever list it continues. `ListsAppearOnce`: rows come with the status and never change. `JobsEnd`: no job stays pending. |
| `holders_outage` | Violation: a failure that cannot be recorded leaves its balances to the next job. |
| `coupon_position` | Violation: the position of a coupon from the index has no number of used coupons. |
| `ledgers` | Twelve small instances, one at a time; see below. |
| `services` | Six small instances, one at a time; see below. |
| `liveness` | What must happen in the end, for six processes; see below. |

`ledgers`, by the value of `which`:

| `which` | Instance | Properties |
|---|---|---|
| `transfer` | one token, two nodes | `TransferRowsSound`: block numbers may move backwards and events may be missed, but no Transfer event has two rows (the time stamps protect it) and no row is made up |
| `block` | blocks with up to two transactions, two nodes, two failures | `TablesAreChainPrefix` |
| `owner`, `owners` | two tokens with one or two nodes, an owner that changes, a template that is not available at first | `OwnersAsRegistered`; with two nodes `OwnerNeverOlder` |
| `dex` | two exchanges and two tokens, orders cancelled by their maker or by force, several agreements, settled or not, a failure or restart, a request of the API | `DexTablesAsOnChain`, `OrderBookAsOnChain`, `DexAnswersAgree`, `HistoryListed` |
| `coupon` | two consumptions of one account in one transaction, amounts that do not fit, a share among the tokens | `ConsumptionsAsOnChain` |
| `token`, `couponEx`, `memberEx` | the watchers of one kind of event, or of its two sides, with users who flag and delete | `NotifiedExactly`, `DeletedStaysDeleted` |
| `approval` | one token moving between two exchanges, four blocks, one failure | `HistoriesComplete`, `HistorySound` |
| `couponPosition`, `sharePosition` | two tokens of one account, tables behind the chain | `IndexAgreesWithContract`, `PagesOfOneList`, `PositionAnswersAgree` |

`DexAnswersAgree` says that an agreement is retrieved with the parties the table has, and that ticks
are those settled on the chain, whatever query fails. `HistoryListed`: no agreement falls between the
three queries of a request, it is listed as pending and as completed only if it was settled in
between, and no order is missing that was open throughout, unless an exception ended the request;
what a partial answer shows is true as well, and a default list shows nothing that was cancelled
where the tables stood when the request began.

`services`: `one`, a node that stalls, lags, goes down and comes back under a monitor that fails and
restarts (`NodeStatusRight`: the ring buffer forgets no answer too early, no false alarm, none
that stays); `two`, a primary and a standby node with a client (`OutageSurvived`: the retries
outlast the time until the monitor has marked a lost node, even when it loses a pass; with one
fault more than `RetryCount` it fails, so the bound is sharp); `cache`, three of the four writers of
a token's row (`CacheIsFresh`, `ToldInOrder`); `lists` (`TableIsOneList`); `mail`
(`MessagesSentOnce`); `eth`, three overlapping requests (`SuspendedSendsNothing`, `AnswersAreTrue`).

`liveness`: `EventuallyIndexed` (transfers), `EveryAgreementIndexed`, `EveryBlockIndexed`,
`ListImported`, `QueueDrained`, `EveryRequestAnswered`.

*Bounds.* `MaxBlock` is three or four and `ChunkSize` one or two, so that a sync has one chunk,
two chunks, a chunk cut short by the newest block, a skip block inside, before and after a chunk,
and a token listed after a sync. Two tokens are needed for a token with a cursor ahead of
another; two nodes for a lag. One failure (`MaxFailures`) lets each pass be interrupted once.
`MaxCopies` stops counting rows at two, one more than is ever right. Blocks carry the event sets
of `Contents`, which include two events of one block and one token, an event whose value does not
fit, and a transfer from an address to itself.

`positions` has a token that is listed while a sync runs, two tokens on one exchange (membership), a
change of the tradable exchange (coupon), two chunks and a batch of one account, so that a failure
falls between two commits of a sync. In `services` the ring of the single node has two slots, the
least in which order matters, and the clock runs to 8, long enough to fill it, stall and recover;
the ring of the two nodes has one slot, since there only outages count, and three retries of two
time units, a monitor interval each. An outage counts as two faults there, because it can spoil two
attempts: when the monitor's pass is slow, the second one still comes before the check.
`MaxSwallowed` is zero in the passing run: the swallowed exception is what `position_swallow` is
about; so is `MaxUnrecorded` in `holders`. Two jobs are the least with which a list continues
another one and a failed job is followed by a new one for the same block; three blocks in chunks of
two give jobs of one and of two chunks, before and after a checkpoint. `HoldersAtBlock` makes no
claim for accounts that ever owned the token, for tokens that moved to another exchange, and for
lists (or lists continuing one) for which a lagging node was asked: see the hazards.

In `ledgers` and `services` each instance is the smallest in which its hazards happen. Three blocks
in chunks of two are again one range, two, and one cut short, with an initial sync and a later one
(`dex`, `coupon`); the watchers have ranges of one block, so that a token is behind by more than one
range, and every kind of event is watched in a behaviour of its own, on blocks of that kind. The
exchange watchers and most token watchers have two blocks (the registration and one with events);
the watchers of transfers and redemptions have three. `approval` has four blocks, so that an
application, the move to another exchange, an event there and a later one fall into different
chunks. `MaxSize` (5) stands for `sys.maxsize`: an amount of 9 does not fit. The positions allow
three changes of an account or of the listing, which is enough for a trade with a lock or
consumption before and after a table was brought up to date. `cache` has a long time limit of 4 and
a short one of 1 on a clock that runs to 5: a row can expire in either way, be refreshed in part,
and be registered again while its short-term columns are valid; a fetch takes one time unit at most
before its commit (`MaxDelay`), and two changes suffice for a value that is overtaken. The limits in
`RowNotOlderThanStamps` and `ServedIsFresh` are sharp: with one time unit less TLC finds a
violation. In `mail` two failures let a message be sent, left in
the table, and sent again; in `eth` two requests share transactions, a third one goes without
waiting, the status changes once and one answer is lost.

`dex` follows each behaviour up to the answer to one request (`OneRequest` of `MCLedgers`): nothing
the indexer does depends on requests, so the state after an answer is one the run reaches without
it. The request is the maker's, for one exchange or for a token, or the taker's, for the other
exchange (`MCAsked`). It begins between two syncs, when the tables have rows, are up to date and no
sync has failed (blocks mined before its first call are as if they had been there when it began);
while it is served, syncs start and commit, blocks are mined and calls fail, but the passes of a
sync run without a break, since they read blocks that are there already and write what only the
commit shows, and the listing and the failures of the indexer stay as they are. The theorems about
`DexTablesAsOnChain`, `DexAnswersAgree` and `HistoryListed` are about `LedgersSpec`, which has none of
these restrictions.

*Fairness.* `main()` of every batch process calls its work in an endless loop and repeats a call
that failed, so each has weak fairness of its own steps: `SyncNewLogs` (transfers), `Process` (dex),
`Start` and `IndexBlock` (blocks), `Import` (lists), `Process(s)` of each sender (mail), `Collect`
(holders). A request handler runs on until it has answered: weak fairness of `Handler(r)`; its waits
have time limits, so it needs nothing of the node. Nothing is assumed of the chain, the nodes, the
publishers or the administrator. Failures are bounded, since with endless failures no sync ends.
Transfers and agreements have one node there: with a node that lags for ever, events can be missed.
A block counts when all nodes have it. `ListImported` excepts a list whose update failed, because
the digest is remembered before the update. No fairness is claimed for the watchers: their loop
returns at the first contract without new blocks, so on a chain that stops a contract may stay
unread.

## Findings

`PROJECT.json` quotes the texts they contradict.

1. The stored block number is overwritten without a comparison (`indexer_Transfer.py`,
   `__update_idx_latest_block`). A call answered by a node that is behind sets it back, and the next
   call indexes Unlock, ForceUnlock and ForceChangeLockedAccount events again.
2. An exchange shared by two tokens is read from the block number of the first one only
   (`indexer_TransferApproval.py`, `__get_contract_list`); a later cancellation of a skipped
   application stops the sync altogether.
3. The position indexers commit the lock rows of earlier chunks with a batch of transfers, but the
   block number only at the end: after an exception the rows are inserted again.
4. Their lock passes swallow every exception and go on: the rows left are never made.
5. When the failure of a holders job cannot be recorded, its balances stay in the process and the
   next job counts them again (`indexer_Token_Holders.py`, `__update_status`).
6. With `enable_index`, the position of one coupon is answered by the method of the base class,
   without the number of used coupons that the response model requires (`position.py`,
   `get_one_from_index`); a coupon that is used up is not found although the list has it.

More is known and not among the runs, because no text of the repository settles what is meant:

* The empty type of a token that a lagging node does not know is cached until the process restarts
  (`indexer_Transfer.py`, `__get_token_list`).
* When the tradable exchange of a token changes, the position indexers start from block 0 after
  their next restart and double every lock row: the block number belongs to the pair of token and
  exchange.
* Tokens issued into or redeemed out of a lock address do not update the locked position.
* `TokenType("")` stops the approval indexer for a listed token the contract does not know.
* The lists of holders continue from a list made with another owner, another exchange or a lagging
  node; `HoldersAtBlock` makes no claim there.
* Two registrations of one token at the same time make two listing rows (`admin.py`): the check and
  the insert are separate and the table has no unique key.
* The block number of the DEX indexer is in memory only: orders made before their token was listed
  appear after the next restart.
* The list importers remember the digest before the table is written, so a failed update is not
  repeated until the list changes or the process restarts.
* A transaction that is queued behind a gap at the time-out is answered as failed and may still be
  executed (`FailureExplained` names the case).
* A registration that finds a row whose short-term columns are still valid writes them back with a
  new time stamp (`admin.py`, `register_admin_token`; the stamp is set whether `get` had to fetch or
  not), so they can be served up to twice the short time limit (`ServedIsFresh`).
* A contract call that fails is taken for a value of none when a position is read from the contract
  (`position.py`, `_get_position`).
* The history of an account swallows every exception and answers the lists made so far, and a failed
  query empties the ticks of the tokens before it, both with the status of success
  (`dex_order_list.py`, `dex_market.py`): a client cannot tell such an answer from a whole one. An
  agreement settled between two of the queries is listed as pending and as completed.
* In `list_all_token_position` one join over all tables multiplies sums when a token has both
  consumptions and several lock rows; the templates that have both do not occur, so it stays without
  effect (`Times` in `PositionApi`).

## Proofs

`TransferIndexer_proofs` proves, for all values of the constants that satisfy the named
assumptions of `Chain` and `TransferIndexer`:

* `TypeCorrect`: `Spec => []TypeOK`.
* With one node (`Node = {n}`, the case of a deployment without standby nodes):
  `ExactlyOnceWithOneNode` (`Spec => []ExactlyOnce`), `CursorMonotone`
  (`Spec => CursorNeverRegresses`), `Refinement` (`Spec => ImplementsEventIndex`).

`ExactlyOnce` is not inductive: it speaks of committed rows only. `IInv` adds what the open
session holds at each place of the sync (every event of a target token up to the last finished
pass of the current chunk, exactly once), that `skip` is what the committed tables had when it
was read or a newer value of the same session, that a row's time is never beyond what
`skip_timestamp` allows for unread blocks, and that no block number exceeds the height of the chain.
Its preservation is split by action: `GetTokenListInvariant`, `PassInvariant`,
`UpdateSkipInvariant`, `CommitInvariant`, `AbortInvariant`, `EnvironmentInvariant`.
`SkipAhead` and `PassReadsTheRest` are the two facts about chunk arithmetic.

It also proves, for any number of nodes that lag as they like, `NothingMadeUp` (`Spec
=> []NoPhantomRow`) and `TransferOnce` (`Spec => []NoDuplicateTransfer`); the run `ledgers` checks
the two together as `TransferRowsSound`. `NodesInv` says of the open session what the properties say
of the committed rows, and `SkipCurrent`: when the Transfer pass begins, `skip_timestamp` is the
newest time among the rows of the session, so that an event that has a row is not newer than it.

For the block indexer, `Ledgers_proofs` proves `BlockTypesCorrect` (`Spec => []TypeOK`) and
`TablesCorrect` (`Spec => []TablesAreChainPrefix`), for any nodes, numbers of transactions and
bounds. The second is inductive with the first, whose conjunct about `next` says that a pass reads
the block after the stored one; `OneMoreBlock` is the only arithmetic.

The other proofs are about the groups `Ledgers` and `Services`, so that a theorem states the very
property a run checks. A group chooses one component at first, which never changes; each component
has an inductive invariant, and `StepOfOne` (`Ledgers_proofs`) says that a step of the group is one
of the chosen component or none. The constants of an instance are arbitrary but for its assumption,
which is named in its module (`Assumption`, `ChainAssumption`, ...) and assumed by the group
(`CouponLedgerAssumption`, `CacheAssumption`, ...), where TLC evaluates it. What they say of events
is what the chain guarantees: a transaction lies in one block and numbers its events
(`CouponConsumption`), a token is a token of the chain, an event of an exchange names one, an
exchange uses a number for one order and one agreement only, and who placed an order is a party of
its agreements (`DexAssumption`, `MarketAssumption`).

`Services_proofs`:

* `TableIsOneListAlways`. `ListInv` says of the open session that its rows are the image of the
  items it has done (`Partial`, the last valid item of each key) and that what is left is the rest
  of the list. `Latest` is a choice, not a recursion, so that one more item is one lemma.
* `MessagesSentOnceAlways`. `MailInv`: what a sender has read is still in its table, the row it is
  at was handled, and the copies of a message are counted against the failures; a message has one
  copy more only while its row waits for its deletion.
* `SuspendedSendsNothingAlways`, `AnswersAlwaysTrue`. `EthInv`: the mined transactions of a sender
  have the nonces below the next one, each once, and for every request how what it has sent, its
  answers, and the pool agree.
* `CacheIsFreshAlways`, `ToldInOrderAlways`, for any group of the four writers and any limits.
  `CacheInv` says of each process what it has read: the value it is going to write was held when it
  was fetched, and a column that differs from the row it loaded was written since by somebody who
  fetched at most `MaxDelay` before (`WrittenSince`). This is why a refresher that writes only the
  columns that changed does not make a row older than two passes. `RowFresh` distinguishes the row
  of a listed token, the only one a registration may have stamped without reading, from one that is
  not listed; so the extra time limit is added once, not with every registration.
* `NodeStatusAlwaysRight`, for any nodes, period, thresholds and failures. The invariant `OneInv`
  says that the slots of the ring, counted back from the one written next, hold the newest answers
  of the node (`Remembers`), that their times grow (`Ordered`), and that those of a node the pass
  has not come to are older than the pass (`AnswersInTime`). The code compares an answer with the
  oldest slot only; `ComparesRight` says that this is enough, because steps that are fast enough
  each are fast enough together (`FastEnoughAddsUp`, by a least counterexample). Hypotheses are
  `BlocksPerSec > 0` and `Speed > 0`: with an expected speed of zero the comparison is true of every
  node, also of one that is stuck.
* `OutageAlwaysSurvived`, for any nodes, retries and times. The invariant `FailOverInv` is an
  account: a failed attempt is paid for by a fault, and the faults that are not yet spent pay for
  more time (`Paid`) than the monitor still serves a lost node (`MarkedBy`). The hypothesis is
  `Interval <= WaitTime`, true by default: `WEB3_REQUEST_WAIT_TIME` falls back to the interval of the
  monitor ("Same batch interval", `config.py:196-198`). With a shorter wait the attempts can all
  fall between two passes. Both theorems take a pass over the nodes to be shorter than the interval
  (`PassTime < Interval`, in `Assumption`). TLC checked both invariants on the instances of
  `services` first.

`TransferApprovalIndexer_proofs` and `Ledgers_proofs`:

* `HistorySoundAlways`: for any nodes, tokens and exchanges no row says what did not happen
  (`SoundInv`, of the committed rows and of the session).
* `HistoriesAlwaysComplete`: with one node and one token nothing about an application is missing up
  to the block numbers. `ReadInv` says of every pass which events of the chunk the session has. With
  two tokens on one exchange it is false (finding 2), with nodes that lag too.
  `TokenHistoryAlwaysComplete` and `ExchangeHistoryAlwaysComplete` are its two halves for
  `TransferApprovalIndexer` itself.
* `TransferRowsSoundAlways` takes `NodesInv` of `TransferIndexer_proofs` over by `INSTANCE`.
* `OwnersAlwaysAsRegistered` with one node, `OwnerAlwaysNeverOlder` with any. `OwnerInv`: the session
  is the committed table with the registrations of the range; `LastInv`: each row is the last
  registration up to the stored block number.
* `ConsumptionsAlwaysAsOnChain` with one node. `CouponInv` says of the session what the property says
  of the tables, up to the part of the range that has been read.

`Dex_proofs` and `Ledgers_proofs`, for one node and any exchanges, ranges, failures, edits of the
listing and requests:

* `DexTablesAlwaysAsOnChain`. `DexInv` says that the committed tables are what the events up to the
  last committed sync tell (`OrderShown`, `AgreementShown`), and of the open session what each of
  the six passes has added (`Seen`). What the passes rely on is that of the events of a range those
  of an earlier kind are read first (`NewOrdersNotCancelled`, `NewAgreementsNotSettled`). The one
  thing that is not a function of the events read is an order of a token that was listed late: it
  comes into the table with the initial sync after a restart, and until that is committed shows the
  cancellations this sync has read only (`Cancels`).
* `DexAnswersAlwaysAgree`: a consequence of these tables, of `MarketAssumption` (who placed an order
  is a party of its agreements) and of the fact that what the contract says of a party never changes.
* `HistoryAlwaysListed`. `HistoryInv` is `DexInv` with what is true of a request in the middle
  (`RequestRight`): every agreement the tables had when it began is in a finished list, among the
  rows still to be asked for, in the part made of those that were, or belongs to a query that is
  still to come. It is preserved by a commit of the indexer because statuses only go from pending to
  settled and orders are never taken out of the tables (`Onward`), and pending agreements are read
  before completed ones; in the other order an agreement settled in between is in neither list (the
  mutant of `HistoryListed`). TLC checked `RequestRight` on the instance of `ledgers` first.

`Notifications_proofs` and `Ledgers_proofs`, for any watchers, tokens, ranges and edits of users:

* `DeletedStaysDeletedAlways`, with any nodes. `NotesInv`: block numbers never pass what was read, a
  notification is of an event below its watcher's block number, and an id occurs once.
* `NotifiedExactlyAlways`, with one node. `ToldInv`: of every range that was read each event has
  its notification, or had one that its user deleted. A token that must be known has to be so at
  the block of its event, since the listing of the token contract is asked when the event is read.

`PositionIndexer_proofs`, with one node, for any tokens, accounts, exchanges, chunk and batch sizes,
failures, restarts and changes of a tradable exchange:

* `ShareBalances`, `BondBalances`: balances, and deposits and commitments while no token moves, are
  not older than the stored block number says. Nothing is assumed of swallowed exceptions here.
* `ShareValues`, `BondValues`: neither are the locked amounts, if no exception is swallowed and no
  token is issued into a lock. Both hypotheses are needed: finding 4 and the remark on issuing into
  locks below it are what happens without them.
* `ShareLockHistory`, `BondLockHistory`: no lock row is missing, if no exception is swallowed.
* `CouponValues`, `MembershipValues`: all values, without either hypothesis; these indexers have no
  lock passes.

The theorems assume which kinds of events the contracts of a kind of token emit (`StockKinds`,
`CouponKinds`, `MembershipKinds`), as the passes of the indexer do: the escrow of security tokens
moves an amount with `HolderChanged`, the one of coupons and memberships with `EscrowFinished`. The
invariant (`StockInv` and its like) says which events the open session shows: those up to the stored
block number of the token, those of the chunks done (`CallInv`), and within the chunk those of the
kinds that the passes before have read (`Chunk`); in the middle of the transfers, those whose
accounts are not left to read (`Batches`). What a pass adds is proved once for each shape
(`TokenPassAdds`, `LockPassAdds`, `ExchangePassAdds`, `SinkTransfersStep`), for any fields and
kinds. That values are read from the newest state is what makes a pass harmless to events it is not
about (`RefreshKeeps`), and a row of the lock history is never taken back. For an exchange,
`ExchangeVisited` says that an event the session does not show yet is among those the pass reads,
although the cursor of the exchange is not the one of the token, and `LastIs` with `ExchangeLogsAre`
that the books read are those of the exchange the token is traded on. `StockInv`, `CouponInv` and
`MembershipInv` were checked with TLC on the instance of `positions` before they were proved.

`TokenHolders_proofs`, for any nodes, tokens, jobs, checkpoints, chunks, failures and restarts:

* `TypeCorrect`: `Spec => []TypeOK`; that the target is always a job is the part that needs an
  argument.
* `ListsWrittenOnce`: `Spec => ListsAppearOnce`.
* `ListsRight`: `Spec => []HoldersAtBlock`, if every failure can be recorded (finding 5 is what
  happens otherwise) and no token is issued into a lock. The invariant says which events the book of
  balances stands for: those up to the checkpoint, those of the chunks done and, within the chunk,
  those of the passes done (`Read`). A list that is finished says the same of the events up to its
  block, hence a book that starts from it is right too; an account without a row had nothing,
  because no account goes below zero on the chain (`Legal`). The order of the passes does not
  matter, since a balance is a sum.

`OneNode` is a hypothesis of the theorems that say so and not of the module: where several nodes
lag, completeness does not hold, because the newest block number and the events may come from
different nodes. Soundness is proved without it.

Only model-checked, because it is out of the prover's reach: all liveness (the prover does not
handle fairness), and answers of the API that are sums over sets or sequences, that is, recursive
(`OrderBookAsOnChain`, the properties of `PositionApi`).
Completeness and the refinement with several nodes do not hold.

## Not modelled

* *The rest of the query API* (`token_*.py`, most of `token.py`, `position_lock.py`,
  `company_info.py`, `user_info.py`, `public_info.py`, `events.py`, `e2e_message.py`,
  `bc_explorer.py` and others): reads of one table or of a contract, with filters, sorting and
  paging. They keep nothing and have no second way to ask the same thing that an answer could be
  compared with.
* *Infrastructure*: configuration, logging, database engine, error handlers, start scripts. Sessions
  appear in every module as a working copy that is committed or dropped.
* *The explorer terminal* (`cmd/explorer`): a user interface over the query API, without state.
* *Schema migrations*: generated, run once by hand while nothing else runs.
* Of the modelled components, what their entry in `PROJECT.json` names as left out: columns that are
  copied and never looked at again, texts, sorting and paging.
