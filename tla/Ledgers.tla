-------------------------------- MODULE Ledgers --------------------------------
(* The ledgers that share no table, each on a chain of its own: one of them, which,  *)
(* is chosen in the initial state and runs alone.  Variables of the same name are    *)
(* shared, those a ledger does not have stay 0, those of the blocks as they are at   *)
(* first.                                                                            *)
EXTENDS BlockIndexer, Sequences

\* The constants of each ledger, as a record with a field for each of them.
CONSTANTS OnTransfers, OnOwners, OnDex, OnCoupons, OnTokenNotes, OnCouponNotes,
          OnMembershipNotes, OnApprovals, OnCouponPositions, OnSharePositions

VARIABLES which,
          synced, chain, listed, rows, sess, cursor, typeCache, targets, skip, latest, from, pc,
          notes, running, todo, first, gone,
          started, upto, pass, done, steady,
          request, tradable, changes, approvals, syncedNumber, exchangeCache, tokens, tokenStart,
          tokenCursor, exchanges, exchangeStart, exchangeCursor, blockTo,
          listing, held, everHeld, position, locked, consumed, received, registered

blockOnly == <<height, blocks, txs, number, next, last>>
transferOnly == <<cursor, typeCache, skip, pc>>
notesOnly == <<notes, running, todo, first, gone>>
logOnly == <<started, upto, pass, done, steady>>
tables == <<rows, sess, from>>
approvalOnly == <<tradable, approvals, syncedNumber, exchangeCache, tokens, tokenStart,
                  tokenCursor, exchanges, exchangeStart, exchangeCursor, blockTo>>
positionOnly == <<listing, held, everHeld, position, locked, consumed, received, registered>>

NoBlocks == height = 0 /\ blocks = {} /\ txs = {} /\ number = -1 /\ next = 0 /\ last = -1
NoTransfers == cursor = 0 /\ typeCache = 0 /\ skip = 0 /\ pc = 0
NoNotes == notes = 0 /\ running = 0 /\ todo = 0 /\ first = 0 /\ gone = 0
NoLogSync == started = 0 /\ upto = 0 /\ pass = 0 /\ done = 0 /\ steady = 0
NoTables == rows = 0 /\ sess = 0 /\ from = 0
NoApprovals == /\ tradable = 0 /\ approvals = 0 /\ syncedNumber = 0 /\ exchangeCache = 0
               /\ tokens = 0 /\ tokenStart = 0 /\ tokenCursor = 0 /\ exchanges = 0
               /\ exchangeStart = 0 /\ exchangeCursor = 0 /\ blockTo = 0
NoPositions == /\ listing = 0 /\ held = 0 /\ everHeld = 0 /\ position = 0 /\ locked = 0
               /\ consumed = 0 /\ received = 0 /\ registered = 0

------------------------------------------------------------------------------
(* Transfers. *)

Transfers == INSTANCE TransferIndexer WITH
    Token <- OnTransfers.Token, Node <- OnTransfers.Node, Event <- OnTransfers.Event,
    Contents <- OnTransfers.Contents, MaxBlock <- OnTransfers.MaxBlock,
    ChunkSize <- OnTransfers.ChunkSize, BlockTime <- OnTransfers.BlockTime,
    MaxFailures <- OnTransfers.MaxFailures, MaxCopies <- OnTransfers.MaxCopies

ASSUME TransferLedgerAssumption == Transfers!ChainAssumption /\ Transfers!TransferAssumption

TransferInit == Transfers!Init /\ synced = 0 /\ NoBlocks /\ NoNotes /\ NoLogSync
TransferNext == Transfers!Next /\ UNCHANGED <<synced, blockOnly, notesOnly, logOnly>>

\* Where nodes lag, block numbers may move backwards, but no Transfer row is made twice and
\* none of nothing.
TransferRowsSound == which = "transfer" => Transfers!NoDuplicateTransfer /\ Transfers!NoPhantomRow

------------------------------------------------------------------------------
(* Blocks and transactions. *)

BlockInit == /\ Init /\ synced = 0 /\ chain = 0 /\ listed = 0 /\ targets = 0 /\ latest = 0
             /\ NoTables /\ NoTransfers /\ NoNotes /\ NoLogSync
BlockNext == Next /\ UNCHANGED <<synced, chain, listed, targets, latest, tables, transferOnly,
                                 notesOnly, logOnly>>

------------------------------------------------------------------------------
(* Owners of tokens, with one node and with many. *)

Owners(nodes) == INSTANCE TokenListIndexer WITH
    Token <- OnOwners.Token, Node <- nodes, Event <- OnOwners.Event,
    Contents <- OnOwners.Contents, MaxBlock <- OnOwners.MaxBlock, number <- synced,
    ChunkSize <- OnOwners.ChunkSize, MaxFailures <- OnOwners.MaxFailures,
    TokenTemplate <- OnOwners.TokenTemplate

ASSUME OwnerLedgerAssumption == /\ Owners(OnOwners.One)!Assumption
                                /\ Owners(OnOwners.Many)!Assumption
                                /\ \E n \in OnOwners.One : OnOwners.One = {n}

OwnerInit == /\ \/ which = "owner" /\ Owners(OnOwners.One)!Init
                \/ which = "owners" /\ Owners(OnOwners.Many)!Init
             /\ targets = 0 /\ NoBlocks /\ NoTransfers /\ NoNotes /\ NoLogSync
OwnerNext == /\ \/ which = "owner" /\ Owners(OnOwners.One)!Next
                \/ which = "owners" /\ Owners(OnOwners.Many)!Next
             /\ UNCHANGED <<targets, blockOnly, transferOnly, notesOnly, logOnly>>

\* The properties of TokenListIndexer: owners and, with many nodes, no older owner.
OwnersAsRegistered ==
    which = "owner" => Owners(OnOwners.One)!TypeOK /\ Owners(OnOwners.One)!OwnersAsRegistered
OwnerNeverOlder == [][which = "owners" => Owners(OnOwners.Many)!NeverOlder]_<<which, rows>>

------------------------------------------------------------------------------
(* Orders and agreements, with the requests that read them. *)

Dex == INSTANCE DexOrderList WITH
    Token <- OnDex.Token, Node <- OnDex.Node, Event <- OnDex.Event,
    Contents <- OnDex.Contents, MaxBlock <- OnDex.MaxBlock, ChunkSize <- OnDex.ChunkSize,
    MaxFailures <- OnDex.MaxFailures, Account <- OnDex.Account, MaxSize <- OnDex.MaxSize,
    Kinds <- OnDex.Kinds, NoRows <- OnDex.NoRows

LogSyncRest == <<synced, blockOnly, transferOnly, notesOnly>>
NoLogSyncRest == synced = 0 /\ NoBlocks /\ NoTransfers /\ NoNotes

ASSUME DexLedgerAssumption ==
    Dex!ChainAssumption /\ Dex!DexAssumption /\ Dex!MarketAssumption

DexInit == Dex!HistoryInit /\ NoLogSyncRest
DexNext == Dex!HistoryNext /\ UNCHANGED LogSyncRest

\* The tables show what happened on the chain up to the last sync: orders with their
\* cancellations, those of a token that was listed all the time without exception, and
\* agreements with their settlements.
DexTablesAsOnChain == which = "dex" => Dex!DexTablesAsOnChain

\* What the order book offers, computed from the tables, is what the contracts have left.
OrderBookAsOnChain == which = "dex" => Dex!OrderBookAsOnChain

\* An agreement is retrieved from the chain as the tables have it, and the ticks in an answer
\* are those settled on the chain, whatever query fails.
DexAnswersAgree == which = "dex" => Dex!DexAnswersAgree

\* The three queries of a request lose no agreement and no order, whatever the indexer commits
\* between them, and a default list shows nothing that was cancelled before.
HistoryListed == which = "dex" => Dex!HistoryListed

------------------------------------------------------------------------------
(* Consumptions of coupons. *)

Coupons == INSTANCE CouponConsumption WITH
    Token <- OnCoupons.Token, Node <- OnCoupons.Node, Event <- OnCoupons.Event,
    Contents <- OnCoupons.Contents, MaxBlock <- OnCoupons.MaxBlock,
    ChunkSize <- OnCoupons.ChunkSize, MaxFailures <- OnCoupons.MaxFailures,
    Kinds <- OnCoupons.Kinds, NoRows <- OnCoupons.NoRows,
    TemplateOf <- OnCoupons.TemplateOf, MaxSize <- OnCoupons.MaxSize

ASSUME CouponLedgerAssumption == Coupons!Assumption

CouponInit == Coupons!Init /\ NoLogSyncRest
CouponNext == Coupons!Next /\ UNCHANGED LogSyncRest

\* The rows are the consumptions of the chain, each with the amount it had when it was
\* first read, and none that was due is missing.
ConsumptionsAsOnChain ==
    which = "coupon" =>
        Coupons!SyncTypeOK /\ Coupons!ConsumptionsAsOnChain /\ Coupons!ConsumptionsKept

------------------------------------------------------------------------------
(* Notifications of the events of tokens and of the two exchanges. *)

TokenNotes == INSTANCE TokenNotifications WITH
    Token <- OnTokenNotes.Token, Node <- OnTokenNotes.Node, Event <- OnTokenNotes.Event,
    Contents <- OnTokenNotes.Contents, MaxBlock <- OnTokenNotes.MaxBlock, number <- synced,
    Address <- OnTokenNotes.Address, Contract <- OnTokenNotes.Contract,
    TemplateOf <- OnTokenNotes.TemplateOf, Groups <- OnTokenNotes.Groups,
    ChunkSize <- OnTokenNotes.ChunkSize, MaxFailures <- OnTokenNotes.MaxFailures

CouponNotes == INSTANCE CouponNotifications WITH
    Token <- OnCouponNotes.Token, Node <- OnCouponNotes.Node, Event <- OnCouponNotes.Event,
    Contents <- OnCouponNotes.Contents, MaxBlock <- OnCouponNotes.MaxBlock, number <- synced,
    Address <- OnCouponNotes.Address, Contract <- OnCouponNotes.Contract,
    TemplateOf <- OnCouponNotes.TemplateOf, Groups <- OnCouponNotes.Groups,
    CouponExchange <- OnCouponNotes.CouponExchange,
    ChunkSize <- OnCouponNotes.ChunkSize, MaxFailures <- OnCouponNotes.MaxFailures

MembershipNotes == INSTANCE MembershipNotifications WITH
    Token <- OnMembershipNotes.Token, Node <- OnMembershipNotes.Node, Event <- OnMembershipNotes.Event,
    Contents <- OnMembershipNotes.Contents, MaxBlock <- OnMembershipNotes.MaxBlock, number <- synced,
    Address <- OnMembershipNotes.Address, Contract <- OnMembershipNotes.Contract,
    TemplateOf <- OnMembershipNotes.TemplateOf, Groups <- OnMembershipNotes.Groups,
    MembershipExchange <- OnMembershipNotes.MembershipExchange,
    ChunkSize <- OnMembershipNotes.ChunkSize, MaxFailures <- OnMembershipNotes.MaxFailures

ASSUME NoteLedgerAssumption ==
    /\ TokenNotes!ChainAssumption /\ TokenNotes!NotificationsAssumption(TokenNotes!Watchers)
    /\ CouponNotes!ChainAssumption /\ CouponNotes!NotificationsAssumption(CouponNotes!Watchers)
    /\ MembershipNotes!ChainAssumption
    /\ MembershipNotes!NotificationsAssumption(MembershipNotes!Watchers)
    /\ OnCouponNotes.CouponExchange \in OnCouponNotes.Contract
    /\ OnMembershipNotes.MembershipExchange \in OnMembershipNotes.Contract

NotesRest == <<blockOnly, tables, targets, transferOnly, logOnly>>
NotesInit == /\ \/ which = "token" /\ TokenNotes!Init
                \/ which = "couponEx" /\ CouponNotes!Init
                \/ which = "memberEx" /\ MembershipNotes!Init
             /\ targets = 0 /\ NoBlocks /\ NoTables /\ NoTransfers /\ NoLogSync

NotesNext == /\ \/ which = "token" /\ TokenNotes!Next
                \/ which = "couponEx" /\ CouponNotes!Next
                \/ which = "memberEx" /\ MembershipNotes!Next
             /\ UNCHANGED NotesRest

\* A watcher reports every event it is to report, once its block number is past it, under
\* an id of its own, and nothing else.
NotifiedExactly ==
    /\ which = "token" => /\ TokenNotes!NotificationsTypeOK
                          /\ TokenNotes!EveryEventNotified /\ TokenNotes!NothingElseNotified
    /\ which = "couponEx" => /\ CouponNotes!NotificationsTypeOK
                             /\ CouponNotes!EveryEventNotified /\ CouponNotes!NothingElseNotified
    /\ which = "memberEx" =>
          /\ MembershipNotes!NotificationsTypeOK
          /\ MembershipNotes!EveryEventNotified /\ MembershipNotes!NothingElseNotified

\* What a user has deleted is not made again.
DeletedStaysDeleted ==
    which \in {"token", "couponEx", "memberEx"} => \A n \in notes : n.id \notin gone

------------------------------------------------------------------------------
(* Applications for transfers. *)

Approvals == INSTANCE TransferApprovalIndexer WITH
    Token <- OnApprovals.Token, Node <- OnApprovals.Node, Event <- OnApprovals.Event,
    Contents <- OnApprovals.Contents, MaxBlock <- OnApprovals.MaxBlock,
    ChunkSize <- OnApprovals.ChunkSize, MaxFailures <- OnApprovals.MaxFailures,
    Exchange <- OnApprovals.Exchange, NoExchange <- OnApprovals.NoExchange,
    Application <- OnApprovals.Application, InitialExchange <- OnApprovals.InitialExchange,
    MaxExchangeChanges <- OnApprovals.MaxExchangeChanges

ASSUME ApprovalLedgerAssumption == Approvals!ChainAssumption /\ Approvals!ApprovalAssumption

ApprovalRest == <<synced, blockOnly, targets, rows, from, cursor, typeCache, skip, notesOnly,
                  logOnly, positionOnly>>
ApprovalInit == /\ Approvals!Init
                /\ synced = 0 /\ targets = 0 /\ rows = 0 /\ from = 0 /\ cursor = 0
                /\ typeCache = 0 /\ skip = 0
                /\ NoBlocks /\ NoNotes /\ NoLogSync /\ NoPositions
ApprovalNext == Approvals!Next /\ UNCHANGED ApprovalRest

\* Up to the stored block number no event about an application is missing, neither one of
\* the token nor one of an exchange the token is traded on.
HistoriesComplete ==
    which = "approval" => Approvals!TokenHistoryComplete /\ Approvals!ExchangeHistoryComplete

\* No row says what did not happen.
HistorySound == which = "approval" => Approvals!TypeOK /\ Approvals!HistorySound

------------------------------------------------------------------------------
(* The positions of an account that the API answers, of coupons or of other tokens. *)

CouponPositions == INSTANCE PositionApi WITH
    Token <- OnCouponPositions.Token, TemplateOf <- OnCouponPositions.TemplateOf,
    LockAddress <- OnCouponPositions.LockAddress, Listings <- OnCouponPositions.Listings,
    Opening <- OnCouponPositions.Opening, MaxChanges <- OnCouponPositions.MaxChanges

SharePositions == INSTANCE PositionApi WITH
    Token <- OnSharePositions.Token, TemplateOf <- OnSharePositions.TemplateOf,
    LockAddress <- OnSharePositions.LockAddress, Listings <- OnSharePositions.Listings,
    Opening <- OnSharePositions.Opening, MaxChanges <- OnSharePositions.MaxChanges

PositionInit == /\ \/ which = "couponPosition" /\ CouponPositions!Init
                   \/ which = "sharePosition" /\ SharePositions!Init
                /\ synced = 0 /\ chain = 0 /\ head = 0 /\ listed = 0 /\ targets = 0
                /\ latest = 0 /\ failures = 0 /\ NoTables /\ NoBlocks /\ NoTransfers /\ NoNotes
                /\ NoLogSync /\ NoApprovals
PositionNext == /\ \/ which = "couponPosition" /\ CouponPositions!Next
                   \/ which = "sharePosition" /\ SharePositions!Next
                /\ UNCHANGED <<synced, chain, listed, targets, latest, head, failures, tables,
                               blockOnly, transferOnly, notesOnly, logOnly, approvalOnly>>

\* Once the indexers have caught up, the index answers as the contracts do.
IndexAgreesWithContract ==
    /\ which = "couponPosition" => CouponPositions!IndexAgreesWithContract
    /\ which = "sharePosition" => SharePositions!IndexAgreesWithContract

\* Pages cut while the contracts are asked are pages of one list.
PagesOfOneList ==
    /\ which = "couponPosition" => CouponPositions!PagesOfOneList
    /\ which = "sharePosition" => SharePositions!PagesOfOneList

\* The list of all templates, the lists of one, and a single position from the index agree.
PositionAnswersAgree ==
    /\ which = "couponPosition" => CouponPositions!ListsAgree /\ CouponPositions!RetrievedAsListed
    /\ which = "sharePosition" => SharePositions!ListsAgree /\ SharePositions!RetrievedAsListed

------------------------------------------------------------------------------
LedgerInit ==
    /\ \/ which = "transfer" /\ TransferInit
       \/ which = "block" /\ BlockInit
       \/ OwnerInit
       \/ which = "coupon" /\ CouponInit
       \/ NotesInit
    /\ request = 0 /\ NoApprovals /\ NoPositions /\ changes = 0

LedgerNext ==
    /\ \/ which = "transfer" /\ TransferNext
       \/ which = "block" /\ BlockNext
       \/ OwnerNext
       \/ which = "coupon" /\ CouponNext
       \/ NotesNext
    /\ UNCHANGED <<request, approvalOnly, positionOnly, changes>>

LedgersInit ==
    \/ LedgerInit
    \/ which = "dex" /\ DexInit /\ NoApprovals /\ NoPositions /\ changes = 0
    \/ which = "approval" /\ ApprovalInit /\ request = 0
    \/ PositionInit /\ request = 0

LedgersNext ==
    /\ \/ LedgerNext
       \/ which = "dex" /\ DexNext /\ UNCHANGED <<approvalOnly, positionOnly, changes>>
       \/ which = "approval" /\ ApprovalNext /\ UNCHANGED request
       \/ PositionNext /\ UNCHANGED request
    /\ UNCHANGED which

ledgerVars == <<which, vars, synced, chain, listed, targets, latest, tables, transferOnly, notesOnly,
                logOnly, request, approvalOnly, positionOnly, changes>>
LedgersSpec == LedgersInit /\ [][LedgersNext]_ledgerVars
================================================================================
