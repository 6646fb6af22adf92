---------------------------- MODULE Ledgers_proofs ----------------------------
(***************************************************************************)
(* Proofs about Ledgers: what the run of the group checks on small chains, *)
(* for every value of the constants.  The theorems about the transfer, the *)
(* approval and the DEX indexers and about the notifications are taken     *)
(* over from their own modules; the blocks, the owners of tokens and the   *)
(* consumptions of coupons are proved here.                                *)
(***************************************************************************)
EXTENDS Ledgers, TLAPS, FiniteSetTheorems

------------------------------------------------------------------------------
(* Blocks: the theorems of BlockIndexer, whose specification Spec is, for every number of *)
(* nodes, whatever each of them has imported.                                             *)


\* The types of the counters of the block indexer, and that a pass reads the block after
\* the stored number.
THEOREM BlockTypesCorrect == Spec => []TypeOK
<1>1. Init => TypeOK
  BY BlockAssumption DEF Init, TypeOK
<1>2. TypeOK /\ [Next]_vars => TypeOK'
  <2> SUFFICES ASSUME TypeOK, [Next]_vars
               PROVE  TypeOK'
    OBVIOUS
  <2> USE BlockAssumption DEF TypeOK
  <2>1. CASE NewBlock
    <3>1. /\ height \in Nat /\ height + 1 <= MaxHeight /\ height' = height + 1
          /\ UNCHANGED <<head, number, next, last, failures>>
      BY <2>1 DEF NewBlock
    <3>2. head' \in [Node -> 0..height']
      <4>1. 0..height \subseteq 0..(height + 1)
        BY <3>1
      <4> QED
        BY <3>1, <4>1
    <3> QED
      BY <3>1, <3>2
  <2>2. CASE Import
    <3>1. PICK n \in Node : head[n] < height /\ head' = [head EXCEPT ![n] = @ + 1]
      BY <2>2 DEF Import
    <3>2. head[n] + 1 \in 0..height
      BY <3>1
    <3>3. head' \in [Node -> 0..height']
      BY <3>1, <3>2, <2>2 DEF Import
    <3> QED
      BY <2>2, <3>3 DEF Import
  <2>3. CASE Start
    BY <2>3 DEF Start
  <2>4. CASE IndexBlock
    BY <2>4 DEF IndexBlock, Store
  <2>5. CASE Fail
    BY <2>5 DEF Fail
  <2>6. CASE UNCHANGED vars
    BY <2>6 DEF vars
  <2> QED
    BY <2>1, <2>2, <2>3, <2>4, <2>5, <2>6 DEF Next
<1> QED
  BY <1>1, <1>2, PTL DEF Spec

\* One more block in the range of stored blocks.
LEMMA OneMoreBlock ==
  ASSUME NEW n \in Nat \union {-1}
  PROVE  0..(n + 1) = (0..n) \union {n + 1}
OBVIOUS

\* However many passes were aborted, and whichever nodes answered, the tables hold the
\* blocks up to the stored number with their transactions and nothing else.
THEOREM TablesCorrect == Spec => []TablesAreChainPrefix
<1>1. Init => TablesAreChainPrefix
  <2> SUFFICES ASSUME Init PROVE TablesAreChainPrefix
    OBVIOUS
  <2>1. number = -1 /\ blocks = {} /\ txs = {}
    BY DEF Init
  <2>2. 0..number = {}
    BY <2>1
  <2> QED
    BY <2>1, <2>2 DEF TablesAreChainPrefix
<1>2. ASSUME TypeOK, TablesAreChainPrefix, [Next]_vars
      PROVE  TablesAreChainPrefix'
  <2>1. CASE IndexBlock
    <3>1. /\ next = number + 1
          /\ number \in Nat \union {-1}
      BY <1>2, <2>1, BlockAssumption DEF TypeOK, IndexBlock
    <3>2. /\ blocks' = blocks \union {<<next, Transactions(next)>>}
          /\ txs' = txs \union Transactions(next)
          /\ number' = next
      BY <2>1 DEF IndexBlock, Store
    <3>3. 0..number' = (0..number) \union {next}
      BY <3>1, <3>2, OneMoreBlock
    <3>4. blocks' = {<<b, Transactions(b)>> : b \in 0..number'}
      BY <1>2, <3>2, <3>3 DEF TablesAreChainPrefix
    <3>5. txs' = UNION {Transactions(b) : b \in 0..number'}
      BY <1>2, <3>2, <3>3 DEF TablesAreChainPrefix
    <3>6. \A b : Transactions(b)' = Transactions(b)
      BY DEF Transactions
    <3> QED
      BY <3>4, <3>5 DEF TablesAreChainPrefix, Transactions
  <2>2. CASE UNCHANGED <<blocks, txs, number>>
    BY <1>2, <2>2 DEF TablesAreChainPrefix, Transactions
  <2>3. IndexBlock \/ UNCHANGED <<blocks, txs, number>>
    BY <1>2 DEF Next, NewBlock, Import, Start, Fail, vars
  <2> QED
    BY <2>1, <2>2, <2>3
<1> QED
  BY <1>1, <1>2, BlockTypesCorrect, PTL DEF Spec

------------------------------------------------------------------------------
(* Which ledger runs. *)

\* A step is a step of the ledger that was chosen, or changes nothing.
LEMMA StepOfOne ==
    ASSUME [LedgersNext]_ledgerVars
    PROVE  /\ which' = which
           /\ which = "transfer" => TransferNext \/ UNCHANGED ledgerVars
           /\ which = "owner" => (OwnerNext /\ Owners(OnOwners.One)!Next) \/ UNCHANGED ledgerVars
           /\ which = "owners" => (OwnerNext /\ Owners(OnOwners.Many)!Next) \/ UNCHANGED ledgerVars
           /\ which = "dex" => DexNext \/ UNCHANGED ledgerVars
           /\ which = "coupon" => CouponNext \/ UNCHANGED ledgerVars
           /\ which = "approval" => ApprovalNext \/ UNCHANGED ledgerVars
           /\ which = "token" => TokenNotes!Next \/ UNCHANGED ledgerVars
           /\ which = "couponEx" => CouponNotes!Next \/ UNCHANGED ledgerVars
           /\ which = "memberEx" => MembershipNotes!Next \/ UNCHANGED ledgerVars
<1>1. CASE UNCHANGED ledgerVars
  BY <1>1 DEF ledgerVars
<1>2. CASE LedgersNext
  BY <1>2 DEF LedgersNext, LedgerNext, OwnerNext, NotesNext, PositionNext
<1> QED BY <1>1, <1>2

\* The initial state is one of the ledger that was chosen.
LEMMA BeginningOfOne ==
    ASSUME LedgersInit
    PROVE  /\ which = "transfer" => TransferInit
           /\ which = "owner" => Owners(OnOwners.One)!Init
           /\ which = "owners" => Owners(OnOwners.Many)!Init
           /\ which = "dex" => DexInit
           /\ which = "coupon" => CouponInit
           /\ which = "approval" => ApprovalInit
           /\ which = "token" => TokenNotes!Init
           /\ which = "couponEx" => CouponNotes!Init
           /\ which = "memberEx" => MembershipNotes!Init
BY DEF LedgersInit, LedgerInit, OwnerInit, NotesInit, PositionInit

------------------------------------------------------------------------------
(* Transfers: the theorems of TransferIndexer_proofs, for the constants of this group. *)

TP == INSTANCE TransferIndexer_proofs WITH
    Token <- OnTransfers.Token, Node <- OnTransfers.Node, Event <- OnTransfers.Event,
    Contents <- OnTransfers.Contents, MaxBlock <- OnTransfers.MaxBlock,
    ChunkSize <- OnTransfers.ChunkSize, BlockTime <- OnTransfers.BlockTime,
    MaxFailures <- OnTransfers.MaxFailures, MaxCopies <- OnTransfers.MaxCopies

\* The indexer that this group runs is the one those theorems are about.
LEMMA TransfersAreThose == (Transfers!Init => TP!Init) /\ (Transfers!Next => TP!Next)
<1>1. Transfers!Init => TP!Init
  BY DEF Transfers!Block, TP!Block, Transfers!ChainInit, TP!ChainInit, Transfers!Row, TP!Row,
         Transfers!NoBlock, TP!NoBlock, Transfers!NoTime, TP!NoTime, Transfers!NoSkip, TP!NoSkip,
         Transfers!Init, TP!Init
<1>2. Transfers!Next => TP!Next
  BY DEF Transfers!chainVars, TP!chainVars, Transfers!Block, TP!Block, Transfers!Logs, TP!Logs,
         Transfers!RegisteredAt, TP!RegisteredAt, Transfers!Mine, TP!Mine, Transfers!CatchUp,
         TP!CatchUp, Transfers!RegisterAdminToken, TP!RegisterAdminToken, Transfers!DeleteToken,
         TP!DeleteToken, Transfers!ChainNext, TP!ChainNext, Transfers!indexVars, TP!indexVars,
         Transfers!syncVars, TP!syncVars, Transfers!vars, TP!vars, Transfers!Kinds, TP!Kinds,
         Transfers!Row, TP!Row, Transfers!NoBlock, TP!NoBlock, Transfers!NoTime, TP!NoTime,
         Transfers!Indexable, TP!Indexable, Transfers!CreatedTimes, TP!CreatedTimes,
         Transfers!LatestCreated, TP!LatestCreated, Transfers!NoSkip, TP!NoSkip,
         Transfers!LatestSynchronized, TP!LatestSynchronized, Transfers!ChunkTo, TP!ChunkTo,
         Transfers!ReadFrom, TP!ReadFrom, Transfers!AlreadySynchronized, TP!AlreadySynchronized,
         Transfers!SkippedByTime, TP!SkippedByTime, Transfers!NewRows, TP!NewRows,
         Transfers!FetchTypes, TP!FetchTypes, Transfers!GetTokenList, TP!GetTokenList,
         Transfers!SyncEvents, TP!SyncEvents, Transfers!SyncTransfer, TP!SyncTransfer,
         Transfers!SyncUnlock, TP!SyncUnlock, Transfers!SyncForceUnlock, TP!SyncForceUnlock,
         Transfers!SyncForceChangeLockedAccount, TP!SyncForceChangeLockedAccount,
         Transfers!UpdateSkipBlock, TP!UpdateSkipBlock, Transfers!EndOfCall, TP!EndOfCall,
         Transfers!UpdateIdxLatestBlock, TP!UpdateIdxLatestBlock, Transfers!Rollback, TP!Rollback,
         Transfers!Restart, TP!Restart, Transfers!SyncNewLogs, TP!SyncNewLogs,
         Transfers!Environment, TP!Environment, Transfers!Next, TP!Next
<1> QED BY <1>1, <1>2

\* The assumptions of those theorems are the ones of this group.
LEMMA TransferConstants == TP!ChainAssumption /\ TP!TransferAssumption
BY TransferLedgerAssumption
   DEF Transfers!ChainAssumption, Transfers!TransferAssumption, TP!ChainAssumption,
       TP!TransferAssumption, Transfers!Block, TP!Block

\* The inductive invariant of TransferIndexer_proofs, where transfers run.
TransferInv == which = "transfer" => TP!NodesInv

\* It holds at first ...
LEMMA TransferInvInitially == LedgersInit => TransferInv
<1> SUFFICES ASSUME LedgersInit, which = "transfer" PROVE TP!NodesInv
  BY DEF TransferInv
<1>1. Transfers!Init
  BY BeginningOfOne DEF TransferInit
<1> QED BY <1>1, TransfersAreThose, TransferConstants, TP!InitNodesInv

\* ... and is kept by every step of the group.
LEMMA TransferInvPreserved == TransferInv /\ [LedgersNext]_ledgerVars => TransferInv'
<1> SUFFICES ASSUME TransferInv, [LedgersNext]_ledgerVars, which' = "transfer"
             PROVE  TP!NodesInv'
  BY DEF TransferInv
<1>1. which = "transfer" /\ TP!NodesInv
  BY StepOfOne DEF TransferInv
<1>2. TransferNext \/ UNCHANGED ledgerVars
  BY <1>1, StepOfOne
<1>3. TP!Next \/ UNCHANGED TP!vars
  BY <1>2, TransfersAreThose
     DEF TransferNext, ledgerVars, tables, transferOnly, vars, TP!vars, TP!chainVars,
         TP!indexVars, TP!syncVars
<1> QED BY <1>1, <1>3, TransferConstants, TP!NodesInvariant

\* With any number of nodes, on chains of any length: no Transfer event has two rows and no
\* row is made of nothing, although lagging nodes move the block numbers backwards.
THEOREM TransferRowsSoundAlways == LedgersSpec => []TransferRowsSound
<1>1. TransferInv => TransferRowsSound
  <2>1. TP!NodesInv => TP!NoDuplicateTransfer /\ TP!NoPhantomRow
    BY DEF TP!NodesInv, TP!OneTransfer, TP!NoDuplicateTransfer, TP!Sound, TP!NoPhantomRow,
           TP!OnChain
  <2>2. /\ TP!NoDuplicateTransfer => Transfers!NoDuplicateTransfer
        /\ TP!NoPhantomRow => Transfers!NoPhantomRow
    BY DEF TP!NoDuplicateTransfer, Transfers!NoDuplicateTransfer, TP!NoPhantomRow,
           Transfers!NoPhantomRow, TP!Row, Transfers!Row, TP!Block, Transfers!Block,
           TP!Indexable, Transfers!Indexable, TP!Kinds, Transfers!Kinds
  <2> QED BY <2>1, <2>2 DEF TransferInv, TransferRowsSound
<1> QED BY <1>1, TransferInvInitially, TransferInvPreserved, PTL DEF LedgersSpec

------------------------------------------------------------------------------
(* Applications for transfers: the theorems of TransferApprovalIndexer_proofs, for the *)
(* constants of this group.                                                            *)

AP == INSTANCE TransferApprovalIndexer_proofs WITH
    Token <- OnApprovals.Token, Node <- OnApprovals.Node, Event <- OnApprovals.Event,
    Contents <- OnApprovals.Contents, MaxBlock <- OnApprovals.MaxBlock,
    ChunkSize <- OnApprovals.ChunkSize, MaxFailures <- OnApprovals.MaxFailures,
    Exchange <- OnApprovals.Exchange, NoExchange <- OnApprovals.NoExchange,
    Application <- OnApprovals.Application, InitialExchange <- OnApprovals.InitialExchange,
    MaxExchangeChanges <- OnApprovals.MaxExchangeChanges

\* The indexer that this group runs is the one those theorems are about.
LEMMA ApprovalsAreThose == (Approvals!Init => AP!Init) /\ (Approvals!Next => AP!Next)
<1>1. Approvals!Init => AP!Init
  BY DEF Approvals!Init, AP!Init, Approvals!ChainInit, AP!ChainInit, Approvals!Key, AP!Key,
         Approvals!Venue, AP!Venue, Approvals!NotCached, AP!NotCached, Approvals!NoTargets,
         AP!NoTargets
<1>2. Approvals!Next => AP!Next
  BY DEF Approvals!Next, AP!Next, Approvals!SyncNewLogs, AP!SyncNewLogs, Approvals!Rollback,
         AP!Rollback, Approvals!Restart, AP!Restart, Approvals!SetTradableExchange,
         AP!SetTradableExchange, Approvals!Environment, AP!Environment, Approvals!GetContractList,
         AP!GetContractList, Approvals!SyncTokenApplyForTransfer, AP!SyncTokenApplyForTransfer,
         Approvals!SyncTokenCancelTransfer, AP!SyncTokenCancelTransfer,
         Approvals!SyncTokenApproveTransfer, AP!SyncTokenApproveTransfer,
         Approvals!SyncExchangeApplyForTransfer, AP!SyncExchangeApplyForTransfer,
         Approvals!SyncExchangeCancelTransfer, AP!SyncExchangeCancelTransfer,
         Approvals!SyncExchangeEscrowFinished, AP!SyncExchangeEscrowFinished,
         Approvals!SyncExchangeApproveTransfer, AP!SyncExchangeApproveTransfer,
         Approvals!UpdateCursor, AP!UpdateCursor, Approvals!SetBlockNumber, AP!SetBlockNumber,
         Approvals!EndOfCall, AP!EndOfCall, Approvals!chainVars, AP!chainVars,
         Approvals!marketVars, AP!marketVars, Approvals!tableVars, AP!tableVars,
         Approvals!NotCached, AP!NotCached, Approvals!Venue, AP!Venue, Approvals!indexerVars,
         AP!indexerVars, Approvals!ChainNext, AP!ChainNext, Approvals!Legal, AP!Legal,
         Approvals!RegisteredAt, AP!RegisteredAt, Approvals!NextChunkEnd, AP!NextChunkEnd,
         Approvals!OldestCursor, AP!OldestCursor, Approvals!SyncToken, AP!SyncToken,
         Approvals!SyncExchange, AP!SyncExchange, Approvals!Moved, AP!Moved, Approvals!listVars,
         AP!listVars, Approvals!Mine, AP!Mine, Approvals!CatchUp, AP!CatchUp,
         Approvals!RegisterAdminToken, AP!RegisterAdminToken, Approvals!DeleteToken,
         AP!DeleteToken, Approvals!Flags, AP!Flags, Approvals!KeyOf, AP!KeyOf, Approvals!Block,
         AP!Block, Approvals!Sink, AP!Sink, Approvals!Kept, AP!Kept, Approvals!TokenLogs,
         AP!TokenLogs, Approvals!ExchangeLogs, AP!ExchangeLogs, Approvals!Key, AP!Key,
         Approvals!ContractLogs, AP!ContractLogs
<1> QED BY <1>1, <1>2

\* So are the properties.
LEMMA HistoriesAreThose ==
    /\ AP!TypeOK => Approvals!TypeOK
    /\ AP!HistorySound => Approvals!HistorySound
    /\ AP!TokenHistoryComplete => Approvals!TokenHistoryComplete
    /\ AP!ExchangeHistoryComplete => Approvals!ExchangeHistoryComplete
<1>1. AP!TypeOK => Approvals!TypeOK
  BY DEF Approvals!TypeOK, AP!TypeOK, Approvals!ChainTypeOK, AP!ChainTypeOK, Approvals!Venue,
         AP!Venue, Approvals!Key, AP!Key, Approvals!Flags, AP!Flags, Approvals!BlockNumber,
         AP!BlockNumber, Approvals!NotCached, AP!NotCached
<1>2. AP!HistorySound => Approvals!HistorySound
  BY DEF Approvals!HistorySound, AP!HistorySound, Approvals!Key, AP!Key, Approvals!Block,
         AP!Block, Approvals!Happened, AP!Happened, Approvals!KeyOf, AP!KeyOf, Approvals!Venue,
         AP!Venue
<1>3. AP!TokenHistoryComplete => Approvals!TokenHistoryComplete
  BY DEF Approvals!TokenHistoryComplete, AP!TokenHistoryComplete, Approvals!Venue, AP!Venue,
         Approvals!Block, AP!Block, Approvals!Recordable, AP!Recordable, Approvals!Happened,
         AP!Happened, Approvals!KeyOf, AP!KeyOf, Approvals!Flags, AP!Flags
<1>4. AP!ExchangeHistoryComplete => Approvals!ExchangeHistoryComplete
  BY DEF Approvals!ExchangeHistoryComplete, AP!ExchangeHistoryComplete, Approvals!Block, AP!Block,
         Approvals!Recordable, AP!Recordable, Approvals!Happened, AP!Happened, Approvals!KeyOf,
         AP!KeyOf, Approvals!Flags, AP!Flags
<1> QED BY <1>1, <1>2, <1>3, <1>4

\* The assumptions of those theorems are the ones of this group.
LEMMA ApprovalConstants == AP!ChainAssumption /\ AP!Assumptions
BY ApprovalLedgerAssumption
   DEF Approvals!ChainAssumption, Approvals!ApprovalAssumption, Approvals!Venue, AP!Assumptions,
       AP!ChainAssumption, AP!ApprovalAssumption, AP!Venue

\* A step of the group is one of that indexer, or leaves its variables alone.
LEMMA ApprovalStep ==
    ASSUME [LedgersNext]_ledgerVars, which' = "approval"
    PROVE  which = "approval" /\ [AP!Next]_(AP!vars)
<1>1. which = "approval" /\ (ApprovalNext \/ UNCHANGED ledgerVars)
  BY StepOfOne
<1> QED BY <1>1, ApprovalsAreThose
        DEF ApprovalNext, ledgerVars, vars, tables, transferOnly, approvalOnly, AP!vars,
            AP!chainVars, AP!marketVars, AP!tableVars, AP!listVars

\* The invariants of TransferApprovalIndexer_proofs, where applications run.
ApprovalInv == which = "approval" => AP!SoundInv
CompleteInv(X) == which = "approval" => AP!ReadInv(X)

\* What is said of the rows holds at first and is kept.
LEMMA ApprovalInvariant ==
    /\ LedgersInit => ApprovalInv
    /\ ApprovalInv /\ [LedgersNext]_ledgerVars => ApprovalInv'
<1>1. ASSUME LedgersInit, which = "approval" PROVE AP!SoundInv
  <2>1. AP!Init
    BY <1>1, BeginningOfOne, ApprovalsAreThose DEF ApprovalInit
  <2> QED BY <2>1, ApprovalConstants, AP!InitSound
<1>2. ASSUME ApprovalInv, [LedgersNext]_ledgerVars, which' = "approval" PROVE AP!SoundInv'
  BY <1>2, ApprovalStep, ApprovalConstants, AP!SoundInvariant DEF ApprovalInv
<1> QED BY <1>1, <1>2 DEF ApprovalInv

\* No row tells what did not happen, or is without its application: with any number of
\* nodes that lag, of tokens, and of exchanges they are traded on.
THEOREM HistorySoundAlways == LedgersSpec => []HistorySound
<1>1. ApprovalInv => HistorySound
  <2>1. AP!SoundInv => AP!TypeOK /\ AP!HistorySound
    BY DEF AP!SoundInv, AP!Sound, AP!HistorySound
  <2> QED BY <2>1, HistoriesAreThose DEF ApprovalInv, HistorySound
<1> QED BY <1>1, ApprovalInvariant, PTL DEF LedgersSpec

\* With one node and one token no event about an application is missing up to the stored
\* block number, whatever failures, chunks, delistings and changes of the exchange there were.
THEOREM HistoriesAlwaysComplete ==
    ASSUME \A m, n \in OnApprovals.Node : m = n, \A s, t \in OnApprovals.Token : s = t
    PROVE  LedgersSpec => []HistoriesComplete
<1>1. AP!OneNode /\ AP!Scope(AP!Venue)
  BY DEF AP!OneNode, AP!OneToken, AP!Scope
<1>2. LedgersInit => CompleteInv(AP!Venue)
  <2> SUFFICES ASSUME LedgersInit, which = "approval" PROVE AP!ReadInv(AP!Venue)
    BY DEF CompleteInv
  <2>1. AP!Init
    BY BeginningOfOne, ApprovalsAreThose DEF ApprovalInit
  <2> QED BY <2>1, ApprovalConstants, AP!InitRead
<1>3. ApprovalInv /\ CompleteInv(AP!Venue) /\ [LedgersNext]_ledgerVars => CompleteInv(AP!Venue)'
  <2> SUFFICES ASSUME ApprovalInv, CompleteInv(AP!Venue), [LedgersNext]_ledgerVars,
                      which' = "approval"
               PROVE  AP!ReadInv(AP!Venue)'
    BY DEF CompleteInv
  <2>1. AP!TypeOK /\ AP!ReadInv(AP!Venue) /\ [AP!Next]_(AP!vars)
    BY ApprovalStep DEF ApprovalInv, CompleteInv, AP!SoundInv
  <2> QED BY <1>1, <2>1, ApprovalConstants, AP!ReadInvariant
<1>4. CompleteInv(AP!Venue) => HistoriesComplete
  <2>1. OnApprovals.NoExchange \in AP!Venue
    BY DEF AP!Venue
  <2>2. AP!ReadInv(AP!Venue) => AP!TokenHistoryComplete /\ AP!ExchangeHistoryComplete
    BY <2>1, ApprovalConstants, AP!ReadIsComplete
  <2> QED BY <2>2, HistoriesAreThose DEF CompleteInv, HistoriesComplete
<1> QED BY <1>2, <1>3, <1>4, ApprovalInvariant, PTL DEF LedgersSpec

------------------------------------------------------------------------------
(* Orders and agreements: the theorems of Dex_proofs, for the constants of this group. *)

DP == INSTANCE Dex_proofs WITH
    Token <- OnDex.Token, Node <- OnDex.Node, Event <- OnDex.Event,
    Contents <- OnDex.Contents, MaxBlock <- OnDex.MaxBlock, ChunkSize <- OnDex.ChunkSize,
    MaxFailures <- OnDex.MaxFailures, Account <- OnDex.Account, MaxSize <- OnDex.MaxSize,
    Kinds <- OnDex.Kinds, NoRows <- OnDex.NoRows

\* The assumptions of those theorems are the ones of this group.
LEMMA DexConstants == DP!ChainAssumption /\ DP!Assumptions /\ DP!MarketAssumption
BY DexLedgerAssumption
   DEF DP!Assumptions, Dex!ChainAssumption, DP!ChainAssumption, Dex!DexAssumption, DP!DexAssumption,
       Dex!MarketAssumption, DP!MarketAssumption, Dex!OrderOf, DP!OrderOf, Dex!AgreementOf,
       DP!AgreementOf

\* What the sinks make of the tables is what it is there.
LEMMA DexSinks ==
    /\ \A t, s, h : Dex!SinkOnNewOrder(t, s, h) = DP!SinkOnNewOrder(t, s, h)
    /\ \A t, s, h : Dex!SinkOnCancelOrder(t, s, h) = DP!SinkOnCancelOrder(t, s, h)
    /\ \A t, s, h : Dex!SinkOnForceCancelOrder(t, s, h) = DP!SinkOnForceCancelOrder(t, s, h)
    /\ \A t, s, h : Dex!SinkOnAgree(t, s, h) = DP!SinkOnAgree(t, s, h)
    /\ \A t, s, h : Dex!SinkOnSettlementOK(t, s, h) = DP!SinkOnSettlementOK(t, s, h)
    /\ \A t, s, h : Dex!SinkOnSettlementNG(t, s, h) = DP!SinkOnSettlementNG(t, s, h)
BY DEF Dex!SinkOnNewOrder, DP!SinkOnNewOrder, Dex!SinkOnCancelOrder, DP!SinkOnCancelOrder,
       Dex!SinkOnForceCancelOrder, DP!SinkOnForceCancelOrder, Dex!SinkOnAgree, DP!SinkOnAgree,
       Dex!SinkOnSettlementOK, DP!SinkOnSettlementOK, Dex!SinkOnSettlementNG,
       DP!SinkOnSettlementNG, Dex!Settle, DP!Settle, Dex!OrderRow, DP!OrderRow,
       Dex!AgreementRow, DP!AgreementRow, Dex!OrderOf, DP!OrderOf, Dex!AgreementOf,
       DP!AgreementOf, Dex!IsBuy, DP!IsBuy, Dex!Known, DP!Known, Dex!Block, DP!Block

\* So are the queries of a request ...
LEMMA DexQueries ==
    /\ Dex!Asked = DP!Asked /\ Dex!Lists = DP!Lists /\ Dex!Answered = DP!Answered
    /\ \A list, q : Dex!Found(list, q) = DP!Found(list, q)
<1>1. \A order, q : Dex!OnExchange(order, q) = DP!OnExchange(order, q)
  BY DEF Dex!OnExchange, DP!OnExchange
<1>2. \A q : Dex!GetOrderList(q) = DP!GetOrderList(q)
  BY <1>1 DEF Dex!GetOrderList, DP!GetOrderList, Dex!OrderAsked, DP!OrderAsked
<1>3. \A q, status : Dex!AgreementsOf(q, status) = DP!AgreementsOf(q, status)
  BY <1>1 DEF Dex!AgreementsOf, DP!AgreementsOf
<1>4. \A list, q : Dex!Found(list, q) = DP!Found(list, q)
  BY <1>2, <1>3 DEF Dex!Found, DP!Found, Dex!GetSettlementList, DP!GetSettlementList,
                    Dex!GetCompleteList, DP!GetCompleteList
<1>5. Dex!Lists = DP!Lists
  BY DEF Dex!Lists, DP!Lists
<1> QED BY <1>4, <1>5 DEF Dex!Asked, DP!Asked, Dex!Answered, DP!Answered

\* ... what the contract is asked ...
LEMMA DexContract ==
    /\ \A o, h : Dex!ChainOrder(o, h) = DP!ChainOrder(o, h)
    /\ \A id, h : Dex!AgreementCanceled(id, h) = DP!AgreementCanceled(id, h)
    /\ \A kind, h : Dex!Known(kind, h) = DP!Known(kind, h)
    /\ \A e : Dex!OrderOf(e) = DP!OrderOf(e) /\ Dex!AgreementOf(e) = DP!AgreementOf(e)
<1>1. \A S : Dex!Total(S) = DP!Total(S)
  BY DEF Dex!Total, DP!Total, Dex!MapThenSumSet, DP!MapThenSumSet, Dex!MapThenFoldSet,
         DP!MapThenFoldSet
<1>2. \A kind, h : Dex!Known(kind, h) = DP!Known(kind, h)
  BY DEF Dex!Known, DP!Known, Dex!Block, DP!Block
<1>3. \A e : Dex!OrderOf(e) = DP!OrderOf(e) /\ Dex!AgreementOf(e) = DP!AgreementOf(e)
  BY DEF Dex!OrderOf, DP!OrderOf, Dex!AgreementOf, DP!AgreementOf
<1>4. \A o, h : Dex!Agreed(o, h) = DP!Agreed(o, h)
  BY <1>2, <1>3 DEF Dex!Agreed, DP!Agreed
<1>5. \A o, h : Dex!Undone(o, h) = DP!Undone(o, h)
  BY <1>2, <1>3, <1>4 DEF Dex!Undone, DP!Undone
<1>6. \A o, h : Dex!ChainOrder(o, h) = DP!ChainOrder(o, h)
  BY <1>1, <1>2, <1>3, <1>4, <1>5 DEF Dex!ChainOrder, DP!ChainOrder
<1>7. \A id, h : Dex!AgreementCanceled(id, h) = DP!AgreementCanceled(id, h)
  BY <1>2, <1>3 DEF Dex!AgreementCanceled, DP!AgreementCanceled
<1> QED BY <1>2, <1>3, <1>6, <1>7

\* ... and the steps of a request.
LEMMA DexServes == (Dex!Serve => DP!Serve) /\ (Dex!NoAnswer = DP!NoAnswer)
<1>0. Dex!NoAnswer = DP!NoAnswer /\ (Dex!Idle(request) <=> DP!Idle(request))
  BY DexQueries DEF Dex!NoAnswer, DP!NoAnswer, Dex!Idle, DP!Idle
<1>1. ASSUME NEW list, NEW row, NEW q, NEW h
      PROVE  Dex!Entries(list, row, q, h) = DP!Entries(list, row, q, h)
  <2>1. Dex!OrderEntry(row, h) = DP!OrderEntry(row, h)
    BY DexContract DEF Dex!OrderEntry, DP!OrderEntry
  <2>2. Dex!AgreementEntry(row, q.account, h) = DP!AgreementEntry(row, q.account, h)
    BY DexContract DEF Dex!AgreementEntry, DP!AgreementEntry
  <2> QED BY <2>1, <2>2 DEF Dex!Entries, DP!Entries
<1>2. (UNCHANGED Dex!vars => UNCHANGED DP!vars) /\ Dex!Heads = DP!Heads
  BY DEF Dex!vars, DP!vars, Dex!chainVars, DP!chainVars, Dex!syncVars, DP!syncVars, Dex!Heads,
         DP!Heads
<1>3. ASSUME NEW by, NEW of, Dex!Ask(by, of) PROVE DP!Ask(by, of)
  BY <1>0, <1>2, <1>3, DexQueries DEF Dex!Ask, DP!Ask
<1>4. ASSUME Dex!CallExchange PROVE DP!CallExchange
  <2>1. PICK row \in request.rest, h \in Dex!Heads :
           request' = [request EXCEPT
               !.rest = @ \ {row},
               !.part = @ \union Dex!Entries(Dex!Lists[request.at], row, request.query, h)]
    BY <1>4, Zenon DEF Dex!CallExchange
  <2>2. Dex!Entries(Dex!Lists[request.at], row, request.query, h) =
           DP!Entries(DP!Lists[request.at], row, request.query, h)
    BY <1>1, DexQueries
  <2>3. request' = [request EXCEPT
            !.rest = @ \ {row},
            !.part = @ \union DP!Entries(DP!Lists[request.at], row, request.query, h)]
    BY <2>1, <2>2, Zenon
  <2>4. ~DP!Idle(request) /\ UNCHANGED DP!vars /\ h \in DP!Heads
    <3>1. ~Dex!Idle(request) /\ UNCHANGED Dex!vars
      BY <1>4, Zenon DEF Dex!CallExchange
    <3> QED BY <1>0, <1>2, <3>1
  <2> QED BY <2>3, <2>4, Zenon DEF DP!CallExchange
<1>5. Dex!ListMade => DP!ListMade
  BY <1>0, <1>2, DexQueries DEF Dex!ListMade, DP!ListMade
<1>6. Dex!RequestFails => DP!RequestFails
  BY <1>0, <1>2, DexQueries DEF Dex!RequestFails, DP!RequestFails
<1> QED BY <1>0, <1>3, <1>4, <1>5, <1>6
        DEF Dex!Serve, DP!Serve, Dex!MembershipOrderList, DP!MembershipOrderList,
            Dex!CouponOrderList, DP!CouponOrderList, Dex!OrderList, DP!OrderList

\* The process that this group runs is the one those theorems are about.
LEMMA DexIsThat == (Dex!HistoryInit => DP!HistoryInit) /\ (Dex!HistoryNext => DP!HistoryNext)
<1>1. Dex!Init => DP!Init
  BY DEF Dex!Init, DP!Init, Dex!SyncInit, DP!SyncInit, Dex!ChainInit, DP!ChainInit
<1>2. Dex!Sync => DP!Sync
  BY DexSinks DEF Dex!Sync, DP!Sync, Dex!SyncNewOrder, DP!SyncNewOrder, Dex!SyncCancelOrder,
         DP!SyncCancelOrder, Dex!SyncForceCancelOrder, DP!SyncForceCancelOrder, Dex!SyncAgree,
         DP!SyncAgree, Dex!SyncSettlementOK, DP!SyncSettlementOK, Dex!SyncSettlementNG,
         DP!SyncSettlementNG, Dex!Read, DP!Read, Dex!Reading, DP!Reading, Dex!InRange,
         DP!InRange, Dex!Heads, DP!Heads, Dex!To, DP!To, Dex!Block, DP!Block, Dex!chainVars,
         DP!chainVars
<1>3. (Dex!InitialSync => DP!InitialSync) /\ (Dex!SyncNewLogs => DP!SyncNewLogs)
  BY DEF Dex!InitialSync, DP!InitialSync, Dex!SyncNewLogs, DP!SyncNewLogs, Dex!StartInitialSync,
         DP!StartInitialSync, Dex!StartSync, DP!StartSync, Dex!Heads, DP!Heads, Dex!Open,
         DP!Open, Dex!chainVars, DP!chainVars, Dex!Listed, DP!Listed
<1>4. (Dex!Commit => DP!Commit) /\ (Dex!Fail => DP!Fail) /\ (Dex!Restart => DP!Restart)
  BY DEF Dex!Commit, DP!Commit, Dex!Fail, DP!Fail, Dex!Restart, DP!Restart, Dex!chainVars,
         DP!chainVars
<1>5. Dex!World => DP!World
  BY DEF Dex!World, DP!World, Dex!ChainNext, DP!ChainNext, Dex!Mine, DP!Mine, Dex!CatchUp,
         DP!CatchUp, Dex!RegisterAdminToken, DP!RegisterAdminToken, Dex!DeleteToken,
         DP!DeleteToken, Dex!RegisteredAt, DP!RegisteredAt, Dex!Block, DP!Block, Dex!syncVars,
         DP!syncVars, Dex!Listed, DP!Listed
<1>6. Dex!Exchange(chain') => DP!Exchange(chain')
  BY DEF Dex!Exchange, DP!Exchange, Dex!OrderOf, DP!OrderOf, Dex!AgreementOf, DP!AgreementOf,
         Dex!Block, DP!Block
<1>7. Dex!Next => DP!Next
  BY <1>2, <1>3, <1>4, <1>5, <1>6 DEF Dex!Next, DP!Next
<1>8. Dex!HistoryInit => DP!HistoryInit
  BY <1>1, DexServes DEF Dex!HistoryInit, DP!HistoryInit
<1>9. Dex!HistoryNext => DP!HistoryNext
  BY <1>7, DexServes DEF Dex!HistoryNext, DP!HistoryNext
<1> QED BY <1>8, <1>9

\* So are the tables it is to keep ...
LEMMA DexTablesAreThose ==
    /\ DP!TypeOK => Dex!TypeOK
    /\ DP!OrdersAsOnChain => Dex!OrdersAsOnChain
    /\ DP!ListedOrdersKept => Dex!ListedOrdersKept
    /\ DP!AgreementsAsOnChain => Dex!AgreementsAsOnChain
<1>1. DP!TypeOK => Dex!TypeOK
  BY DEF Dex!TypeOK, DP!TypeOK, Dex!SyncTypeOK, DP!SyncTypeOK, Dex!ChainTypeOK, DP!ChainTypeOK,
         Dex!BlockNumber, DP!BlockNumber, Dex!Listed, DP!Listed
<1>2. /\ DP!OrdersAsOnChain => Dex!OrdersAsOnChain
      /\ DP!ListedOrdersKept => Dex!ListedOrdersKept
  BY DEF Dex!OrdersAsOnChain, DP!OrdersAsOnChain, Dex!ListedOrdersKept, DP!ListedOrdersKept,
         Dex!OrderRow, DP!OrderRow, Dex!OrderOf, DP!OrderOf, Dex!Cancelled, DP!Cancelled,
         Dex!Known, DP!Known, Dex!Block, DP!Block
<1>3. DP!AgreementsAsOnChain => Dex!AgreementsAsOnChain
  BY DEF Dex!AgreementsAsOnChain, DP!AgreementsAsOnChain, Dex!AgreementRow, DP!AgreementRow,
         Dex!AgreementOf, DP!AgreementOf, Dex!OrderOf, DP!OrderOf, Dex!IsBuy, DP!IsBuy,
         Dex!Status, DP!Status, Dex!Known, DP!Known, Dex!Block, DP!Block
<1> QED BY <1>1, <1>2, <1>3

\* ... and what is answered from them, of agreements and ticks ...
LEMMA DexAnswersAreThose == DP!DexAnswersAgree => Dex!DexAnswersAgree
<1>1. \A o, h : Dex!IsBuy(o, h) = DP!IsBuy(o, h) /\ Dex!Maker(o, h) = DP!Maker(o, h)
  BY DexContract DEF Dex!IsBuy, DP!IsBuy, Dex!Maker, DP!Maker
<1>2. \A id, h : Dex!Taker(id, h) = DP!Taker(id, h)
  BY <1>1, DexContract DEF Dex!Taker, DP!Taker
<1>3. \A id, h, g : Dex!RetrieveAgreement(id, h, g) = DP!RetrieveAgreement(id, h, g)
  BY <1>1, <1>2, DexContract DEF Dex!RetrieveAgreement, DP!RetrieveAgreement
<1>4. DP!AgreementRetrieved => Dex!AgreementRetrieved
  BY <1>3 DEF Dex!AgreementRetrieved, DP!AgreementRetrieved
<1>5. \A token : Dex!Tick(token) = DP!Tick(token)
  BY DEF Dex!Tick, DP!Tick
<1>6. \A all, failing : Dex!Ticks(all, failing) = DP!Ticks(all, failing)
  BY <1>5 DEF Dex!Ticks, DP!Ticks
<1>7. \A token : Dex!SettledOf(token) = DP!SettledOf(token)
  BY DexContract DEF Dex!SettledOf, DP!SettledOf
<1>8. \A all, failing :
         /\ Dex!ListAllMembershipTick(all, failing) = DP!ListAllMembershipTick(all, failing)
         /\ Dex!ListAllCouponTick(all, failing) = DP!ListAllCouponTick(all, failing)
  BY <1>6 DEF Dex!ListAllMembershipTick, DP!ListAllMembershipTick, Dex!ListAllCouponTick,
              DP!ListAllCouponTick
<1>9. \A answer : DP!AsSettled(answer) => Dex!AsSettled(answer)
  BY <1>7 DEF DP!AsSettled, Dex!AsSettled
<1>10. DP!TicksAsOnChain => Dex!TicksAsOnChain
  BY <1>8, <1>9, Zenon DEF DP!TicksAsOnChain, Dex!TicksAsOnChain
<1> QED BY <1>4, <1>10 DEF Dex!DexAnswersAgree, DP!DexAnswersAgree

\* ... and in the history of an account.
LEMMA DexHistoryIsThat == DP!HistoryListed => Dex!HistoryListed
<1>1. \A q, order, h : Dex!Concerns(q, order, h) = DP!Concerns(q, order, h)
  BY DexContract DEF Dex!Concerns, DP!Concerns, Dex!OnExchange, DP!OnExchange
<1>2. \A q, h : Dex!AgreedUpTo(q, h) = DP!AgreedUpTo(q, h)
  BY <1>1, DexContract DEF Dex!AgreedUpTo, DP!AgreedUpTo
<1>3. \A id, h : Dex!SettledUpTo(id, h) = DP!SettledUpTo(id, h)
  BY DexContract DEF Dex!SettledUpTo, DP!SettledUpTo
<1>4. DP!CurrentListsShowNothingCancelled => Dex!CurrentListsShowNothingCancelled
  BY DexContract
     DEF Dex!CurrentListsShowNothingCancelled, DP!CurrentListsShowNothingCancelled
<1>5. DP!AgreementsListed => Dex!AgreementsListed
  BY <1>2, <1>3, DexQueries, DexContract DEF Dex!AgreementsListed, DP!AgreementsListed
<1>6. DP!OrdersListed => Dex!OrdersListed
  BY <1>1, DexQueries, DexContract DEF Dex!OrdersListed, DP!OrdersListed
<1> QED BY <1>4, <1>5, <1>6 DEF Dex!HistoryListed, DP!HistoryListed

\* The inductive invariant of Dex_proofs, where orders and agreements are indexed.
DexLedgerInv == which = "dex" => DP!HistoryInv

\* With one node it holds at first and is kept by every step of the group.
LEMMA DexLedgerInvariant ==
    ASSUME DP!OneNode
    PROVE  /\ LedgersInit => DexLedgerInv
           /\ DexLedgerInv /\ [LedgersNext]_ledgerVars => DexLedgerInv'
<1>1. ASSUME LedgersInit, which = "dex" PROVE DP!HistoryInv
  <2>1. DP!HistoryInit
    BY <1>1, BeginningOfOne, DexIsThat DEF DexInit
  <2> QED BY <2>1, DexConstants, DP!HistoryBegins
<1>2. ASSUME DexLedgerInv, [LedgersNext]_ledgerVars, which' = "dex" PROVE DP!HistoryInv'
  <2>1. DP!HistoryInv /\ (DexNext \/ UNCHANGED ledgerVars)
    BY <1>2, StepOfOne DEF DexLedgerInv
  <2>2. DP!HistoryNext \/ UNCHANGED DP!historyVars
    BY <2>1, DexIsThat DEF DexNext, ledgerVars, vars, tables, logOnly, DP!historyVars, DP!vars,
                           DP!chainVars, DP!syncVars
  <2> QED BY <2>1, <2>2, DexConstants, DP!HistoryInvariant
<1> QED BY <1>1, <1>2 DEF DexLedgerInv

\* With one node the tables of orders and agreements show what happened on the chain up to
\* the last sync, whatever failed, was restarted, listed or delisted.
THEOREM DexTablesAlwaysAsOnChain ==
    ASSUME \A m, n \in OnDex.Node : m = n
    PROVE  LedgersSpec => []DexTablesAsOnChain
<1>1. DP!OneNode
  BY DEF DP!OneNode
<1>2. DexLedgerInv => DexTablesAsOnChain
  <2>1. DP!HistoryInv => DP!DexInv
    BY DEF DP!HistoryInv
  <2> QED BY <2>1, DexConstants, DP!TablesAreRight, DexTablesAreThose
          DEF DexLedgerInv, DexTablesAsOnChain, Dex!DexTablesAsOnChain
<1> QED BY <1>1, <1>2, DexLedgerInvariant, PTL DEF LedgersSpec

\* An agreement of the tables is always retrieved as it is there, wherever the node stands at
\* either call, and the ticks are the agreements settled on the chain, whatever queries fail.
THEOREM DexAnswersAlwaysAgree ==
    ASSUME \A m, n \in OnDex.Node : m = n
    PROVE  LedgersSpec => []DexAnswersAgree
<1>1. DP!OneNode
  BY DEF DP!OneNode
<1>2. DexLedgerInv => DexAnswersAgree
  BY DexConstants, DP!AnswersAgree, DexAnswersAreThose DEF DexLedgerInv, DexAnswersAgree
<1> QED BY <1>1, <1>2, DexLedgerInvariant, PTL DEF LedgersSpec

\* The history of an account loses no agreement and no order between its three queries,
\* whatever the indexer commits meanwhile, unless an exception ends the request; and what it
\* shows by default was not cancelled where the tables stood when it began.
THEOREM HistoryAlwaysListed ==
    ASSUME \A m, n \in OnDex.Node : m = n
    PROVE  LedgersSpec => []HistoryListed
<1>1. DP!OneNode
  BY DEF DP!OneNode
<1>2. DexLedgerInv => HistoryListed
  BY DexConstants, DP!AnswersAreRight, DexHistoryIsThat DEF DexLedgerInv, HistoryListed
<1> QED BY <1>1, <1>2, DexLedgerInvariant, PTL DEF LedgersSpec

------------------------------------------------------------------------------
(* Owners of tokens, for any set of nodes.                                    *)

\* The Register events of token t in the blocks up to n.
Known(t, n) ==
    {r \in (1..OnOwners.MaxBlock) \X OnOwners.Event :
        /\ r[1] <= n /\ r[1] <= Len(chain) /\ r[2] \in chain[r[1]]
        /\ r[2].token = t /\ r[2].kind = "Register" /\ r[2].template \in OnOwners.TokenTemplate}

RowOf(r) == [block |-> r[1], template |-> r[2].template, owner |-> r[2].owner]
Unregistered == [block |-> 0, template |-> "", owner |-> ""]

\* A row was made of an event up to block n; it is of the last one.
OfAnEvent(t, row, n) == row = Unregistered \/ \E r \in Known(t, n) : row = RowOf(r)
OfTheLast(t, row, n) == \A r \in Known(t, n) : r[1] <= row.block

OwnerTypes(N) ==
    /\ Owners(N)!ChainTypeOK
    /\ synced \in -1..OnOwners.MaxBlock /\ latest \in -1..OnOwners.MaxBlock
    /\ from \in 0..OnOwners.MaxBlock + 1 /\ failures \in 0..OnOwners.MaxFailures
    /\ DOMAIN rows = OnOwners.Token /\ DOMAIN sess = OnOwners.Token

\* Between two ranges, the session has the rows up to the range that comes next, none of
\* them older than the committed one.
SessionRows ==
    latest # -1 =>
        /\ synced < from /\ from <= latest + 1
        /\ \A t \in OnOwners.Token : /\ OfAnEvent(t, sess[t], from - 1)
                                     /\ rows[t].block <= sess[t].block

OwnerInv(N) ==
    /\ OwnerTypes(N)
    /\ \A t \in OnOwners.Token : OfAnEvent(t, rows[t], synced)
    /\ SessionRows

\* With one node, rows are of the last event and what is taken for read is on the chain.
LastInv(N) ==
    /\ \A n \in N : head[n] = Len(chain)
    /\ synced <= Len(chain) /\ latest <= Len(chain)
    /\ \A t \in OnOwners.Token : OfTheLast(t, rows[t], synced)
    /\ latest # -1 => \A t \in OnOwners.Token : OfTheLast(t, sess[t], from - 1)

OwnerVars == <<chain, head, listed, rows, sess, synced, from, latest, failures>>

\* The chain and its nodes keep their types.
LEMMA OwnerChainTyped ==
    ASSUME NEW N, Owners(N)!Assumption, Owners(N)!ChainTypeOK, Owners(N)!ChainNext
    PROVE  Owners(N)!ChainTypeOK'
<1> USE DEF Owners!Assumption, Owners!ChainTypeOK, Owners!BlockNumber
<1>1. CASE Owners(N)!Mine
  <2>1. PICK block \in OnOwners.Contents, S \in (SUBSET N) \ {{}} :
           /\ Len(chain) < OnOwners.MaxBlock
           /\ chain' = Append(chain, block)
           /\ head' = [n \in N |-> IF n \in S THEN Len(chain) + 1 ELSE head[n]]
    BY <1>1 DEF Owners!Mine
  <2>2. Len(chain') = Len(chain) + 1 /\ chain' \in Seq(SUBSET OnOwners.Event)
    BY <2>1
  <2>3. \A n \in N : head'[n] \in 0..OnOwners.MaxBlock /\ head'[n] <= Len(chain')
    BY <2>1, <2>2
  <2> QED BY <1>1, <2>1, <2>2, <2>3 DEF Owners!Mine
<1>2. CASE Owners(N)!CatchUp
  BY <1>2 DEF Owners!CatchUp
<1>3. CASE Owners(N)!RegisterAdminToken \/ Owners(N)!DeleteToken
  BY <1>3 DEF Owners!RegisterAdminToken, Owners!DeleteToken
<1> QED BY <1>1, <1>2, <1>3 DEF Owners!ChainNext

\* A known event stays known, and becomes known in a new block only.
LEMMA KnownGrows ==
    ASSUME NEW N, Owners(N)!Assumption, Owners(N)!ChainTypeOK,
           Owners(N)!ChainNext \/ UNCHANGED chain, NEW t, NEW n
    PROVE  /\ Known(t, n) \subseteq Known(t, n)'
           /\ n \in Int /\ n <= Len(chain) => Known(t, n)' = Known(t, n)
<1>1. chain \in Seq(SUBSET OnOwners.Event)
  BY DEF Owners!ChainTypeOK
<1>2. CASE Owners(N)!ChainNext /\ Owners(N)!Mine
  <2>1. PICK block \in OnOwners.Contents : chain' = Append(chain, block)
    BY <1>2 DEF Owners!Mine
  <2>2. block \in SUBSET OnOwners.Event
    BY DEF Owners!Assumption
  <2>3. Len(chain') = Len(chain) + 1 /\ Len(chain) \in Nat
        /\ \A b \in 1..Len(chain) : chain'[b] = chain[b]
    BY <1>1, <2>1, <2>2
  <2>4. OnOwners.MaxBlock \in Nat
    BY DEF Owners!Assumption
  <2>5. ASSUME NEW b \in 1..OnOwners.MaxBlock
        PROVE  /\ b <= Len(chain) => b <= Len(chain') /\ chain'[b] = chain[b]
               /\ n \in Int /\ n <= Len(chain) /\ b <= n => b <= Len(chain)
    BY <2>3, <2>4
  <2> QED BY <2>5 DEF Known
<1>3. CASE ~(Owners(N)!ChainNext /\ Owners(N)!Mine)
  <2>1. UNCHANGED chain
    BY <1>3 DEF Owners!ChainNext, Owners!CatchUp, Owners!RegisterAdminToken, Owners!DeleteToken
  <2> QED BY <2>1 DEF Known
<1> QED BY <1>2, <1>3

\* Of the events of a range, the row is made of the last one.
LEMMA SinkTakesLast ==
    ASSUME NEW N, Owners(N)!Assumption, NEW row,
           NEW events \in SUBSET ((1..OnOwners.MaxBlock) \X OnOwners.Event), events # {}
    PROVE  \E r \in events : /\ Owners(N)!SinkOnTokenInfo(row, events) = RowOf(r)
                             /\ \A y \in events : y[1] <= r[1]
<1>1. OnOwners.MaxBlock \in Nat
  BY DEF Owners!Assumption
<1> DEFINE B == {y[1] : y \in events}
<1>2. B \in SUBSET (0..OnOwners.MaxBlock) /\ B # {}
  BY <1>1
<1>3. PICK m \in B : \A b \in B : b <= m
  <2> HIDE DEF B
  <2> QED BY <1>1, <1>2, TransferConstants, TP!BoundedSetHasMax
<1>4. \E x \in events : \A y \in events : y[1] <= x[1]
  BY <1>3
<1> DEFINE r == CHOOSE x \in events : \A y \in events : y[1] <= x[1]
<1>5. r \in events /\ \A y \in events : y[1] <= r[1]
  BY <1>4
<1>6. Owners(N)!SinkOnTokenInfo(row, events) = RowOf(r)
  BY DEF Owners!SinkOnTokenInfo, RowOf
<1> QED BY <1>5, <1>6

\* What a range adds to a row that was made of an event before it.
LEMMA RangeRow ==
    ASSUME NEW N, Owners(N)!Assumption, OwnerTypes(N), from <= latest,
           NEW t \in OnOwners.Token, NEW row, OfAnEvent(t, row, from - 1), NEW n \in N,
           NEW new, new = Owners(N)!SinkOnTokenInfo(row, Owners(N)!Registered(t, head[n]))
    PROVE  /\ OfAnEvent(t, new, Owners(N)!To)
           /\ row.block <= new.block
           /\ head[n] = Len(chain) /\ OfTheLast(t, row, from - 1)
                  => OfTheLast(t, new, Owners(N)!To)
<1> DEFINE events == Owners(N)!Registered(t, head[n])
           To == Owners(N)!To
<1>1. OnOwners.MaxBlock \in Nat /\ from \in Int /\ To \in Int /\ head[n] \in Int /\ from <= To
  BY DEF Owners!Assumption, OwnerTypes, Owners!To, Owners!ChainTypeOK, Owners!BlockNumber
<1>2. /\ events \in SUBSET ((1..OnOwners.MaxBlock) \X OnOwners.Event)
      /\ \A r \in events : r \in Known(t, To) /\ from <= r[1] /\ r[1] <= To
  BY <1>1 DEF Owners!Registered, Owners!Logs, Owners!Block, Known
<1>3. head[n] = Len(chain) => \A r \in Known(t, To) : from <= r[1] => r \in events
  BY <1>1 DEF Owners!Registered, Owners!Logs, Owners!Block, Known
<1>4. \A r \in Known(t, from - 1) : r[1] < from /\ r[1] \in 1..OnOwners.MaxBlock
  BY <1>1 DEF Known
<1>5. /\ \A r \in Known(t, To) : r[1] \in Int /\ (r[1] < from => r \in Known(t, from - 1))
      /\ Known(t, from - 1) \subseteq Known(t, To)
  BY <1>1 DEF Known
<1> HIDE DEF events, To
<1>6. row.block \in Int /\ (row = Unregistered => row.block = 0)
  <2>1. CASE row = Unregistered
    <3>1. Unregistered.block = 0
      BY DEF Unregistered
    <3> QED BY <2>1, <3>1
  <2>2. CASE row # Unregistered
    <3>1. PICK r \in Known(t, from - 1) : row = RowOf(r)
      BY <2>2 DEF OfAnEvent
    <3>2. row.block = r[1]
      BY <3>1 DEF RowOf
    <3> QED BY <1>1, <1>4, <2>2, <3>2
  <2> QED BY <2>1, <2>2
<1>7. CASE events = {}
  <2>1. new = row
    BY <1>7 DEF Owners!SinkOnTokenInfo, events
  <2>2. OfAnEvent(t, new, To)
    <3>1. CASE row = Unregistered
      BY <2>1, <3>1 DEF OfAnEvent
    <3>2. CASE row # Unregistered
      <4>1. PICK r \in Known(t, from - 1) : row = RowOf(r)
        BY <3>2 DEF OfAnEvent
      <4> QED BY <1>5, <2>1, <4>1 DEF OfAnEvent
    <3> QED BY <3>1, <3>2
  <2>3. head[n] = Len(chain) /\ OfTheLast(t, row, from - 1) => OfTheLast(t, new, To)
    BY <1>1, <1>3, <1>5, <1>7, <2>1 DEF OfTheLast
  <2> QED BY <1>6, <2>1, <2>2, <2>3 DEF To
<1>8. CASE events # {}
  <2>1. PICK r \in events : new = RowOf(r) /\ \A y \in events : y[1] <= r[1]
    BY <1>2, <1>8, SinkTakesLast DEF events
  <2>2. new.block = r[1] /\ r \in Known(t, To) /\ from <= r[1] /\ r[1] \in 1..OnOwners.MaxBlock
    BY <1>2, <2>1 DEF RowOf
  <2>3. row.block <= new.block
    <3>1. row = Unregistered \/ \E q \in Known(t, from - 1) : row.block = q[1]
      BY DEF OfAnEvent, RowOf
    <3>2. row.block = 0 \/ (row.block < from /\ row.block \in Int)
      BY <1>4, <1>6, <3>1
    <3> QED BY <1>1, <2>2, <3>2
  <2>4. head[n] = Len(chain) => OfTheLast(t, new, To)
    BY <1>1, <1>3, <1>5, <2>1, <2>2 DEF OfTheLast
  <2> QED BY <2>1, <2>2, <2>3, <2>4 DEF OfAnEvent, To
<1> QED BY <1>7, <1>8

\* What is said of a row stays true when the chain grows.
LEMMA RowStays ==
    ASSUME NEW N, Owners(N)!Assumption, OwnerTypes(N), Owners(N)!ChainNext \/ UNCHANGED chain,
           NEW t, NEW row, NEW n
    PROVE  /\ OfAnEvent(t, row, n) => OfAnEvent(t, row, n)'
           /\ n \in Int /\ n <= Len(chain) /\ OfTheLast(t, row, n) => OfTheLast(t, row, n)'
<1>1. /\ Known(t, n) \subseteq Known(t, n)'
      /\ n \in Int /\ n <= Len(chain) => Known(t, n)' = Known(t, n)
  BY KnownGrows DEF OwnerTypes
<1>2. OfAnEvent(t, row, n) => OfAnEvent(t, row, n)'
  <2> SUFFICES ASSUME OfAnEvent(t, row, n), row # Unregistered PROVE OfAnEvent(t, row, n)'
    BY DEF OfAnEvent
  <2>1. PICK r \in Known(t, n) : row = RowOf(r)
    BY DEF OfAnEvent
  <2>2. r \in Known(t, n)'
    BY <1>1
  <2> QED BY <2>1, <2>2 DEF OfAnEvent
<1>3. n \in Int /\ n <= Len(chain) /\ OfTheLast(t, row, n) => OfTheLast(t, row, n)'
  BY <1>1 DEF OfTheLast
<1> QED BY <1>2, <1>3

\* The block of a row is a number.
LEMMA EventBlockIsNumber ==
    ASSUME OnOwners.MaxBlock \in Nat, NEW t, NEW n, NEW row, OfAnEvent(t, row, n)
    PROVE  row.block \in Int
<1>1. row = Unregistered \/ \E r \in Known(t, n) : row.block = r[1]
  BY DEF OfAnEvent, RowOf
<1>2. Unregistered.block = 0
  BY DEF Unregistered
<1> QED BY <1>1, <1>2 DEF Known

\* OwnerInv is inductive, and a committed row is never replaced by an older one.
LEMMA OwnerStep ==
    ASSUME NEW N, Owners(N)!Assumption, OwnerInv(N),
           Owners(N)!Next \/ UNCHANGED OwnerVars
    PROVE  OwnerInv(N)' /\ Owners(N)!NeverOlder
<1>0. /\ OnOwners.MaxBlock \in Nat /\ OnOwners.ChunkSize \in Nat \ {0}
      /\ OnOwners.MaxFailures \in Nat
      /\ synced \in Int /\ latest \in Int /\ from \in Int
      /\ \A n \in N : head[n] \in 0..OnOwners.MaxBlock
  BY DEF Owners!Assumption, OwnerInv, OwnerTypes, Owners!ChainTypeOK, Owners!BlockNumber
<1> USE DEF Owners!chainVars, Owners!listVars, OwnerVars
<1>2. \A t \in OnOwners.Token : rows[t].block \in Int
  BY <1>0, EventBlockIsNumber DEF OwnerInv
<1>3. CASE Owners(N)!Start
  <2>1. PICK n \in N : synced + 1 <= head[n] /\ latest' = head[n]
    BY <1>3 DEF Owners!Start
  <2>2. /\ from' = synced + 1 /\ sess' = rows
        /\ UNCHANGED <<chain, head, listed, rows, synced, failures>>
    BY <1>3 DEF Owners!Start
  <2>3. OwnerTypes(N)'
    BY <1>0, <2>1, <2>2 DEF OwnerInv, OwnerTypes, Owners!ChainTypeOK
  <2>4. ASSUME NEW t \in OnOwners.Token
        PROVE  OfAnEvent(t, rows[t], synced)' /\ OfAnEvent(t, sess[t], from - 1)'
    BY <1>0, <2>2 DEF OwnerInv, OfAnEvent, Known
  <2>5. SessionRows'
    BY <1>0, <1>2, <2>1, <2>2, <2>4 DEF SessionRows
  <2> QED BY <1>2, <2>2, <2>3, <2>4, <2>5 DEF OwnerInv, Owners!NeverOlder
<1>4. CASE Owners(N)!SyncRegister
  <2>1. PICK n \in N : sess' = [t \in OnOwners.Token |->
           Owners(N)!SinkOnTokenInfo(sess[t], Owners(N)!Registered(t, head[n]))]
    BY <1>4 DEF Owners!SyncRegister
  <2>2. /\ latest # -1 /\ from <= latest /\ from' = Owners(N)!To + 1
        /\ UNCHANGED <<chain, head, listed, rows, synced, latest, failures>>
    BY <1>4 DEF Owners!SyncRegister
  <2>3. Owners(N)!To \in Int /\ from <= Owners(N)!To /\ Owners(N)!To <= latest
    BY <1>0, <2>2 DEF Owners!To
  <2>4. OwnerTypes(N)'
    BY <1>0, <2>1, <2>2, <2>3 DEF OwnerInv, OwnerTypes, Owners!ChainTypeOK
  <2>5. ASSUME NEW t \in OnOwners.Token
        PROVE  OfAnEvent(t, sess'[t], Owners(N)!To) /\ rows[t].block <= sess'[t].block
    <3>1. OfAnEvent(t, sess[t], from - 1) /\ rows[t].block <= sess[t].block
      BY <2>2 DEF OwnerInv, SessionRows
    <3>2. OfAnEvent(t, sess'[t], Owners(N)!To) /\ sess[t].block <= sess'[t].block
      BY <2>1, <2>2, <3>1, RangeRow DEF OwnerInv
    <3>3. sess[t].block \in Int /\ sess'[t].block \in Int
      BY <1>0, <2>3, <3>1, <3>2, EventBlockIsNumber
    <3> QED BY <1>2, <3>1, <3>2, <3>3
  <2>6. \A t \in OnOwners.Token : OfAnEvent(t, rows[t], synced)'
    BY <2>2 DEF OwnerInv, OfAnEvent, Known
  <2>7. SessionRows'
    <3>1. from' - 1 = Owners(N)!To
      BY <2>2, <2>3
    <3>2. \A t \in OnOwners.Token : OfAnEvent(t, sess[t], from - 1)'
      BY <2>2, <2>5, <3>1 DEF OfAnEvent, Known
    <3> QED BY <1>0, <2>2, <2>3, <2>5, <3>2 DEF OwnerInv, SessionRows
  <2> QED BY <1>2, <2>2, <2>4, <2>6, <2>7 DEF OwnerInv, Owners!NeverOlder
<1>5. CASE Owners(N)!Commit
  <2>1. /\ latest # -1 /\ from > latest /\ rows' = sess /\ synced' = latest /\ latest' = -1
        /\ UNCHANGED <<chain, head, listed, sess, from, failures>>
    BY <1>5 DEF Owners!Commit
  <2>2. from - 1 = latest
    BY <1>0, <2>1 DEF OwnerInv, SessionRows
  <2>3. OwnerTypes(N)'
    BY <1>0, <2>1 DEF OwnerInv, OwnerTypes, Owners!ChainTypeOK
  <2>4. \A t \in OnOwners.Token : OfAnEvent(t, rows[t], synced)'
    BY <2>1, <2>2 DEF OwnerInv, SessionRows, OfAnEvent, Known
  <2>5. SessionRows'
    BY <2>1 DEF SessionRows
  <2>6. Owners(N)!NeverOlder
    BY <2>1 DEF OwnerInv, SessionRows, Owners!NeverOlder
  <2> QED BY <2>3, <2>4, <2>5, <2>6 DEF OwnerInv
<1>6. CASE Owners(N)!Fail
  <2>1. latest' = -1 /\ failures' = failures + 1 /\ failures < OnOwners.MaxFailures
        /\ UNCHANGED <<chain, head, listed, rows, sess, synced, from>>
    BY <1>6 DEF Owners!Fail
  <2>2. OwnerTypes(N)'
    BY <1>0, <2>1 DEF OwnerInv, OwnerTypes, Owners!ChainTypeOK
  <2> QED BY <1>2, <2>1, <2>2 DEF OwnerInv, SessionRows, OfAnEvent, Known, Owners!NeverOlder
<1>7. CASE (Owners(N)!ChainNext /\ UNCHANGED <<rows, sess, synced, from, latest, failures>>)
           \/ UNCHANGED OwnerVars
  <2>1. UNCHANGED <<rows, sess, synced, from, latest, failures>>
    BY <1>7
  <2>2. OwnerTypes(N)'
    BY <1>7, <2>1, OwnerChainTyped DEF OwnerInv, OwnerTypes, Owners!ChainTypeOK
  <2>3. ASSUME NEW t, NEW row, NEW n, OfAnEvent(t, row, n) PROVE OfAnEvent(t, row, n)'
    BY <1>7, <2>3, RowStays DEF OwnerInv
  <2>4. ASSUME NEW t \in OnOwners.Token PROVE OfAnEvent(t, rows[t], synced)'
    <3>1. OfAnEvent(t, rows[t], synced)
      BY DEF OwnerInv
    <3> QED BY <2>1, <2>3, <3>1 DEF OfAnEvent, Known
  <2>5. ASSUME latest # -1, NEW t \in OnOwners.Token PROVE OfAnEvent(t, sess[t], from - 1)'
    <3>1. OfAnEvent(t, sess[t], from - 1)
      BY <2>5 DEF OwnerInv, SessionRows
    <3>2. PICK n \in Int : n = from - 1
      BY <1>0
    <3>3. OfAnEvent(t, sess[t], n)'
      BY <2>1, <2>3, <3>1, <3>2 DEF OfAnEvent, Known
    <3>4. n = from' - 1
      BY <2>1, <3>2
    <3> QED BY <3>3, <3>4 DEF OfAnEvent
  <2> QED BY <1>2, <2>1, <2>2, <2>4, <2>5 DEF OwnerInv, SessionRows, Owners!NeverOlder
<1> QED BY <1>3, <1>4, <1>5, <1>6, <1>7 DEF Owners!Next

\* With one node, LastInv is kept as well.
LEMMA LastStep ==
    ASSUME NEW N, Owners(N)!Assumption, \A m, n \in N : m = n, OwnerInv(N), LastInv(N),
           Owners(N)!Next \/ UNCHANGED OwnerVars
    PROVE  LastInv(N)'
<1>0. /\ OnOwners.MaxBlock \in Nat /\ OnOwners.ChunkSize \in Nat \ {0}
      /\ synced \in Int /\ latest \in Int /\ from \in Int /\ Len(chain) \in Nat
  BY DEF Owners!Assumption, OwnerInv, OwnerTypes, Owners!ChainTypeOK
<1> USE DEF Owners!chainVars, Owners!listVars, OwnerVars
<1>1. CASE Owners(N)!Start
  <2>1. PICK n \in N : synced + 1 <= head[n] /\ latest' = head[n]
    BY <1>1 DEF Owners!Start
  <2>2. /\ from' = synced + 1 /\ sess' = rows
        /\ UNCHANGED <<chain, head, listed, rows, synced, failures>>
    BY <1>1 DEF Owners!Start
  <2>3. \A t \in OnOwners.Token : OfTheLast(t, rows[t], synced)' /\ OfTheLast(t, sess[t], from - 1)'
    BY <1>0, <2>2 DEF LastInv, OfTheLast, Known
  <2> QED BY <2>1, <2>2, <2>3 DEF LastInv
<1>2. CASE Owners(N)!SyncRegister
  <2>1. PICK n \in N : sess' = [t \in OnOwners.Token |->
           Owners(N)!SinkOnTokenInfo(sess[t], Owners(N)!Registered(t, head[n]))]
    BY <1>2 DEF Owners!SyncRegister
  <2>2. /\ latest # -1 /\ from <= latest /\ from' = Owners(N)!To + 1
        /\ UNCHANGED <<chain, head, listed, rows, synced, latest, failures>>
    BY <1>2 DEF Owners!SyncRegister
  <2>3. Owners(N)!To \in Int
    BY <1>0, <2>2 DEF Owners!To
  <2>4. ASSUME NEW t \in OnOwners.Token PROVE OfTheLast(t, sess'[t], Owners(N)!To)
    <3>1. OfAnEvent(t, sess[t], from - 1) /\ OfTheLast(t, sess[t], from - 1)
      BY <2>2 DEF OwnerInv, SessionRows, LastInv
    <3>2. head[n] = Len(chain)
      BY DEF LastInv
    <3> QED BY <2>1, <2>2, <3>1, <3>2, RangeRow DEF OwnerInv
  <2>5. from' - 1 = Owners(N)!To
    BY <2>2, <2>3
  <2>6. \A t \in OnOwners.Token : OfTheLast(t, rows[t], synced)' /\ OfTheLast(t, sess[t], from - 1)'
    BY <2>2, <2>4, <2>5 DEF LastInv, OfTheLast, Known
  <2> QED BY <2>2, <2>6 DEF LastInv
<1>3. CASE Owners(N)!Commit
  <2>1. /\ latest # -1 /\ from > latest /\ rows' = sess /\ synced' = latest /\ latest' = -1
        /\ UNCHANGED <<chain, head, listed, sess, from, failures>>
    BY <1>3 DEF Owners!Commit
  <2>2. from - 1 = latest
    BY <1>0, <2>1 DEF OwnerInv, SessionRows
  <2>3. \A t \in OnOwners.Token : OfTheLast(t, rows[t], synced)'
    BY <2>1, <2>2 DEF LastInv, OfTheLast, Known
  <2> QED BY <1>0, <2>1, <2>3 DEF LastInv
<1>4. CASE Owners(N)!Fail
  <2>1. latest' = -1 /\ UNCHANGED <<chain, head, listed, rows, sess, synced, from>>
    BY <1>4 DEF Owners!Fail
  <2> QED BY <1>0, <2>1 DEF LastInv, OfTheLast, Known
<1>5. CASE (Owners(N)!ChainNext /\ UNCHANGED <<rows, sess, synced, from, latest, failures>>)
           \/ UNCHANGED OwnerVars
  <2>1. UNCHANGED <<rows, sess, synced, from, latest, failures>>
    BY <1>5
  <2>2. (\A n \in N : head'[n] = Len(chain')) /\ Len(chain) <= Len(chain')
    <3>1. CASE Owners(N)!ChainNext /\ Owners(N)!Mine
      <4>1. PICK block \in OnOwners.Contents, S \in (SUBSET N) \ {{}} :
               /\ chain' = Append(chain, block)
               /\ head' = [n \in N |-> IF n \in S THEN Len(chain) + 1 ELSE head[n]]
        BY <3>1 DEF Owners!Mine
      <4>2. \A n \in N : n \in S
        BY <4>1
      <4>3. Len(chain') = Len(chain) + 1
        BY <4>1 DEF OwnerInv, OwnerTypes, Owners!ChainTypeOK
      <4> QED BY <1>0, <4>1, <4>2, <4>3
    <3>2. CASE Owners(N)!ChainNext /\ Owners(N)!CatchUp
      BY <1>0, <3>2 DEF Owners!CatchUp, LastInv, OwnerInv, OwnerTypes, Owners!ChainTypeOK
    <3>3. CASE ~(Owners(N)!ChainNext /\ (Owners(N)!Mine \/ Owners(N)!CatchUp))
      <4>1. UNCHANGED <<chain, head>>
        BY <1>5, <3>3 DEF Owners!ChainNext, Owners!RegisterAdminToken, Owners!DeleteToken
      <4> QED BY <1>0, <4>1 DEF LastInv
    <3> QED BY <3>1, <3>2, <3>3
  <2>3. Len(chain') \in Int
    BY <1>5, <2>1, OwnerChainTyped DEF OwnerInv, OwnerTypes, Owners!ChainTypeOK
  <2>4. ASSUME NEW t, NEW row, NEW n \in Int, n <= Len(chain), OfTheLast(t, row, n)
        PROVE  OfTheLast(t, row, n)'
    BY <1>5, <2>4, RowStays DEF OwnerInv
  <2>5. ASSUME NEW t \in OnOwners.Token PROVE OfTheLast(t, rows[t], synced)'
    <3>1. OfTheLast(t, rows[t], synced) /\ synced <= Len(chain)
      BY DEF LastInv
    <3> QED BY <1>0, <2>1, <2>4, <3>1 DEF OfTheLast, Known
  <2>6. ASSUME latest # -1, NEW t \in OnOwners.Token PROVE OfTheLast(t, sess[t], from - 1)'
    <3>1. OfTheLast(t, sess[t], from - 1) /\ from - 1 <= Len(chain)
      BY <1>0, <2>6 DEF LastInv, OwnerInv, SessionRows
    <3>2. PICK n \in Int : n = from - 1
      BY <1>0
    <3>3. OfTheLast(t, sess[t], n)'
      BY <2>1, <2>4, <3>1, <3>2 DEF OfTheLast, Known
    <3>4. n = from' - 1
      BY <2>1, <3>2
    <3> QED BY <3>3, <3>4 DEF OfTheLast
  <2> QED BY <1>0, <2>1, <2>2, <2>3, <2>5, <2>6 DEF LastInv
<1> QED BY <1>1, <1>2, <1>3, <1>4, <1>5 DEF Owners!Next

\* At first there is no row and no block.
LEMMA OwnerBegin ==
    ASSUME NEW N, Owners(N)!Assumption, Owners(N)!Init
    PROVE  OwnerInv(N) /\ LastInv(N)
<1>1. /\ chain = <<>> /\ head = [n \in N |-> 0] /\ listed = {}
      /\ rows = [t \in OnOwners.Token |-> Unregistered] /\ sess = rows
      /\ synced = -1 /\ from = 0 /\ latest = -1 /\ failures = 0
  BY DEF Owners!Init, Owners!ChainInit, Owners!NoRow, Unregistered
<1>2. OnOwners.MaxBlock \in Nat /\ OnOwners.MaxFailures \in Nat
  BY DEF Owners!Assumption
<1>3. OwnerTypes(N)
  BY <1>1, <1>2 DEF OwnerTypes, Owners!ChainTypeOK, Owners!BlockNumber
<1>4. \A t : Known(t, -1) = {}
  BY <1>2 DEF Known
<1> QED BY <1>1, <1>2, <1>3, <1>4 DEF OwnerInv, LastInv, SessionRows, OfAnEvent, OfTheLast

\* The theorems are about these invariants of the two sets of nodes.
OneOwnerInv == which = "owner" => OwnerInv(OnOwners.One) /\ LastInv(OnOwners.One)
ManyOwnerInv == which = "owners" => OwnerInv(OnOwners.Many)

\* The invariants of the owners hold at first ...
LEMMA OwnersBegin == LedgersInit => OneOwnerInv /\ ManyOwnerInv
BY BeginningOfOne, OwnerBegin, OwnerLedgerAssumption DEF OneOwnerInv, ManyOwnerInv

\* ... and are kept, with one node ...
LEMMA OneOwnerStep == OneOwnerInv /\ [LedgersNext]_ledgerVars => OneOwnerInv'
<1> SUFFICES ASSUME OneOwnerInv, [LedgersNext]_ledgerVars, which' = "owner"
             PROVE  OwnerInv(OnOwners.One)' /\ LastInv(OnOwners.One)'
  BY DEF OneOwnerInv
<1>1. OwnerInv(OnOwners.One) /\ LastInv(OnOwners.One)
  BY StepOfOne DEF OneOwnerInv
<1>2. Owners(OnOwners.One)!Next \/ UNCHANGED OwnerVars
  BY StepOfOne DEF ledgerVars, tables, OwnerVars, vars
<1>3. Owners(OnOwners.One)!Assumption /\ \A m, n \in OnOwners.One : m = n
  BY OwnerLedgerAssumption
<1> QED BY <1>1, <1>2, <1>3, OwnerStep, LastStep

\* ... and with many, by every step of the group.
LEMMA ManyOwnerStep ==
    ManyOwnerInv /\ [LedgersNext]_ledgerVars
        => ManyOwnerInv' /\ (which = "owners" => Owners(OnOwners.Many)!NeverOlder)
<1> SUFFICES ASSUME ManyOwnerInv, [LedgersNext]_ledgerVars, which = "owners"
             PROVE  OwnerInv(OnOwners.Many)' /\ Owners(OnOwners.Many)!NeverOlder
  BY StepOfOne DEF ManyOwnerInv
<1>1. OwnerInv(OnOwners.Many)
  BY DEF ManyOwnerInv
<1>2. Owners(OnOwners.Many)!Next \/ UNCHANGED OwnerVars
  BY StepOfOne DEF ledgerVars, tables, OwnerVars, vars
<1> QED BY <1>1, <1>2, OwnerLedgerAssumption, OwnerStep

\* With one node, the owner of each token is the one of its last Register event up to the
\* stored block number, however the events were spread over ranges and failures.
THEOREM OwnersAlwaysAsRegistered == LedgersSpec => []OwnersAsRegistered
<1>1. OneOwnerInv => OwnersAsRegistered
  <2> SUFFICES ASSUME OneOwnerInv, which = "owner"
               PROVE  Owners(OnOwners.One)!TypeOK /\ Owners(OnOwners.One)!OwnersAsRegistered
    BY DEF OwnersAsRegistered
  <2>1. OwnerInv(OnOwners.One) /\ LastInv(OnOwners.One)
    BY DEF OneOwnerInv
  <2>2. Unregistered = Owners(OnOwners.One)!NoRow
    BY DEF Unregistered, Owners!NoRow
  <2>3. Owners(OnOwners.One)!TypeOK
    <3>1. ASSUME NEW t \in OnOwners.Token, rows[t] # Unregistered
          PROVE  rows[t].template \in OnOwners.TokenTemplate
      <4>1. PICK r \in Known(t, synced) : rows[t] = RowOf(r)
        BY <2>1, <3>1 DEF OwnerInv, OfAnEvent
      <4>2. r[2].template \in OnOwners.TokenTemplate
        BY DEF Known
      <4>3. RowOf(r).template = r[2].template
        BY DEF RowOf
      <4> QED BY <4>1, <4>2, <4>3
    <3> QED BY <2>1, <2>2, <3>1 DEF OwnerInv, OwnerTypes, Owners!TypeOK
  <2>4. ASSUME NEW t \in OnOwners.Token
        PROVE  /\ Known(t, synced) = {} => rows[t] = Unregistered
               /\ \A r \in Known(t, synced) : rows[t].block >= r[1]
               /\ rows[t] # Unregistered =>
                     \E r \in Known(t, synced) : r[1] = rows[t].block /\ r[2].owner = rows[t].owner
    <3>1. rows[t] = Unregistered \/ \E r \in Known(t, synced) : rows[t] = RowOf(r)
      BY <2>1 DEF OwnerInv, OfAnEvent
    <3>2. \A r \in Known(t, synced) : r[1] <= rows[t].block
      BY <2>1 DEF LastInv, OfTheLast
    <3>3. \A r : RowOf(r).block = r[1] /\ RowOf(r).owner = r[2].owner
      BY DEF RowOf
    <3>4. \A r \in Known(t, synced) : r[1] \in Int /\ rows[t].block \in Int
      BY <2>1, OwnerLedgerAssumption, EventBlockIsNumber
         DEF Known, OwnerInv, OwnerTypes, Owners!Assumption
    <3> QED BY <3>1, <3>2, <3>3, <3>4
  <2>5. \A t : Known(t, synced) =
          {r \in Owners(OnOwners.One)!Block \X OnOwners.Event :
              /\ r[1] <= synced /\ r[2] \in chain[r[1]] /\ r[2].token = t
              /\ r[2].kind = "Register" /\ r[2].template \in OnOwners.TokenTemplate}
    <3>1. \A b \in 1..OnOwners.MaxBlock : b <= synced => b <= Len(chain)
      BY <2>1, OwnerLedgerAssumption
         DEF LastInv, OwnerInv, OwnerTypes, Owners!ChainTypeOK, Owners!Assumption
    <3> QED BY <3>1 DEF Known, Owners!Block
  <2> QED BY <2>2, <2>3, <2>4, <2>5 DEF Owners!OwnersAsRegistered
<1> QED BY <1>1, OwnersBegin, OneOwnerStep, PTL DEF LedgersSpec

\* However far nodes lag, no step replaces a row by one of an earlier event: a former owner
\* never takes a token back.
THEOREM OwnerAlwaysNeverOlder == LedgersSpec => OwnerNeverOlder
<1>1. ManyOwnerInv /\ [LedgersNext]_ledgerVars
          => [which = "owners" => Owners(OnOwners.Many)!NeverOlder]_<<which, rows>>
  BY ManyOwnerStep
<1> QED BY <1>1, OwnersBegin, ManyOwnerStep, PTL DEF LedgersSpec, OwnerNeverOlder

------------------------------------------------------------------------------
(* Consumptions of coupons. *)

\* The consumptions of a block that count, and the rows that are of the first of a block.
CouponEvents(b) == {e \in chain[b] : e.kind = "Consume" /\ Coupons!Counted(e)}
FirstOf(c, b) ==
    \E e \in CouponEvents(b) : c = Coupons!Consumption(e) /\ Coupons!First(e, CouponEvents(b))

\* The rows of a table come from blocks up to n, one for each key.
Shown(table, n) ==
    /\ \A c \in table : \E b \in 1..n : FirstOf(c, b)
    /\ \A c, d \in table : Coupons!SameKey(c, d) => c = d

\* The consumptions that must not be missing, and what it is to have a row.
Due(r) ==
    /\ r[2].kind = "Consume" /\ Coupons!Counted(r[2])
    /\ OnCoupons.TemplateOf[r[2].token] = "IbetCoupon"
HasRow(table, r) == \E c \in table : Coupons!SameKey(c, r[2])

LastShown == IF upto > done THEN upto ELSE done

CouponChain ==
    /\ \A b \in 1..Len(chain) : chain[b] \in OnCoupons.Contents
    /\ \A n \in OnCoupons.Node : head[n] = Len(chain)
    /\ \A t \in listed : Coupons!RegisteredAt(t, Len(chain))
    /\ \A r \in steady : /\ r \in (1..OnCoupons.MaxBlock) \X OnCoupons.Event
                         /\ r[1] <= Len(chain) /\ r[2] \in chain[r[1]] /\ r[2].token \in listed

CommittedRows ==
    /\ done <= Len(chain) /\ Shown(rows, done)
    /\ \A r \in steady : Due(r) /\ r[1] <= done => HasRow(rows, r)

\* While a sync goes on, its targets have all that is due up to its last block; the session
\* has what the tables have and what was due in the ranges that have been read.
RunningSync ==
    /\ pass = Coupons!Listed => \A r \in steady : Due(r) => r[2].token \in targets
    /\ pass \in 1..2 =>
          /\ upto <= Len(chain) /\ from <= upto
          /\ Shown(sess, LastShown) /\ rows \subseteq sess
          /\ \A r \in steady : Due(r) /\ r[1] <= upto => r[2].token \in targets
          /\ \A r \in steady :
                Due(r) /\ (r[1] < from \/ (pass = 2 /\ r[1] <= upto)) => HasRow(sess, r)

CouponSync == CouponChain /\ CommittedRows /\ RunningSync
\* The inductive invariant of the consumptions.
CouponInv == Coupons!SyncTypeOK /\ CouponSync

CouponVars == <<chain, head, listed, rows, sess, latest, started, targets, from, upto, pass,
                failures, done, steady>>

\* The bounds, and what is read: one kind of events.
LEMMA CouponBounds ==
    /\ OnCoupons.MaxBlock \in Nat /\ OnCoupons.MaxFailures \in Nat
    /\ OnCoupons.ChunkSize \in Nat \ {0}
    /\ Len(OnCoupons.Kinds) = 1 /\ DOMAIN OnCoupons.Kinds = {1} /\ OnCoupons.Kinds[1] = "Consume"
BY CouponLedgerAssumption DEF Coupons!Assumption

\* The numbers of a sync.
LEMMA CouponNumbers ==
    ASSUME Coupons!SyncTypeOK
    PROVE  /\ latest \in 0..OnCoupons.MaxBlock /\ done \in 0..OnCoupons.MaxBlock /\ latest <= done
           /\ from \in 0..OnCoupons.MaxBlock + 1 /\ upto \in 0..OnCoupons.MaxBlock
           /\ pass \in -1..2 /\ failures \in 0..OnCoupons.MaxFailures /\ started \in BOOLEAN
           /\ chain \in Seq(SUBSET OnCoupons.Event) /\ Len(chain) \in 0..OnCoupons.MaxBlock
           /\ \A n \in OnCoupons.Node : head[n] \in 0..OnCoupons.MaxBlock /\ head[n] <= Len(chain)
<1>1. Len(chain) \in Nat /\ Len(chain) <= OnCoupons.MaxBlock
  BY DEF Coupons!SyncTypeOK, Coupons!ChainTypeOK
<1> QED BY <1>1, CouponBounds
        DEF Coupons!SyncTypeOK, Coupons!ChainTypeOK, Coupons!BlockNumber, Coupons!Listed

\* The chain and its nodes keep their types.
LEMMA CouponChainTyped ==
    ASSUME Coupons!ChainTypeOK, Coupons!ChainNext
    PROVE  Coupons!ChainTypeOK'
<1> USE DEF Coupons!ChainTypeOK, Coupons!BlockNumber
<1>1. CASE Coupons!Mine
  <2>1. PICK block \in OnCoupons.Contents, S \in (SUBSET OnCoupons.Node) \ {{}} :
           /\ Len(chain) < OnCoupons.MaxBlock
           /\ chain' = Append(chain, block)
           /\ head' = [n \in OnCoupons.Node |-> IF n \in S THEN Len(chain) + 1 ELSE head[n]]
    BY <1>1 DEF Coupons!Mine
  <2>2. block \in SUBSET OnCoupons.Event
    BY CouponLedgerAssumption DEF Coupons!Assumption
  <2>3. Len(chain') = Len(chain) + 1 /\ chain' \in Seq(SUBSET OnCoupons.Event)
    BY <2>1, <2>2
  <2>4. \A n \in OnCoupons.Node : head'[n] \in 0..OnCoupons.MaxBlock /\ head'[n] <= Len(chain')
    BY <2>1, <2>3, CouponBounds
  <2> QED BY <1>1, <2>1, <2>3, <2>4, CouponBounds DEF Coupons!Mine
<1>2. CASE Coupons!CatchUp
  BY <1>2, CouponBounds DEF Coupons!CatchUp
<1>3. CASE Coupons!RegisterAdminToken \/ Coupons!DeleteToken
  BY <1>3 DEF Coupons!RegisterAdminToken, Coupons!DeleteToken
<1> QED BY <1>1, <1>2, <1>3 DEF Coupons!ChainNext

\* The key of a consumption is that of its row.
LEMMA KeyOfRow ==
    ASSUME NEW e
    PROVE  Coupons!SameKey(Coupons!Consumption(e), e)
BY DEF Coupons!SameKey, Coupons!Consumption

\* Keys are equal or not.
LEMMA KeysAreEqual ==
    ASSUME NEW c, NEW d, NEW e
    PROVE  /\ Coupons!SameKey(c, e) /\ Coupons!SameKey(d, e) => Coupons!SameKey(c, d)
           /\ Coupons!SameKey(c, e) => Coupons!SameKey(e, c)
           /\ Coupons!SameKey(c, d) /\ Coupons!SameKey(d, e) => Coupons!SameKey(c, e)
BY DEF Coupons!SameKey

\* The consumptions of a key that a range holds have a first one.
LEMMA FirstExists ==
    ASSUME NEW read, \A x \in read : x.log \in Nat, NEW e \in read
    PROVE  \E f \in read : Coupons!SameKey(f, e) /\ Coupons!First(f, read)
<1> DEFINE S == {x \in read : Coupons!SameKey(x, e)}
           T == {x.log : x \in S}
<1>1. e \in S
  BY DEF Coupons!SameKey
<1>2. T \in SUBSET Nat /\ T # {}
  BY <1>1
<1>3. PICK l \in T : \A y \in T : l <= y
  <2> HIDE DEF T
  <2> QED BY <1>2, ApprovalConstants, AP!LeastExists
<1>4. PICK f \in S : f.log = l
  BY <1>3
<1>5. \A x \in read : Coupons!SameKey(x, f) => x \in S
  BY <1>4, KeysAreEqual
<1>6. Coupons!First(f, read)
  BY <1>3, <1>4, <1>5 DEF Coupons!First
<1> QED BY <1>4, <1>6

\* What a sync reads: every consumption of a block of the range that its targets can see.
LEMMA RangeIsWhole ==
    ASSUME CouponInv, NEW n \in Nat, Coupons!To <= n,
           NEW read, read = {x \in {r[2] : r \in Coupons!InRange("Consume", Len(chain))} :
                                x.token \in targets /\ Coupons!Counted(x)}
    PROVE  /\ \A x \in read : /\ x.log \in Nat
                              /\ \E b \in 1..n : /\ b <= Len(chain) /\ x \in CouponEvents(b)
                                                 /\ \A y \in CouponEvents(b) :
                                                       Coupons!SameKey(y, x) => y \in read
           /\ \A b \in from..Coupons!To : b \in 1..Len(chain) =>
                 \A x \in CouponEvents(b) : x.token \in targets => x \in read
<1>1. /\ from \in 0..OnCoupons.MaxBlock + 1 /\ upto \in Int /\ Len(chain) \in 0..OnCoupons.MaxBlock
      /\ OnCoupons.MaxBlock \in Nat
      /\ \A b \in 1..Len(chain) : chain[b] \in SUBSET OnCoupons.Event
  BY CouponNumbers, CouponBounds DEF CouponInv
<1>2. Coupons!To \in Int
  BY <1>1, CouponBounds DEF Coupons!To
<1>3. \A b \in from..Coupons!To : b \in 1..Len(chain) =>
         \A x \in CouponEvents(b) : x.token \in targets => x \in read
  <2> SUFFICES ASSUME NEW b \in from..Coupons!To, b \in 1..Len(chain),
                      NEW x \in CouponEvents(b), x.token \in targets
               PROVE  x \in read
    OBVIOUS
  <2>1. x \in chain[b] /\ x \in OnCoupons.Event /\ x.kind = "Consume" /\ Coupons!Counted(x)
    BY <1>1 DEF CouponEvents
  <2>2. <<b, x>> \in Coupons!InRange("Consume", Len(chain))
    BY <1>1, <2>1 DEF Coupons!InRange, Coupons!Block
  <2> QED BY <2>1, <2>2
<1>4. ASSUME NEW x \in read
      PROVE  /\ x.log \in Nat
             /\ \E b \in 1..n : /\ b <= Len(chain) /\ x \in CouponEvents(b)
                                /\ \A y \in CouponEvents(b) :
                                      Coupons!SameKey(y, x) => y \in read
  <2>1. PICK r \in Coupons!InRange("Consume", Len(chain)) : x = r[2]
    OBVIOUS
  <2>2. /\ r[1] \in from..Coupons!To /\ r[1] \in 1..Len(chain)
        /\ x \in chain[r[1]] /\ x.kind = "Consume" /\ x \in OnCoupons.Event
    BY <1>1, <2>1 DEF Coupons!InRange, Coupons!Block
  <2>3. x.log \in Nat
    BY <2>2, CouponLedgerAssumption DEF Coupons!Assumption
  <2>4. x.token \in targets /\ Coupons!Counted(x)
    OBVIOUS
  <2>5. x \in CouponEvents(r[1])
    BY <2>2, <2>4 DEF CouponEvents
  <2>6. \A y \in CouponEvents(r[1]) : Coupons!SameKey(y, x) => y \in read
    BY <1>3, <2>2, <2>4 DEF Coupons!SameKey
  <2>7. r[1] \in 1..n
    BY <1>1, <1>2, <2>2
  <2> QED BY <2>2, <2>3, <2>5, <2>6, <2>7
<1> QED BY <1>3, <1>4

\* What the sink makes of them: rows of first consumptions, one for a key.
LEMMA SinkIsSound ==
    ASSUME CouponInv, NEW table, NEW n \in Nat, Shown(table, n), Coupons!To <= n, NEW h,
           NEW events, events = {r[2] : r \in Coupons!InRange("Consume", Len(chain))}
    PROVE  Shown(Coupons!SinkOnConsumeCoupon(table, events, h), n)
<1> DEFINE read == {x \in events : x.token \in targets /\ Coupons!Counted(x)}
           fresh == {x \in read : /\ Coupons!First(x, read)
                                  /\ \A c \in table : ~Coupons!SameKey(c, x)}
           new == {Coupons!Consumption(e) : e \in fresh}
<1>1. Coupons!SinkOnConsumeCoupon(table, events, h) = table \union new
  BY DEF Coupons!SinkOnConsumeCoupon
<1>2. \A x \in read : /\ x.log \in Nat
                      /\ \E b \in 1..n : /\ b <= Len(chain) /\ x \in CouponEvents(b)
                                         /\ \A y \in CouponEvents(b) :
                                               Coupons!SameKey(y, x) => y \in read
  BY RangeIsWhole
<1> HIDE DEF read
<1>3. ASSUME NEW c \in new PROVE \E b \in 1..n : FirstOf(c, b)
  <2>1. PICK e \in fresh : c = Coupons!Consumption(e)
    OBVIOUS
  <2>2. PICK b \in 1..n : /\ e \in CouponEvents(b)
                          /\ \A y \in CouponEvents(b) : Coupons!SameKey(y, e) => y \in read
    BY <1>2
  <2>3. Coupons!First(e, CouponEvents(b))
    BY <2>2 DEF Coupons!First
  <2> QED BY <2>1, <2>2, <2>3 DEF FirstOf
<1>4. ASSUME NEW c \in new, NEW d \in new, Coupons!SameKey(c, d) PROVE c = d
  <2>1. PICK e \in fresh : c = Coupons!Consumption(e)
    OBVIOUS
  <2>2. PICK f \in fresh : d = Coupons!Consumption(f)
    OBVIOUS
  <2>3. Coupons!SameKey(e, f)
    BY <1>4, <2>1, <2>2 DEF Coupons!SameKey, Coupons!Consumption
  <2>4. e.log <= f.log /\ f.log <= e.log /\ e.tx = f.tx
    BY <2>3, KeysAreEqual DEF Coupons!First, Coupons!SameKey
  <2>5. PICK b \in 1..Len(chain) : e \in chain[b] /\ e.kind = "Consume"
    BY <1>2 DEF CouponEvents
  <2>6. PICK a \in 1..Len(chain) : f \in chain[a] /\ f.kind = "Consume"
    BY <1>2 DEF CouponEvents
  <2>7. e.log = f.log
    BY <1>2, <2>4
  <2>8. e = f
    BY <2>4, <2>5, <2>6, <2>7, CouponLedgerAssumption
       DEF Coupons!Assumption, CouponInv, CouponSync, CouponChain
  <2> QED BY <2>1, <2>2, <2>8
<1>5. ASSUME NEW c \in new, NEW d \in table PROVE ~Coupons!SameKey(c, d) /\ ~Coupons!SameKey(d, c)
  <2>1. PICK e \in fresh : c = Coupons!Consumption(e)
    OBVIOUS
  <2> QED BY <2>1 DEF Coupons!SameKey, Coupons!Consumption
<1> HIDE DEF new
<1> QED BY <1>1, <1>3, <1>4, <1>5 DEF Shown

\* Nothing is lost, and what the range has of the targets has a row then.
LEMMA SinkIsComplete ==
    ASSUME CouponInv, NEW table, NEW h,
           NEW events, events = {r[2] : r \in Coupons!InRange("Consume", Len(chain))}
    PROVE  LET new == Coupons!SinkOnConsumeCoupon(table, events, h) IN
           /\ table \subseteq new
           /\ \A b \in from..Coupons!To : b \in 1..Len(chain) =>
                 \A x \in CouponEvents(b) : x.token \in targets =>
                    \E c \in new : Coupons!SameKey(c, x)
<1> DEFINE new == Coupons!SinkOnConsumeCoupon(table, events, h)
           read == {x \in events : x.token \in targets /\ Coupons!Counted(x)}
<1>1. new = table \union {Coupons!Consumption(e) :
                e \in {x \in read : /\ Coupons!First(x, read)
                                    /\ \A c \in table : ~Coupons!SameKey(c, x)}}
  BY DEF Coupons!SinkOnConsumeCoupon
<1>2. PICK n \in Nat : Coupons!To <= n
  <2>1. from \in Int /\ upto \in Nat
    BY CouponNumbers, CouponBounds DEF CouponInv
  <2> QED BY <2>1, CouponBounds DEF Coupons!To
<1>3. /\ \A x \in read : x.log \in Nat
      /\ \A b \in from..Coupons!To : b \in 1..Len(chain) =>
            \A x \in CouponEvents(b) : x.token \in targets => x \in read
  BY <1>2, RangeIsWhole
<1> HIDE DEF read, new
<1>4. ASSUME NEW x \in read PROVE \E c \in new : Coupons!SameKey(c, x)
  <2>1. PICK f \in read : Coupons!SameKey(f, x) /\ Coupons!First(f, read)
    BY <1>3, FirstExists
  <2>2. CASE \E c \in table : Coupons!SameKey(c, f)
    BY <1>1, <2>1, <2>2, KeysAreEqual
  <2>3. CASE \A c \in table : ~Coupons!SameKey(c, f)
    <3>1. Coupons!Consumption(f) \in new
      BY <1>1, <2>1, <2>3
    <3> QED BY <2>1, <3>1, KeyOfRow, KeysAreEqual
  <2> QED BY <2>2, <2>3
<1>5. /\ table \subseteq new
      /\ \A b \in from..Coupons!To : b \in 1..Len(chain) =>
            \A x \in CouponEvents(b) : x.token \in targets =>
               \E c \in new : Coupons!SameKey(c, x)
  BY <1>1, <1>3, <1>4
<1> QED BY <1>5 DEF new

\* The one node knows the whole chain.
LEMMA OneHead ==
    ASSUME CouponInv
    PROVE  \A h \in Coupons!Heads : h = Len(chain)
BY DEF Coupons!Heads, CouponInv, CouponSync, CouponChain

\* A sync begins where the rows end.
LEMMA SyncOpened ==
    ASSUME CouponInv, pass \in {0, -1}, NEW low \in Int, low = 0 \/ low = latest + 1,
           low <= Len(chain),
           Coupons!Open(low, Len(chain)), targets' \subseteq OnCoupons.Token,
           \A r \in steady : Due(r) => r[2].token \in targets'
    PROVE  CouponInv'
<1>1. /\ from' = low /\ upto' = Len(chain) /\ sess' = rows /\ pass' = 1
      /\ UNCHANGED <<chain, head, listed, rows, latest, started, failures, done, steady>>
  BY DEF Coupons!Open, Coupons!chainVars
<1>2. /\ latest \in Nat /\ done \in Nat /\ latest <= done /\ low \in Nat
      /\ Len(chain) \in 0..OnCoupons.MaxBlock /\ OnCoupons.MaxBlock \in Nat
  BY CouponNumbers, CouponBounds DEF CouponInv
<1>3. Coupons!SyncTypeOK'
  BY <1>1, <1>2, CouponBounds
     DEF CouponInv, Coupons!SyncTypeOK, Coupons!ChainTypeOK, Coupons!BlockNumber, Coupons!Listed
<1>4. CouponChain'
  BY <1>1 DEF CouponInv, CouponSync, CouponChain, Coupons!RegisteredAt, Coupons!Block
<1>5. CommittedRows'
  BY <1>1 DEF CouponInv, CouponSync, CommittedRows, Shown, FirstOf, CouponEvents, HasRow, Due
<1>6. RunningSync'
  <2>1. done <= Len(chain) /\ Shown(rows, done)
    BY DEF CouponInv, CouponSync, CommittedRows
  <2>2. LastShown' = Len(chain)
    BY <1>1, <1>2, <2>1 DEF LastShown
  <2>3. Shown(rows, Len(chain))
    BY <1>2, <2>1 DEF Shown
  <2>4. (\A c \in sess : \E b \in 1..LastShown : FirstOf(c, b))'
    BY <1>1, <2>2, <2>3 DEF Shown, FirstOf, CouponEvents
  <2>5. Shown(sess, LastShown)'
    BY <1>1, <2>3, <2>4 DEF Shown
  <2>6. \A r \in steady : Due(r) /\ r[1] < low => HasRow(rows, r)
    <3>1. \A r \in steady : r[1] \in 1..OnCoupons.MaxBlock
      BY DEF CouponInv, CouponSync, CouponChain
    <3>2. \A r \in steady : r[1] < low => r[1] <= done
      BY <1>2, <3>1
    <3> QED BY <3>2 DEF CouponInv, CouponSync, CommittedRows
  <2> QED BY <1>1, <2>5, <2>6 DEF RunningSync, Coupons!Listed, Due, HasRow
<1> QED BY <1>3, <1>4, <1>5, <1>6 DEF CouponInv, CouponSync

\* The list of tokens has every coupon that is listed.
LEMMA CouponsListed ==
    ASSUME CouponInv, NEW coupons \in Coupons!TokenLists
    PROVE  coupons \subseteq OnCoupons.Token /\ \A r \in steady : Due(r) => r[2].token \in coupons
<1>1. coupons \subseteq listed /\ listed \subseteq OnCoupons.Token
  BY DEF Coupons!TokenLists, CouponInv, Coupons!SyncTypeOK, Coupons!ChainTypeOK
<1>2. ASSUME NEW r \in steady, Due(r) PROVE r[2].token \in coupons
  <2>1. r[2].token \in listed /\ Coupons!RegisteredAt(r[2].token, Len(chain))
    BY DEF CouponInv, CouponSync, CouponChain
  <2>2. OnCoupons.TemplateOf[r[2].token] = "IbetCoupon"
    BY <1>2 DEF Due
  <2> QED BY <2>1, <2>2, OneHead DEF Coupons!TokenLists
<1> QED BY <1>1, <1>2

\* A sync that begins, or finds nothing to read, keeps CouponInv ...
LEMMA SyncBegun ==
    ASSUME CouponInv, Coupons!InitialSync \/ Coupons!SyncNewLogs
    PROVE  CouponInv'
<1>0. /\ latest \in Nat /\ done \in Nat /\ latest <= done /\ done <= Len(chain)
      /\ Len(chain) \in 0..OnCoupons.MaxBlock /\ OnCoupons.MaxBlock \in Nat
  BY CouponNumbers, CouponBounds DEF CouponInv, CouponSync, CommittedRows
<1>1. CASE Coupons!InitialSync
  <2>1. PICK coupons \in Coupons!TokenLists : Coupons!StartInitialSync(coupons)
    BY <1>1 DEF Coupons!InitialSync
  <2>2. pass = 0 /\ targets' = coupons /\ \E h \in Coupons!Heads : Coupons!Open(0, h)
    BY <2>1 DEF Coupons!StartInitialSync
  <2>3. Coupons!Open(0, Len(chain))
    BY <2>2, OneHead
  <2> QED BY <1>0, <2>2, <2>3, CouponsListed, SyncOpened
<1>2. CASE \E coupons \in Coupons!TokenLists : Coupons!ListTokens(coupons)
  <2>1. PICK coupons \in Coupons!TokenLists : Coupons!ListTokens(coupons)
    BY <1>2
  <2>2. /\ targets' = coupons /\ pass' = -1
        /\ UNCHANGED <<chain, head, listed, rows, sess, latest, started, from, upto, failures,
                       done, steady>>
    BY <2>1 DEF Coupons!ListTokens, Coupons!Listed, Coupons!chainVars
  <2>3. coupons \subseteq OnCoupons.Token /\ \A r \in steady : Due(r) => r[2].token \in coupons
    BY CouponsListed
  <2>4. Coupons!SyncTypeOK'
    BY <2>2, <2>3, CouponBounds
       DEF CouponInv, Coupons!SyncTypeOK, Coupons!ChainTypeOK, Coupons!Listed
  <2>5. CouponChain'
    BY <2>2 DEF CouponInv, CouponSync, CouponChain, Coupons!RegisteredAt, Coupons!Block
  <2>6. CommittedRows'
    BY <2>2 DEF CouponInv, CouponSync, CommittedRows, Shown, FirstOf, CouponEvents, HasRow, Due
  <2>7. RunningSync'
    BY <2>2, <2>3 DEF RunningSync, Coupons!Listed, Due
  <2> QED BY <2>4, <2>5, <2>6, <2>7 DEF CouponInv, CouponSync
<1>3. CASE Coupons!StartSync(Coupons!Listed)
  <2>1. pass = -1 /\ targets' = targets
    BY <1>3 DEF Coupons!StartSync, Coupons!Listed
  <2>2. CASE Len(chain) # latest
    <3>1. Coupons!Open(latest + 1, Len(chain))
      BY <1>3, <2>2, OneHead DEF Coupons!StartSync
    <3>2. latest + 1 <= Len(chain)
      BY <1>0, <2>2
    <3>3. targets' \subseteq OnCoupons.Token
      BY <2>1 DEF CouponInv, Coupons!SyncTypeOK
    <3>4. \A r \in steady : Due(r) => r[2].token \in targets'
      BY <2>1 DEF CouponInv, CouponSync, RunningSync, Coupons!Listed
    <3> QED BY <1>0, <2>1, <3>1, <3>2, <3>3, <3>4, SyncOpened
  <2>3. CASE Len(chain) = latest
    <3>1. /\ pass' = 0
          /\ UNCHANGED <<chain, head, listed, rows, sess, latest, started, targets, from, upto,
                         failures, done, steady>>
      BY <1>3, <2>3, OneHead DEF Coupons!StartSync, Coupons!chainVars
    <3>2. Coupons!SyncTypeOK'
      BY <3>1, CouponBounds DEF CouponInv, Coupons!SyncTypeOK, Coupons!ChainTypeOK, Coupons!Listed
    <3>3. CouponChain'
      BY <3>1 DEF CouponInv, CouponSync, CouponChain, Coupons!RegisteredAt, Coupons!Block
    <3>4. CommittedRows'
      BY <3>1 DEF CouponInv, CouponSync, CommittedRows, Shown, FirstOf, CouponEvents, HasRow, Due
    <3>5. RunningSync'
      BY <3>1 DEF RunningSync, Coupons!Listed
    <3> QED BY <3>2, <3>3, <3>4, <3>5 DEF CouponInv, CouponSync
  <2> QED BY <2>2, <2>3
<1> QED BY <1>1, <1>2, <1>3 DEF Coupons!SyncNewLogs

\* ... so does reading the next range of blocks into the session ...
LEMMA RangeRead ==
    ASSUME CouponInv, Coupons!SyncConsume
    PROVE  CouponInv'
<1> DEFINE events == {r[2] : r \in Coupons!InRange("Consume", Len(chain))}
           To == Coupons!To
<1>1. PICK g \in Coupons!Heads : sess' = Coupons!SinkOnConsumeCoupon(sess, events, g)
  BY OneHead DEF Coupons!SyncConsume, Coupons!Read
<1>2. /\ pass = 1
      /\ IF To < upto THEN pass' = 1 /\ from' = To + 1 ELSE pass' = 2 /\ from' = from
      /\ UNCHANGED <<chain, head, listed, rows, latest, started, targets, upto, failures, done,
                     steady>>
  BY CouponBounds DEF Coupons!SyncConsume, Coupons!Read, Coupons!Reading, Coupons!chainVars
<1>3. /\ latest \in Nat /\ done \in Nat /\ from \in Nat /\ upto \in 0..OnCoupons.MaxBlock
      /\ OnCoupons.MaxBlock \in Nat /\ Len(chain) \in Nat /\ OnCoupons.ChunkSize \in Nat \ {0}
  BY CouponNumbers, CouponBounds DEF CouponInv
<1>4. /\ upto <= Len(chain) /\ from <= upto
      /\ Shown(sess, LastShown) /\ rows \subseteq sess
      /\ \A r \in steady : Due(r) /\ r[1] <= upto => r[2].token \in targets
      /\ \A r \in steady : Due(r) /\ r[1] < from => HasRow(sess, r)
  BY <1>2 DEF CouponInv, CouponSync, RunningSync
<1>5. To \in Int /\ from <= To /\ To <= upto
  BY <1>3, <1>4 DEF Coupons!To
<1>6. LastShown \in Nat /\ upto <= LastShown
  BY <1>3 DEF LastShown
<1>7. Shown(sess', LastShown)
  BY <1>1, <1>4, <1>5, <1>3, <1>6, SinkIsSound
<1>8. /\ sess \subseteq sess'
      /\ \A b \in from..To : b \in 1..Len(chain) =>
            \A x \in CouponEvents(b) : x.token \in targets => \E c \in sess' : Coupons!SameKey(c, x)
  <2> DEFINE sink == Coupons!SinkOnConsumeCoupon(sess, events, g)
  <2>1. /\ sess \subseteq sink
        /\ \A b \in from..To : b \in 1..Len(chain) =>
              \A x \in CouponEvents(b) : x.token \in targets =>
                 \E c \in sink : Coupons!SameKey(c, x)
    BY SinkIsComplete
  <2> HIDE DEF sink, To
  <2> QED BY <1>1, <2>1 DEF sink
<1> HIDE DEF To, events
<1>9. \A r \in steady : Due(r) /\ r[1] <= To => HasRow(sess', r)
  <2> SUFFICES ASSUME NEW r \in steady, Due(r), r[1] <= To PROVE HasRow(sess', r)
    OBVIOUS
  <2>1. r[1] \in 1..OnCoupons.MaxBlock /\ r[1] <= Len(chain) /\ r[2] \in chain[r[1]]
    BY DEF CouponInv, CouponSync, CouponChain
  <2>2. CASE r[1] < from
    BY <1>4, <1>8, <2>2 DEF HasRow
  <2>3. CASE from <= r[1]
    <3>1. r[1] \in from..To /\ r[1] \in 1..Len(chain) /\ r[1] <= upto
      BY <1>3, <1>5, <2>1, <2>3
    <3>2. r[2] \in CouponEvents(r[1])
      BY <2>1 DEF Due, CouponEvents
    <3> QED BY <1>4, <1>8, <3>1, <3>2 DEF HasRow
  <2> QED BY <1>3, <2>1, <2>2, <2>3
<1>10. Coupons!SyncTypeOK'
  BY <1>2, <1>3, <1>4, <1>5, CouponBounds
     DEF CouponInv, Coupons!SyncTypeOK, Coupons!ChainTypeOK, Coupons!BlockNumber, Coupons!Listed
<1>11. CouponChain'
  BY <1>2 DEF CouponInv, CouponSync, CouponChain, Coupons!RegisteredAt, Coupons!Block
<1>12. CommittedRows'
  BY <1>2 DEF CouponInv, CouponSync, CommittedRows, Shown, FirstOf, CouponEvents, HasRow, Due
<1>13. RunningSync'
  <2>1. LastShown' = LastShown
    BY <1>2 DEF LastShown
  <2>2. Shown(sess, LastShown)'
    BY <1>2, <1>7, <2>1 DEF Shown, FirstOf, CouponEvents
  <2>3. from' <= upto /\ pass' \in 1..2
    BY <1>2, <1>3, <1>4, <1>5
  <2>4. \A r \in steady : r[1] \in 1..OnCoupons.MaxBlock
    BY DEF CouponInv, CouponSync, CouponChain
  <2>5. \A r \in steady :
           Due(r) /\ (r[1] < from' \/ (pass' = 2 /\ r[1] <= upto)) => HasRow(sess', r)
    <3>1. \A r \in steady : (r[1] < from' \/ (pass' = 2 /\ r[1] <= upto)) => r[1] <= To
      BY <1>2, <1>3, <1>5, <2>4
    <3> QED BY <1>9, <3>1
  <2>6. \A r \in steady : Due(r) /\ r[1] <= upto => r[2].token \in targets
    BY <1>4
  <2> QED BY <1>2, <1>4, <1>8, <2>2, <2>3, <2>5, <2>6 DEF RunningSync, Coupons!Listed, Due, HasRow
<1> QED BY <1>10, <1>11, <1>12, <1>13 DEF CouponInv, CouponSync

\* ... committing the session ...
LEMMA SyncCommitted ==
    ASSUME CouponInv, Coupons!Commit
    PROVE  CouponInv'
<1>1. /\ pass = 2 /\ rows' = sess /\ latest' = upto /\ started' = TRUE /\ pass' = 0
      /\ done' = LastShown
      /\ UNCHANGED <<chain, head, listed, sess, targets, from, upto, failures, steady>>
  BY CouponBounds DEF Coupons!Commit, Coupons!chainVars, LastShown
<1>2. /\ latest \in Nat /\ done \in 0..OnCoupons.MaxBlock /\ upto \in 0..OnCoupons.MaxBlock
      /\ OnCoupons.MaxBlock \in Nat /\ Len(chain) \in Nat
  BY CouponNumbers, CouponBounds DEF CouponInv
<1>3. /\ upto <= Len(chain) /\ Shown(sess, LastShown) /\ rows \subseteq sess
      /\ \A r \in steady : Due(r) /\ r[1] <= upto => HasRow(sess, r)
  BY <1>1 DEF CouponInv, CouponSync, RunningSync
<1>4. done <= Len(chain) /\ \A r \in steady : Due(r) /\ r[1] <= done => HasRow(rows, r)
  BY DEF CouponInv, CouponSync, CommittedRows
<1>5. /\ LastShown \in 0..OnCoupons.MaxBlock /\ upto <= LastShown /\ LastShown <= Len(chain)
      /\ LastShown = upto \/ LastShown = done
  BY <1>2, <1>3, <1>4 DEF LastShown
<1>6. Coupons!SyncTypeOK'
  BY <1>1, <1>2, <1>5, CouponBounds
     DEF CouponInv, Coupons!SyncTypeOK, Coupons!ChainTypeOK, Coupons!BlockNumber, Coupons!Listed
<1>7. CouponChain'
  BY <1>1 DEF CouponInv, CouponSync, CouponChain, Coupons!RegisteredAt, Coupons!Block
<1>8. CommittedRows'
  <2>1. \A r \in steady : Due(r) /\ r[1] <= LastShown => HasRow(sess, r)
    BY <1>3, <1>4, <1>5 DEF HasRow
  <2>2. Shown(rows, done)'
    BY <1>1, <1>3 DEF Shown, FirstOf, CouponEvents
  <2> QED BY <1>1, <1>5, <2>1, <2>2 DEF CommittedRows, HasRow, Due
<1>9. RunningSync'
  BY <1>1 DEF RunningSync, Coupons!Listed
<1> QED BY <1>6, <1>7, <1>8, <1>9 DEF CouponInv, CouponSync

\* ... rolling it back or losing it ...
LEMMA SyncGivenUp ==
    ASSUME CouponInv, Coupons!Fail \/ Coupons!Restart
    PROVE  CouponInv'
<1>1. /\ pass' = 0 /\ failures < OnCoupons.MaxFailures /\ failures' = failures + 1
      /\ latest' \in {latest, 0} /\ (started' = started \/ started' = FALSE)
      /\ UNCHANGED <<chain, head, listed, rows, sess, targets, from, upto, done, steady>>
  BY DEF Coupons!Fail, Coupons!Restart, Coupons!chainVars
<1>2. Coupons!SyncTypeOK'
  <2>1. /\ latest' \in 0..OnCoupons.MaxBlock /\ latest' <= done /\ started' \in BOOLEAN
        /\ failures' \in 0..OnCoupons.MaxFailures
    <3>1. /\ latest \in 0..OnCoupons.MaxBlock /\ done \in 0..OnCoupons.MaxBlock
          /\ latest <= done /\ started \in BOOLEAN /\ failures \in 0..OnCoupons.MaxFailures
      BY CouponNumbers DEF CouponInv
    <3>2. started' \in BOOLEAN
      BY <1>1, <3>1
    <3>3. latest' \in 0..OnCoupons.MaxBlock /\ latest' <= done
      BY <1>1, <3>1, CouponBounds
    <3>4. failures' \in 0..OnCoupons.MaxFailures
      BY <1>1, <3>1, CouponBounds
    <3> QED BY <3>2, <3>3, <3>4
  <2>2. pass' \in -1..Len(OnCoupons.Kinds) + 1
    BY <1>1, CouponBounds
  <2>3. Coupons!ChainTypeOK'
    BY <1>1 DEF CouponInv, Coupons!SyncTypeOK, Coupons!ChainTypeOK, Coupons!BlockNumber
  <2> QED BY <1>1, <2>1, <2>2, <2>3
          DEF CouponInv, Coupons!SyncTypeOK, Coupons!BlockNumber, Coupons!Listed
<1>3. CouponChain'
  BY <1>1 DEF CouponInv, CouponSync, CouponChain, Coupons!RegisteredAt, Coupons!Block
<1>4. CommittedRows'
  BY <1>1 DEF CouponInv, CouponSync, CommittedRows, Shown, FirstOf, CouponEvents, HasRow, Due
<1>5. RunningSync'
  BY <1>1 DEF RunningSync, Coupons!Listed
<1> QED BY <1>2, <1>3, <1>4, <1>5 DEF CouponInv, CouponSync

\* With one node that knows the chain, a new block is known at once, and nothing that was
\* said of the blocks before changes.
LEMMA CouponChainGrows ==
    ASSUME \A m, n \in OnCoupons.Node : m = n, CouponInv, Coupons!ChainNext
    PROVE  /\ \A n \in OnCoupons.Node : head'[n] = Len(chain')
           /\ Len(chain') \in Nat /\ Len(chain) <= Len(chain')
           /\ \A b \in 1..Len(chain') : chain'[b] \in OnCoupons.Contents
           /\ \A b \in 1..Len(chain) : chain'[b] = chain[b]
           /\ \A t \in listed' : Coupons!RegisteredAt(t, Len(chain))'
<1>0. /\ chain \in Seq(SUBSET OnCoupons.Event) /\ Len(chain) \in Nat
      /\ \A n \in OnCoupons.Node : head[n] = Len(chain)
      /\ \A b \in 1..Len(chain) : chain[b] \in OnCoupons.Contents
      /\ \A t \in listed : Coupons!RegisteredAt(t, Len(chain))
      /\ OnCoupons.MaxBlock \in Nat
  BY CouponNumbers, CouponBounds DEF CouponInv, CouponSync, CouponChain
<1>1. CASE Coupons!Mine
  <2>1. PICK block \in OnCoupons.Contents, S \in (SUBSET OnCoupons.Node) \ {{}} :
           /\ chain' = Append(chain, block)
           /\ head' = [n \in OnCoupons.Node |-> IF n \in S THEN Len(chain) + 1 ELSE head[n]]
    BY <1>1 DEF Coupons!Mine
  <2>2. block \in SUBSET OnCoupons.Event
    BY CouponLedgerAssumption DEF Coupons!Assumption
  <2>3. /\ Len(chain') = Len(chain) + 1 /\ chain'[Len(chain) + 1] = block
        /\ \A b \in 1..Len(chain) : chain'[b] = chain[b]
    BY <1>0, <2>1, <2>2
  <2>4. \A n \in OnCoupons.Node : n \in S
    BY <2>1
  <2>5. \A b \in 1..Len(chain') : b \in 1..Len(chain) \/ b = Len(chain) + 1
    BY <1>0, <2>3
  <2>6. \A b \in 1..Len(chain') : chain'[b] \in OnCoupons.Contents
    BY <1>0, <2>1, <2>3, <2>5
  <2>7. ASSUME NEW t \in listed' PROVE Coupons!RegisteredAt(t, Len(chain))'
    <3>1. Coupons!RegisteredAt(t, Len(chain))
      BY <1>0, <1>1, <2>7 DEF Coupons!Mine
    <3>2. PICK b \in 1..OnCoupons.MaxBlock :
             b <= Len(chain) /\ \E e \in chain[b] : e.token = t /\ e.kind = "Register"
      BY <3>1 DEF Coupons!RegisteredAt, Coupons!Block
    <3>3. chain'[b] = chain[b] /\ b <= Len(chain')
      BY <1>0, <2>3, <3>2
    <3> QED BY <3>2, <3>3 DEF Coupons!RegisteredAt, Coupons!Block
  <2> QED BY <1>0, <2>1, <2>3, <2>4, <2>6, <2>7
<1>2. CASE Coupons!CatchUp
  BY <1>0, <1>2 DEF Coupons!CatchUp
<1>3. CASE Coupons!RegisterAdminToken
  <2>1. UNCHANGED <<chain, head>>
    BY <1>3 DEF Coupons!RegisterAdminToken
  <2>2. \A t \in listed' : Coupons!RegisteredAt(t, Len(chain))
    BY <1>0, <1>3 DEF Coupons!RegisterAdminToken
  <2> QED BY <1>0, <2>1, <2>2 DEF Coupons!RegisteredAt, Coupons!Block
<1>4. CASE Coupons!DeleteToken
  <2>1. UNCHANGED <<chain, head>> /\ listed' \subseteq listed
    BY <1>4 DEF Coupons!DeleteToken
  <2> QED BY <1>0, <2>1 DEF Coupons!RegisteredAt, Coupons!Block
<1> QED BY <1>1, <1>2, <1>3, <1>4 DEF Coupons!ChainNext

\* ... and what the chain and the listing do meanwhile.
LEMMA CouponWorldGoesOn ==
    ASSUME \A m, n \in OnCoupons.Node : m = n, CouponInv, Coupons!World
    PROVE  CouponInv'
<1>1. Coupons!ChainNext /\ UNCHANGED <<rows, sess, latest, started, targets, from, upto, pass,
                                       failures, done>>
  BY DEF Coupons!World, Coupons!syncVars
<1>2. /\ latest \in Nat /\ done \in Nat /\ from \in Nat /\ upto \in Nat
      /\ OnCoupons.MaxBlock \in Nat /\ Len(chain) \in Nat /\ done <= Len(chain)
  BY CouponNumbers, CouponBounds DEF CouponInv, CouponSync, CommittedRows
<1>3. /\ Len(chain') \in Nat /\ Len(chain) <= Len(chain')
      /\ \A b \in 1..Len(chain) : chain'[b] = chain[b]
  BY <1>1, CouponChainGrows
<1>4. \A r \in steady' :
         \/ r \in steady /\ r[2].token \in listed'
         \/ /\ r \in (1..OnCoupons.MaxBlock) \X OnCoupons.Event
            /\ r[1] = Len(chain') /\ r[1] > Len(chain) /\ r[2] \in chain'[r[1]]
            /\ r[2].token \in listed' /\ (pass = -1 => r[2].token \in targets)
  BY DEF Coupons!World, Coupons!Block, Coupons!Listed
<1>5. Coupons!SyncTypeOK'
  <2>1. Coupons!ChainTypeOK'
    BY <1>1, CouponChainTyped DEF CouponInv, Coupons!SyncTypeOK
  <2> QED BY <1>1, <2>1 DEF CouponInv, Coupons!SyncTypeOK, Coupons!BlockNumber
<1>6. CouponChain'
  <2>1. ASSUME NEW r \in steady'
        PROVE  /\ r \in (1..OnCoupons.MaxBlock) \X OnCoupons.Event
               /\ r[1] <= Len(chain') /\ r[2] \in chain'[r[1]] /\ r[2].token \in listed'
    <3>1. CASE r \in steady /\ r[2].token \in listed'
      <4>1. /\ r \in (1..OnCoupons.MaxBlock) \X OnCoupons.Event
            /\ r[1] <= Len(chain) /\ r[2] \in chain[r[1]]
        BY <3>1 DEF CouponInv, CouponSync, CouponChain
      <4>2. r[1] \in 1..Len(chain) /\ r[1] <= Len(chain')
        BY <1>2, <1>3, <4>1
      <4> QED BY <1>3, <3>1, <4>1, <4>2
    <3> QED BY <1>3, <1>4, <3>1
  <2> QED BY <1>1, <2>1, CouponChainGrows DEF CouponChain
<1>7. ASSUME NEW table, NEW n \in Int, n <= Len(chain), Shown(table, n)
      PROVE  \A c \in table : \E b \in 1..n : FirstOf(c, b)'
  <2>1. \A b \in 1..n : b \in 1..Len(chain)
    BY <1>2, <1>7
  <2>2. \A b \in 1..n : CouponEvents(b)' = CouponEvents(b)
    BY <1>3, <2>1 DEF CouponEvents
  <2> QED BY <1>7, <2>2 DEF Shown, FirstOf
<1>8. \A r \in steady' : r[1] <= Len(chain) => r \in steady
  <2>1. \A r \in (1..OnCoupons.MaxBlock) \X OnCoupons.Event :
           ~(r[1] > Len(chain) /\ r[1] <= Len(chain))
    BY <1>2
  <2> QED BY <1>4, <2>1
<1>9. CommittedRows'
  <2>1. Shown(rows, done)
    BY DEF CouponInv, CouponSync, CommittedRows
  <2>2. Shown(rows, done)'
    BY <1>1, <1>2, <1>7, <2>1 DEF Shown
  <2>3. \A r \in steady' : r[1] \in 1..OnCoupons.MaxBlock
    BY <1>6 DEF CouponChain
  <2>4. \A r \in steady' : r[1] <= done => r \in steady
    BY <1>2, <1>8, <2>3
  <2>5. \A r \in steady' : Due(r) /\ r[1] <= done => HasRow(rows, r)
    BY <2>4 DEF CouponInv, CouponSync, CommittedRows
  <2>6. done <= Len(chain')
    BY <1>2, <1>3
  <2> QED BY <1>1, <2>2, <2>5, <2>6 DEF CommittedRows, HasRow, Due
<1>10. RunningSync'
  <2>1. pass = -1 => \A r \in steady' : Due(r) => r[2].token \in targets
    BY <1>4 DEF CouponInv, CouponSync, RunningSync, Coupons!Listed
  <2>2. CASE pass \in 1..2
    <3>1. /\ upto <= Len(chain) /\ from <= upto
          /\ Shown(sess, LastShown) /\ rows \subseteq sess
          /\ \A r \in steady : Due(r) /\ r[1] <= upto => r[2].token \in targets
          /\ \A r \in steady :
                Due(r) /\ (r[1] < from \/ (pass = 2 /\ r[1] <= upto)) => HasRow(sess, r)
      BY <2>2 DEF CouponInv, CouponSync, RunningSync
    <3>2. LastShown \in Int /\ LastShown <= Len(chain) /\ LastShown' = LastShown
      BY <1>1, <1>2, <3>1 DEF LastShown
    <3>3. Shown(sess, LastShown)'
      BY <1>1, <1>7, <3>1, <3>2 DEF Shown
    <3>4. \A r \in steady' : r[1] \in 1..OnCoupons.MaxBlock
      BY <1>6 DEF CouponChain
    <3>5. \A r \in steady' : r[1] <= upto => r \in steady
      BY <1>2, <1>8, <3>1, <3>4
    <3>6. \A r \in steady' : r[1] < from => r \in steady
      BY <1>2, <3>1, <3>4, <3>5
    <3>7. upto <= Len(chain')
      BY <1>2, <1>3, <3>1
    <3> QED BY <1>1, <2>1, <3>1, <3>3, <3>5, <3>6, <3>7
            DEF RunningSync, Coupons!Listed, Due, HasRow
  <2>3. CASE ~(pass \in 1..2)
    BY <1>1, <2>1, <2>3 DEF RunningSync, Coupons!Listed, Due
  <2> QED BY <2>2, <2>3
<1> QED BY <1>5, <1>6, <1>9, <1>10 DEF CouponInv, CouponSync

\* Nothing is read at first.
LEMMA CouponBegin == Coupons!Init => CouponInv
<1> SUFFICES ASSUME Coupons!Init PROVE CouponInv
  OBVIOUS
<1>1. /\ chain = <<>> /\ head = [n \in OnCoupons.Node |-> 0] /\ listed = {}
      /\ rows = {} /\ sess = {} /\ latest = 0 /\ started = FALSE /\ targets = {} /\ from = 0
      /\ upto = 0 /\ pass = 0 /\ failures = 0 /\ done = 0 /\ steady = {}
  BY CouponLedgerAssumption
     DEF Coupons!Init, Coupons!SyncInit, Coupons!ChainInit, Coupons!Assumption
<1>2. Coupons!SyncTypeOK
  <2>1. Coupons!ChainTypeOK
    BY <1>1, CouponBounds DEF Coupons!ChainTypeOK, Coupons!BlockNumber
  <2>2. pass \in -1..Len(OnCoupons.Kinds) + 1 /\ from \in 0..OnCoupons.MaxBlock + 1
    BY <1>1, CouponBounds
  <2>3. started \in BOOLEAN
    BY <1>1
  <2>4. /\ latest \in 0..OnCoupons.MaxBlock /\ done \in 0..OnCoupons.MaxBlock /\ latest <= done
        /\ upto \in 0..OnCoupons.MaxBlock /\ targets \subseteq OnCoupons.Token
        /\ failures \in 0..OnCoupons.MaxFailures
    BY <1>1, CouponBounds
  <2> QED BY <2>1, <2>2, <2>3, <2>4
          DEF Coupons!SyncTypeOK, Coupons!BlockNumber, Coupons!Listed
<1> QED BY <1>1, <1>2 DEF CouponInv, CouponSync, CouponChain, CommittedRows, RunningSync, Shown,
                          Coupons!Listed

\* CouponInv, where consumptions run.
CouponLedgerInv == which = "coupon" => CouponInv

\* Every step of the group keeps it.
LEMMA CouponStep ==
    ASSUME \A m, n \in OnCoupons.Node : m = n, CouponLedgerInv, [LedgersNext]_ledgerVars
    PROVE  CouponLedgerInv'
<1> SUFFICES ASSUME which' = "coupon" PROVE CouponInv'
  BY DEF CouponLedgerInv
<1>1. CouponInv /\ (CouponNext \/ UNCHANGED ledgerVars)
  BY StepOfOne DEF CouponLedgerInv
<1>2. CASE CouponNext
  BY <1>1, <1>2, SyncBegun, RangeRead, SyncCommitted, SyncGivenUp, CouponWorldGoesOn
     DEF CouponNext, Coupons!Next
<1>3. CASE UNCHANGED ledgerVars
  <2>1. UNCHANGED CouponVars
    BY <1>3 DEF ledgerVars, tables, vars, logOnly, CouponVars
  <2>2. Coupons!SyncTypeOK'
    BY <1>1, <2>1
       DEF CouponVars, CouponInv, Coupons!SyncTypeOK, Coupons!ChainTypeOK, Coupons!BlockNumber
  <2>3. CouponChain'
    BY <1>1, <2>1
       DEF CouponVars, CouponInv, CouponSync, CouponChain, Coupons!RegisteredAt, Coupons!Block
  <2>4. CommittedRows'
    BY <1>1, <2>1 DEF CouponVars, CouponInv, CouponSync, CommittedRows, Shown, FirstOf,
                      CouponEvents, HasRow, Due
  <2>5. RunningSync'
    BY <1>1, <2>1 DEF CouponVars, CouponInv, CouponSync, RunningSync, LastShown, Shown, FirstOf,
                      CouponEvents, HasRow, Due, Coupons!Listed
  <2> QED BY <2>2, <2>3, <2>4, <2>5 DEF CouponInv, CouponSync
<1> QED BY <1>1, <1>2, <1>3

\* With one node: every row shows the first consumption of its account in its transaction,
\* none is shown twice, and none of a token that stayed listed is missing, whatever ranges,
\* failures and restarts there were.
THEOREM ConsumptionsAlwaysAsOnChain ==
    ASSUME \A m, n \in OnCoupons.Node : m = n
    PROVE  LedgersSpec => []ConsumptionsAsOnChain
<1>1. LedgersInit => CouponLedgerInv
  BY BeginningOfOne, CouponBegin DEF CouponLedgerInv, CouponInit
<1>2. CouponLedgerInv => ConsumptionsAsOnChain
  <2> SUFFICES ASSUME CouponInv
               PROVE  /\ Coupons!SyncTypeOK /\ Coupons!ConsumptionsAsOnChain
                      /\ Coupons!ConsumptionsKept
    BY DEF CouponLedgerInv, ConsumptionsAsOnChain
  <2>0. done \in Int /\ Len(chain) \in Nat /\ done <= Len(chain)
    BY CouponNumbers, CouponBounds DEF CouponInv, CouponSync, CommittedRows
  <2>1. Coupons!ConsumptionsKept
    BY DEF CouponInv, CouponSync, CommittedRows, Due, HasRow, Coupons!ConsumptionsKept
  <2>2. ASSUME NEW c \in rows
        PROVE  \E e \in Coupons!Committed("Consume") :
                  /\ Coupons!Counted(e) /\ c = Coupons!Consumption(e)
                  /\ Coupons!First(e, {x \in Coupons!Committed("Consume") : Coupons!Counted(x)})
    <3>1. PICK b \in 1..done : FirstOf(c, b)
      BY DEF CouponInv, CouponSync, CommittedRows, Shown
    <3>2. PICK e \in CouponEvents(b) :
             c = Coupons!Consumption(e) /\ Coupons!First(e, CouponEvents(b))
      BY <3>1 DEF FirstOf
    <3>3. \A a \in 1..done : /\ chain[a] \in OnCoupons.Contents
                             /\ chain[a] \in SUBSET OnCoupons.Event
      BY <2>0, CouponLedgerAssumption
         DEF CouponInv, CouponSync, CouponChain, Coupons!Assumption
    <3>4. ASSUME NEW x \in Coupons!Committed("Consume"), Coupons!Counted(x), Coupons!SameKey(x, e)
          PROVE  e.log <= x.log
      <4>1. PICK a \in 1..done : x \in chain[a] /\ x.kind = "Consume"
        BY DEF Coupons!Committed
      <4>2. x.tx = e.tx /\ e \in chain[b] /\ e.kind = "Consume"
        BY <3>4 DEF Coupons!SameKey, CouponEvents
      <4>3. chain[a] = chain[b]
        BY <3>3, <4>1, <4>2, CouponLedgerAssumption DEF Coupons!Assumption
      <4>4. x \in CouponEvents(b)
        BY <3>4, <4>1, <4>3 DEF CouponEvents
      <4> QED BY <3>2, <3>4, <4>4 DEF Coupons!First
    <3>5. e \in Coupons!Committed("Consume") /\ Coupons!Counted(e)
      BY <3>3 DEF CouponEvents, Coupons!Committed
    <3> QED BY <3>2, <3>4, <3>5 DEF Coupons!First
  <2>3. Coupons!ConsumptionsAsOnChain
    BY <2>2 DEF CouponInv, CouponSync, CommittedRows, Shown, Coupons!ConsumptionsAsOnChain
  <2> QED BY <2>1, <2>3 DEF CouponInv
<1> QED BY <1>1, <1>2, CouponStep, PTL DEF LedgersSpec

------------------------------------------------------------------------------
(* Notifications: the lemmas of Notifications_proofs, for the watchers of each process. *)

NP == INSTANCE Notifications_proofs WITH
    Token <- OnTokenNotes.Token, Node <- OnTokenNotes.Node, Event <- OnTokenNotes.Event,
    Contents <- OnTokenNotes.Contents, MaxBlock <- OnTokenNotes.MaxBlock, number <- synced,
    Address <- OnTokenNotes.Address, Contract <- OnTokenNotes.Contract,
    TemplateOf <- OnTokenNotes.TemplateOf, Groups <- OnTokenNotes.Groups,
    ChunkSize <- OnTokenNotes.ChunkSize, MaxFailures <- OnTokenNotes.MaxFailures

CP == INSTANCE Notifications_proofs WITH
    Token <- OnCouponNotes.Token, Node <- OnCouponNotes.Node, Event <- OnCouponNotes.Event,
    Contents <- OnCouponNotes.Contents, MaxBlock <- OnCouponNotes.MaxBlock, number <- synced,
    Address <- OnCouponNotes.Address, Contract <- OnCouponNotes.Contract,
    TemplateOf <- OnCouponNotes.TemplateOf, Groups <- OnCouponNotes.Groups,
    ChunkSize <- OnCouponNotes.ChunkSize, MaxFailures <- OnCouponNotes.MaxFailures

MP == INSTANCE Notifications_proofs WITH
    Token <- OnMembershipNotes.Token, Node <- OnMembershipNotes.Node,
    Event <- OnMembershipNotes.Event, Contents <- OnMembershipNotes.Contents,
    MaxBlock <- OnMembershipNotes.MaxBlock, number <- synced,
    Address <- OnMembershipNotes.Address, Contract <- OnMembershipNotes.Contract,
    TemplateOf <- OnMembershipNotes.TemplateOf, Groups <- OnMembershipNotes.Groups,
    ChunkSize <- OnMembershipNotes.ChunkSize, MaxFailures <- OnMembershipNotes.MaxFailures

\* The watchers of this process are those the theorems are about: each type, and each side
\* of an event, has one.
LEMMA TokenNotesFit == NP!Fit(TokenNotes!Watchers)
BY DEF NP!Fit, TokenNotes!Watchers, TokenNotes!WatchTransfer, TokenNotes!WatchApplyForTransfer,
       TokenNotes!WatchApproveTransfer, TokenNotes!WatchCancelTransfer, TokenNotes!WatchForceLock,
       TokenNotes!WatchForceUnlock, TokenNotes!WatchChangeToRedeemed,
       TokenNotes!WatchChangeToCanceled, TokenNotes!EventWatcher, TokenNotes!Templates

\* Its initial state is theirs.
LEMMA TokenNotesBegin == TokenNotes!Init => NP!NotificationsInit(TokenNotes!Watchers)
BY DEF TokenNotes!Init, TokenNotes!NotificationsInit, NP!NotificationsInit,
       TokenNotes!ChainInit, NP!ChainInit,
       TokenNotes!WatcherType, NP!WatcherType, TokenNotes!Source, NP!Source

\* So are its steps, one by one.
LEMMA TokenNotesActions ==
    /\ \A w, cs : TokenNotes!Begin(w, cs) => NP!Begin(w, cs)
    /\ \A w : TokenNotes!UpToDate(w) => NP!UpToDate(w)
    /\ \A w : TokenNotes!WatchContract(w) => NP!WatchContract(w)
    /\ \A w : TokenNotes!LogsFail(w) => NP!LogsFail(w)
    /\ \A w : TokenNotes!EndPass(w) => NP!EndPass(w)
    /\ TokenNotes!Api => NP!Api
    /\ TokenNotes!ChainNext => NP!ChainNext
    /\ TokenNotes!NotificationsFrame => NP!NotificationsFrame
<1>1. \A w, cs : TokenNotes!Begin(w, cs) => NP!Begin(w, cs)
  BY DEF TokenNotes!Begin, NP!Begin, TokenNotes!chainVars, NP!chainVars
<1>2. \A w : TokenNotes!UpToDate(w) => NP!UpToDate(w)
  BY DEF TokenNotes!UpToDate, NP!UpToDate, TokenNotes!SynchronizedNumber, NP!SynchronizedNumber,
         TokenNotes!chainVars, NP!chainVars
<1>3. \A w : TokenNotes!WatchContract(w) => NP!WatchContract(w)
  BY ZenonT(60) DEF TokenNotes!WatchContract, NP!WatchContract, TokenNotes!SynchronizedNumber,
         NP!SynchronizedNumber, TokenNotes!LastOfRange, NP!LastOfRange, TokenNotes!Merge,
         NP!Merge, TokenNotes!Note, NP!Note, TokenNotes!Entries, NP!Entries, TokenNotes!Reported,
         NP!Reported, TokenNotes!SetSynchronizedNumber, NP!SetSynchronizedNumber,
         TokenNotes!chainVars, NP!chainVars, TokenNotes!NotificationId, NP!NotificationId,
         TokenNotes!Whom, NP!Whom, TokenNotes!Block, NP!Block, TokenNotes!Source, NP!Source,
         TokenNotes!RegisteredAt, NP!RegisteredAt
<1>4. \A w : TokenNotes!LogsFail(w) => NP!LogsFail(w)
  BY DEF TokenNotes!LogsFail, NP!LogsFail, TokenNotes!SynchronizedNumber, NP!SynchronizedNumber,
         TokenNotes!chainVars, NP!chainVars
<1>5. \A w : TokenNotes!EndPass(w) => NP!EndPass(w)
  BY DEF TokenNotes!EndPass, NP!EndPass, TokenNotes!chainVars, NP!chainVars
<1>6. TokenNotes!Api => NP!Api
  BY DEF TokenNotes!Api, NP!Api, TokenNotes!ReadAll, NP!ReadAll, TokenNotes!Update, NP!Update,
         TokenNotes!Delete, NP!Delete, TokenNotes!apiVars, NP!apiVars, TokenNotes!chainVars,
         NP!chainVars
<1>7. TokenNotes!ChainNext => NP!ChainNext
  BY DEF TokenNotes!ChainNext, NP!ChainNext, TokenNotes!Mine, NP!Mine, TokenNotes!CatchUp,
         NP!CatchUp, TokenNotes!RegisterAdminToken, NP!RegisterAdminToken, TokenNotes!DeleteToken,
         NP!DeleteToken, TokenNotes!RegisteredAt, NP!RegisteredAt, TokenNotes!Block, NP!Block
<1>8. TokenNotes!NotificationsFrame => NP!NotificationsFrame
  BY DEF TokenNotes!NotificationsFrame, NP!NotificationsFrame
<1> QED BY <1>1, <1>2, <1>3, <1>4, <1>5, <1>6, <1>7, <1>8

\* So are its properties.
LEMMA TokenNotesProperties ==
    /\ NP!NotificationsTypeOK => TokenNotes!NotificationsTypeOK
    /\ NP!EveryEventNotified => TokenNotes!EveryEventNotified
    /\ NP!NothingElseNotified => TokenNotes!NothingElseNotified
<1>1. NP!NotificationsTypeOK => TokenNotes!NotificationsTypeOK
  BY DEF TokenNotes!NotificationsTypeOK, NP!NotificationsTypeOK, TokenNotes!ChainTypeOK,
         NP!ChainTypeOK, TokenNotes!Block, NP!Block, TokenNotes!Source, NP!Source,
         TokenNotes!WatcherType, NP!WatcherType, TokenNotes!BlockNumber, NP!BlockNumber,
         TokenNotes!ToSet, NP!ToSet
<1>2. NP!EveryEventNotified => TokenNotes!EveryEventNotified
  BY DEF TokenNotes!EveryEventNotified, NP!EveryEventNotified, TokenNotes!Source, NP!Source,
         TokenNotes!Entries, NP!Entries, TokenNotes!Reported, NP!Reported,
         TokenNotes!NotificationId, NP!NotificationId, TokenNotes!ListAllNotifications,
         NP!ListAllNotifications, TokenNotes!Whom, NP!Whom, TokenNotes!Block, NP!Block,
         TokenNotes!RegisteredAt, NP!RegisteredAt
<1>3. NP!NothingElseNotified => TokenNotes!NothingElseNotified
  BY DEF TokenNotes!NothingElseNotified, NP!NothingElseNotified, TokenNotes!Source, NP!Source,
         TokenNotes!Entries, NP!Entries, TokenNotes!NotificationId, NP!NotificationId,
         TokenNotes!RegisteredAt, NP!RegisteredAt, TokenNotes!Block, NP!Block
<1> QED BY <1>1, <1>2, <1>3

\* The watchers of this process are those the theorems are about: each type, and each side
\* of an event, has one.
LEMMA CouponNotesFit == CP!Fit(CouponNotes!Watchers)
BY DEF CP!Fit, CouponNotes!Watchers, CouponNotes!WatchCouponNewOrder,
       CouponNotes!WatchCouponCancelOrder, CouponNotes!WatchCouponForceCancelOrder,
       CouponNotes!WatchCouponBuyAgreement, CouponNotes!WatchCouponSellAgreement,
       CouponNotes!WatchCouponBuySettlementOK, CouponNotes!WatchCouponSellSettlementOK,
       CouponNotes!WatchCouponBuySettlementNG, CouponNotes!WatchCouponSellSettlementNG,
       CouponNotes!WatchCoupon

\* Its initial state is theirs.
LEMMA CouponNotesBegin == CouponNotes!Init => CP!NotificationsInit(CouponNotes!Watchers)
BY DEF CouponNotes!Init, CouponNotes!NotificationsInit, CP!NotificationsInit,
       CouponNotes!ChainInit, CP!ChainInit,
       CouponNotes!WatcherType, CP!WatcherType, CouponNotes!Source, CP!Source

\* So are its steps, one by one.
LEMMA CouponNotesActions ==
    /\ \A w, cs : CouponNotes!Begin(w, cs) => CP!Begin(w, cs)
    /\ \A w : CouponNotes!UpToDate(w) => CP!UpToDate(w)
    /\ \A w : CouponNotes!WatchContract(w) => CP!WatchContract(w)
    /\ \A w : CouponNotes!LogsFail(w) => CP!LogsFail(w)
    /\ \A w : CouponNotes!EndPass(w) => CP!EndPass(w)
    /\ CouponNotes!Api => CP!Api
    /\ CouponNotes!ChainNext => CP!ChainNext
    /\ CouponNotes!NotificationsFrame => CP!NotificationsFrame
<1>1. \A w, cs : CouponNotes!Begin(w, cs) => CP!Begin(w, cs)
  BY DEF CouponNotes!Begin, CP!Begin, CouponNotes!chainVars, CP!chainVars
<1>2. \A w : CouponNotes!UpToDate(w) => CP!UpToDate(w)
  BY DEF CouponNotes!UpToDate, CP!UpToDate, CouponNotes!SynchronizedNumber, CP!SynchronizedNumber,
         CouponNotes!chainVars, CP!chainVars
<1>3. \A w : CouponNotes!WatchContract(w) => CP!WatchContract(w)
  BY ZenonT(60) DEF CouponNotes!WatchContract, CP!WatchContract, CouponNotes!SynchronizedNumber,
         CP!SynchronizedNumber, CouponNotes!LastOfRange, CP!LastOfRange, CouponNotes!Merge,
         CP!Merge, CouponNotes!Note, CP!Note, CouponNotes!Entries, CP!Entries,
         CouponNotes!Reported, CP!Reported, CouponNotes!SetSynchronizedNumber,
         CP!SetSynchronizedNumber, CouponNotes!chainVars, CP!chainVars,
         CouponNotes!NotificationId, CP!NotificationId, CouponNotes!Whom, CP!Whom,
         CouponNotes!Block, CP!Block, CouponNotes!Source, CP!Source, CouponNotes!RegisteredAt,
         CP!RegisteredAt
<1>4. \A w : CouponNotes!LogsFail(w) => CP!LogsFail(w)
  BY DEF CouponNotes!LogsFail, CP!LogsFail, CouponNotes!SynchronizedNumber, CP!SynchronizedNumber,
         CouponNotes!chainVars, CP!chainVars
<1>5. \A w : CouponNotes!EndPass(w) => CP!EndPass(w)
  BY DEF CouponNotes!EndPass, CP!EndPass, CouponNotes!chainVars, CP!chainVars
<1>6. CouponNotes!Api => CP!Api
  BY DEF CouponNotes!Api, CP!Api, CouponNotes!ReadAll, CP!ReadAll, CouponNotes!Update, CP!Update,
         CouponNotes!Delete, CP!Delete, CouponNotes!apiVars, CP!apiVars, CouponNotes!chainVars,
         CP!chainVars
<1>7. CouponNotes!ChainNext => CP!ChainNext
  BY DEF CouponNotes!ChainNext, CP!ChainNext, CouponNotes!Mine, CP!Mine, CouponNotes!CatchUp,
         CP!CatchUp, CouponNotes!RegisterAdminToken, CP!RegisterAdminToken,
         CouponNotes!DeleteToken, CP!DeleteToken, CouponNotes!RegisteredAt, CP!RegisteredAt,
         CouponNotes!Block, CP!Block
<1>8. CouponNotes!NotificationsFrame => CP!NotificationsFrame
  BY DEF CouponNotes!NotificationsFrame, CP!NotificationsFrame
<1> QED BY <1>1, <1>2, <1>3, <1>4, <1>5, <1>6, <1>7, <1>8

\* So are its properties.
LEMMA CouponNotesProperties ==
    /\ CP!NotificationsTypeOK => CouponNotes!NotificationsTypeOK
    /\ CP!EveryEventNotified => CouponNotes!EveryEventNotified
    /\ CP!NothingElseNotified => CouponNotes!NothingElseNotified
<1>1. CP!NotificationsTypeOK => CouponNotes!NotificationsTypeOK
  BY DEF CouponNotes!NotificationsTypeOK, CP!NotificationsTypeOK, CouponNotes!ChainTypeOK,
         CP!ChainTypeOK, CouponNotes!Block, CP!Block, CouponNotes!Source, CP!Source,
         CouponNotes!WatcherType, CP!WatcherType, CouponNotes!BlockNumber, CP!BlockNumber,
         CouponNotes!ToSet, CP!ToSet
<1>2. CP!EveryEventNotified => CouponNotes!EveryEventNotified
  BY DEF CouponNotes!EveryEventNotified, CP!EveryEventNotified, CouponNotes!Source, CP!Source,
         CouponNotes!Entries, CP!Entries, CouponNotes!Reported, CP!Reported,
         CouponNotes!NotificationId, CP!NotificationId, CouponNotes!ListAllNotifications,
         CP!ListAllNotifications, CouponNotes!Whom, CP!Whom, CouponNotes!Block, CP!Block,
         CouponNotes!RegisteredAt, CP!RegisteredAt
<1>3. CP!NothingElseNotified => CouponNotes!NothingElseNotified
  BY DEF CouponNotes!NothingElseNotified, CP!NothingElseNotified, CouponNotes!Source, CP!Source,
         CouponNotes!Entries, CP!Entries, CouponNotes!NotificationId, CP!NotificationId,
         CouponNotes!RegisteredAt, CP!RegisteredAt, CouponNotes!Block, CP!Block
<1> QED BY <1>1, <1>2, <1>3

\* The watchers of this process are those the theorems are about: each type, and each side
\* of an event, has one.
LEMMA MembershipNotesFit == MP!Fit(MembershipNotes!Watchers)
BY DEF MP!Fit, MembershipNotes!Watchers, MembershipNotes!WatchMembershipNewOrder,
       MembershipNotes!WatchMembershipCancelOrder,
       MembershipNotes!WatchMembershipForceCancelOrder,
       MembershipNotes!WatchMembershipBuyAgreement, MembershipNotes!WatchMembershipSellAgreement,
       MembershipNotes!WatchMembershipBuySettlementOK,
       MembershipNotes!WatchMembershipSellSettlementOK,
       MembershipNotes!WatchMembershipBuySettlementNG,
       MembershipNotes!WatchMembershipSellSettlementNG, MembershipNotes!WatchMembership

\* Its initial state is theirs.
LEMMA MembershipNotesBegin == MembershipNotes!Init => MP!NotificationsInit(MembershipNotes!Watchers)
BY DEF MembershipNotes!Init, MembershipNotes!NotificationsInit, MP!NotificationsInit,
       MembershipNotes!ChainInit,
       MP!ChainInit, MembershipNotes!WatcherType, MP!WatcherType, MembershipNotes!Source,
       MP!Source

\* So are its steps, one by one.
LEMMA MembershipNotesActions ==
    /\ \A w, cs : MembershipNotes!Begin(w, cs) => MP!Begin(w, cs)
    /\ \A w : MembershipNotes!UpToDate(w) => MP!UpToDate(w)
    /\ \A w : MembershipNotes!WatchContract(w) => MP!WatchContract(w)
    /\ \A w : MembershipNotes!LogsFail(w) => MP!LogsFail(w)
    /\ \A w : MembershipNotes!EndPass(w) => MP!EndPass(w)
    /\ MembershipNotes!Api => MP!Api
    /\ MembershipNotes!ChainNext => MP!ChainNext
    /\ MembershipNotes!NotificationsFrame => MP!NotificationsFrame
<1>1. \A w, cs : MembershipNotes!Begin(w, cs) => MP!Begin(w, cs)
  BY DEF MembershipNotes!Begin, MP!Begin, MembershipNotes!chainVars, MP!chainVars
<1>2. \A w : MembershipNotes!UpToDate(w) => MP!UpToDate(w)
  BY DEF MembershipNotes!UpToDate, MP!UpToDate, MembershipNotes!SynchronizedNumber,
         MP!SynchronizedNumber, MembershipNotes!chainVars, MP!chainVars
<1>3. \A w : MembershipNotes!WatchContract(w) => MP!WatchContract(w)
  BY ZenonT(60)
     DEF MembershipNotes!WatchContract, MP!WatchContract, MembershipNotes!SynchronizedNumber,
         MP!SynchronizedNumber, MembershipNotes!LastOfRange, MP!LastOfRange,
         MembershipNotes!Merge, MP!Merge, MembershipNotes!Note, MP!Note, MembershipNotes!Entries,
         MP!Entries, MembershipNotes!Reported, MP!Reported, MembershipNotes!SetSynchronizedNumber,
         MP!SetSynchronizedNumber, MembershipNotes!chainVars, MP!chainVars,
         MembershipNotes!NotificationId, MP!NotificationId, MembershipNotes!Whom, MP!Whom,
         MembershipNotes!Block, MP!Block, MembershipNotes!Source, MP!Source,
         MembershipNotes!RegisteredAt, MP!RegisteredAt
<1>4. \A w : MembershipNotes!LogsFail(w) => MP!LogsFail(w)
  BY DEF MembershipNotes!LogsFail, MP!LogsFail, MembershipNotes!SynchronizedNumber,
         MP!SynchronizedNumber, MembershipNotes!chainVars, MP!chainVars
<1>5. \A w : MembershipNotes!EndPass(w) => MP!EndPass(w)
  BY DEF MembershipNotes!EndPass, MP!EndPass, MembershipNotes!chainVars, MP!chainVars
<1>6. MembershipNotes!Api => MP!Api
  BY DEF MembershipNotes!Api, MP!Api, MembershipNotes!ReadAll, MP!ReadAll, MembershipNotes!Update,
         MP!Update, MembershipNotes!Delete, MP!Delete, MembershipNotes!apiVars, MP!apiVars,
         MembershipNotes!chainVars, MP!chainVars
<1>7. MembershipNotes!ChainNext => MP!ChainNext
  BY DEF MembershipNotes!ChainNext, MP!ChainNext, MembershipNotes!Mine, MP!Mine,
         MembershipNotes!CatchUp, MP!CatchUp, MembershipNotes!RegisterAdminToken,
         MP!RegisterAdminToken, MembershipNotes!DeleteToken, MP!DeleteToken,
         MembershipNotes!RegisteredAt, MP!RegisteredAt, MembershipNotes!Block, MP!Block
<1>8. MembershipNotes!NotificationsFrame => MP!NotificationsFrame
  BY DEF MembershipNotes!NotificationsFrame, MP!NotificationsFrame
<1> QED BY <1>1, <1>2, <1>3, <1>4, <1>5, <1>6, <1>7, <1>8

\* So are its properties.
LEMMA MembershipNotesProperties ==
    /\ MP!NotificationsTypeOK => MembershipNotes!NotificationsTypeOK
    /\ MP!EveryEventNotified => MembershipNotes!EveryEventNotified
    /\ MP!NothingElseNotified => MembershipNotes!NothingElseNotified
<1>1. MP!NotificationsTypeOK => MembershipNotes!NotificationsTypeOK
  BY DEF MembershipNotes!NotificationsTypeOK, MP!NotificationsTypeOK, MembershipNotes!ChainTypeOK,
         MP!ChainTypeOK, MembershipNotes!Block, MP!Block, MembershipNotes!Source, MP!Source,
         MembershipNotes!WatcherType, MP!WatcherType, MembershipNotes!BlockNumber, MP!BlockNumber,
         MembershipNotes!ToSet, MP!ToSet
<1>2. MP!EveryEventNotified => MembershipNotes!EveryEventNotified
  BY DEF MembershipNotes!EveryEventNotified, MP!EveryEventNotified, MembershipNotes!Source,
         MP!Source, MembershipNotes!Entries, MP!Entries, MembershipNotes!Reported, MP!Reported,
         MembershipNotes!NotificationId, MP!NotificationId, MembershipNotes!ListAllNotifications,
         MP!ListAllNotifications, MembershipNotes!Whom, MP!Whom, MembershipNotes!Block, MP!Block,
         MembershipNotes!RegisteredAt, MP!RegisteredAt
<1>3. MP!NothingElseNotified => MembershipNotes!NothingElseNotified
  BY DEF MembershipNotes!NothingElseNotified, MP!NothingElseNotified, MembershipNotes!Source,
         MP!Source, MembershipNotes!Entries, MP!Entries, MembershipNotes!NotificationId,
         MP!NotificationId, MembershipNotes!RegisteredAt, MP!RegisteredAt, MembershipNotes!Block,
         MP!Block
<1> QED BY <1>1, <1>2, <1>3

\* The bounds and the events of each process are as those theorems assume.
LEMMA NoteConstants ==
    /\ NP!ChainAssumption /\ NP!Assumptions
    /\ CP!ChainAssumption /\ CP!Assumptions
    /\ MP!ChainAssumption /\ MP!Assumptions
<1>1. /\ NP!ChainAssumption /\ NP!NotificationsAssumption(TokenNotes!Watchers)
  BY NoteLedgerAssumption DEF TokenNotes!ChainAssumption, NP!ChainAssumption,
        TokenNotes!NotificationsAssumption, NP!NotificationsAssumption
<1>2. /\ CP!ChainAssumption /\ CP!NotificationsAssumption(CouponNotes!Watchers)
  BY NoteLedgerAssumption DEF CouponNotes!ChainAssumption, CP!ChainAssumption,
        CouponNotes!NotificationsAssumption, CP!NotificationsAssumption
<1>3. /\ MP!ChainAssumption /\ MP!NotificationsAssumption(MembershipNotes!Watchers)
  BY NoteLedgerAssumption DEF MembershipNotes!ChainAssumption, MP!ChainAssumption,
        MembershipNotes!NotificationsAssumption, MP!NotificationsAssumption
<1> QED BY <1>1, <1>2, <1>3 DEF NP!Assumptions, CP!Assumptions, MP!Assumptions

\* A step of each process is one of the steps those theorems are about.
LEMMA TokenNotesStep ==
    ASSUME TokenNotes!Next, IsFiniteSet(listed), NP!ChainTypeOK
    PROVE  NP!Step /\ IsFiniteSet(listed')
<1>1. ASSUME NEW w \in running, NEW contracts \in TokenNotes!TokenLists(w)
      PROVE  contracts \in Seq(NP!Source)
  <2> DEFINE S == {t \in listed : OnTokenNotes.TemplateOf[t] \in w.templates}
             n == TokenNotes!Cardinality(S)
  <2>1. S \subseteq listed /\ S \subseteq OnTokenNotes.Token
    BY DEF NP!ChainTypeOK
  <2>2. IsFiniteSet(S)
    BY <2>1, FS_Subset
  <2>3. n = Cardinality(S)
    BY DEF TokenNotes!Cardinality, Cardinality
  <2>4. n \in Nat
    BY <2>2, <2>3, FS_CardinalityType
  <2>5. contracts \in [1..n -> S]
    BY DEF TokenNotes!TokenLists, TokenNotes!SetToSeqs
  <2> HIDE DEF n, S
  <2>6. contracts \in [1..n -> NP!Source]
    BY <2>1, <2>5 DEF NP!Source
  <2> QED BY <2>4, <2>6
<1>2. ASSUME NEW w \in running, TokenNotes!Loop(w) PROVE NP!Step /\ listed' = listed
  <2>1. CASE \E contracts \in TokenNotes!TokenLists(w) : TokenNotes!Begin(w, contracts)
    BY <1>1, <2>1, TokenNotesActions DEF NP!Step, NP!Begin, NP!chainVars
  <2>2. CASE TokenNotes!UpToDate(w) \/ TokenNotes!WatchContract(w) \/ TokenNotes!LogsFail(w)
             \/ TokenNotes!EndPass(w)
    BY <2>2, TokenNotesActions DEF NP!Step, NP!UpToDate, NP!WatchContract, NP!LogsFail,
                                   NP!EndPass, NP!chainVars
  <2> QED BY <1>2, <2>1, <2>2 DEF TokenNotes!Loop
<1>3. CASE TokenNotes!Api
  BY <1>3, TokenNotesActions
     DEF NP!Step, NP!Api, NP!ReadAll, NP!Update, NP!Delete, NP!apiVars, NP!chainVars
<1>4. CASE TokenNotes!ChainNext /\ TokenNotes!NotificationsFrame
  <2>1. NP!Step /\ NP!ChainNext
    BY <1>4, TokenNotesActions DEF NP!Step
  <2>2. \/ listed' = listed \/ \E t : listed' = listed \union {t} \/ listed' = listed \ {t}
    BY <2>1 DEF NP!ChainNext, NP!Mine, NP!CatchUp, NP!RegisterAdminToken, NP!DeleteToken
  <2> QED BY <2>1, <2>2, FS_AddElement, FS_RemoveElement
<1> QED BY <1>2, <1>3, <1>4 DEF TokenNotes!Next, TokenNotes!Watch

\* The two exchange processes look at one contract each.
LEMMA ExchangeNotesStep ==
    /\ CouponNotes!Next => CP!Step
    /\ MembershipNotes!Next => MP!Step
<1>1. CouponNotes!Next => CP!Step
  <2>1. <<OnCouponNotes.CouponExchange>> \in Seq(CP!Source)
    BY NoteLedgerAssumption DEF CP!Source
  <2> QED BY <2>1, CouponNotesActions
          DEF CouponNotes!Next, CouponNotes!Watch, CouponNotes!Loop, CP!Step
<1>2. MembershipNotes!Next => MP!Step
  <2>1. <<OnMembershipNotes.MembershipExchange>> \in Seq(MP!Source)
    BY NoteLedgerAssumption DEF MP!Source
  <2> QED BY <2>1, MembershipNotesActions
          DEF MembershipNotes!Next, MembershipNotes!Watch, MembershipNotes!Loop, MP!Step
<1> QED BY <1>1, <1>2

NoteVars == <<chain, head, listed, notes, synced, running, todo, latest, failures, first, gone>>

\* What is said of the notifications, with any number of nodes.
NoteInv ==
    /\ which = "token" => NP!NotesInv /\ IsFiniteSet(listed)
    /\ which = "couponEx" => CP!NotesInv
    /\ which = "memberEx" => MP!NotesInv

\* What is said with one node.
NoteToldInv ==
    /\ which = "token" => NP!ToldInv
    /\ which = "couponEx" => CP!ToldInv
    /\ which = "memberEx" => MP!ToldInv

\* Both hold at first.
LEMMA NotesInitially == LedgersInit => NoteInv /\ NoteToldInv
<1>1. ASSUME LedgersInit, which = "token"
      PROVE  NP!NotesInv /\ NP!ToldInv /\ IsFiniteSet(listed)
  <2>1. NP!NotificationsInit(TokenNotes!Watchers)
    BY <1>1, BeginningOfOne, TokenNotesBegin
  <2>2. listed = {}
    BY <2>1 DEF NP!NotificationsInit, NP!ChainInit
  <2>3. NP!NotificationsAssumption(TokenNotes!Watchers)
    BY NoteLedgerAssumption DEF TokenNotes!NotificationsAssumption, NP!NotificationsAssumption
  <2> QED BY <2>1, <2>2, <2>3, NoteConstants, TokenNotesFit, NP!NotesBegin, FS_EmptySet
<1>2. ASSUME LedgersInit, which = "couponEx" PROVE CP!NotesInv /\ CP!ToldInv
  <2>1. CP!NotificationsInit(CouponNotes!Watchers)
    BY <1>2, BeginningOfOne, CouponNotesBegin
  <2>3. CP!NotificationsAssumption(CouponNotes!Watchers)
    BY NoteLedgerAssumption DEF CouponNotes!NotificationsAssumption, CP!NotificationsAssumption
  <2> QED BY <2>1, <2>3, NoteConstants, CouponNotesFit, CP!NotesBegin
<1>3. ASSUME LedgersInit, which = "memberEx" PROVE MP!NotesInv /\ MP!ToldInv
  <2>1. MP!NotificationsInit(MembershipNotes!Watchers)
    BY <1>3, BeginningOfOne, MembershipNotesBegin
  <2>3. MP!NotificationsAssumption(MembershipNotes!Watchers)
    BY NoteLedgerAssumption
       DEF MembershipNotes!NotificationsAssumption, MP!NotificationsAssumption
  <2> QED BY <2>1, <2>3, NoteConstants, MembershipNotesFit, MP!NotesBegin
<1> QED BY <1>1, <1>2, <1>3 DEF NoteInv, NoteToldInv

\* A step of the group is one of the process that was chosen, or leaves its variables alone.
LEMMA NoteStep ==
    ASSUME NoteInv, [LedgersNext]_ledgerVars
    PROVE  /\ which' = "token" => which = "token" /\ [NP!Step]_(NP!noteVars)
                                  /\ IsFiniteSet(listed')
           /\ which' = "couponEx" => which = "couponEx" /\ [CP!Step]_(CP!noteVars)
           /\ which' = "memberEx" => which = "memberEx" /\ [MP!Step]_(MP!noteVars)
<1>1. UNCHANGED ledgerVars => UNCHANGED NoteVars
  BY DEF ledgerVars, vars, transferOnly, notesOnly, NoteVars
<1>2. UNCHANGED NoteVars => /\ UNCHANGED NP!noteVars
                            /\ UNCHANGED CP!noteVars
                            /\ UNCHANGED MP!noteVars
  BY DEF NoteVars, NP!noteVars, CP!noteVars, MP!noteVars, NP!chainVars, CP!chainVars, MP!chainVars
<1>3. ASSUME which' = "token" PROVE [NP!Step]_(NP!noteVars) /\ IsFiniteSet(listed')
  <2>1. NP!ChainTypeOK /\ IsFiniteSet(listed)
    BY <1>3, StepOfOne DEF NoteInv, NP!NotesInv, NP!NotesTypes
  <2>2. TokenNotes!Next \/ UNCHANGED ledgerVars
    BY <1>3, StepOfOne
  <2>3. UNCHANGED ledgerVars => listed' = listed
    BY <1>1 DEF NoteVars
  <2> QED BY <1>1, <1>2, <2>1, <2>2, <2>3, TokenNotesStep
<1>4. ASSUME which' = "couponEx" PROVE [CP!Step]_(CP!noteVars)
  BY <1>1, <1>2, <1>4, StepOfOne, ExchangeNotesStep
<1>5. ASSUME which' = "memberEx" PROVE [MP!Step]_(MP!noteVars)
  BY <1>1, <1>2, <1>5, StepOfOne, ExchangeNotesStep
<1> QED BY <1>3, <1>4, <1>5, StepOfOne

\* The first is kept whichever nodes answer.
LEMMA NoteInvPreserved == NoteInv /\ [LedgersNext]_ledgerVars => NoteInv'
<1> SUFFICES ASSUME NoteInv, [LedgersNext]_ledgerVars PROVE NoteInv'
  OBVIOUS
<1>1. which' = "token" => NP!NotesInv' /\ IsFiniteSet(listed')
  BY NoteStep, NoteConstants, NP!NotesInvariant DEF NoteInv
<1>2. which' = "couponEx" => CP!NotesInv'
  BY NoteStep, NoteConstants, CP!NotesInvariant DEF NoteInv
<1>3. which' = "memberEx" => MP!NotesInv'
  BY NoteStep, NoteConstants, MP!NotesInvariant DEF NoteInv
<1> QED BY <1>1, <1>2, <1>3 DEF NoteInv

\* What a user has deleted never comes back, whichever nodes answer, however far they lag
\* and however often a pass is repeated.
THEOREM DeletedStaysDeletedAlways == LedgersSpec => []DeletedStaysDeleted
<1>1. NoteInv => DeletedStaysDeleted
  BY DEF NoteInv, DeletedStaysDeleted, NP!NotesInv, CP!NotesInv, MP!NotesInv,
         NP!DeletedStaysDeleted, CP!DeletedStaysDeleted, MP!DeletedStaysDeleted
<1> QED BY <1>1, NotesInitially, NoteInvPreserved, PTL DEF LedgersSpec

\* With one node every event a watcher has read is among the notifications of its user,
\* unless that user deleted it, and there is no notification of anything else.
THEOREM NotifiedExactlyAlways ==
    ASSUME \A m, n \in OnTokenNotes.Node : m = n, \A m, n \in OnCouponNotes.Node : m = n,
           \A m, n \in OnMembershipNotes.Node : m = n
    PROVE  LedgersSpec => []NotifiedExactly
<1>1. NoteInv /\ NoteToldInv /\ [LedgersNext]_ledgerVars => NoteToldInv'
  <2> SUFFICES ASSUME NoteInv, NoteToldInv, [LedgersNext]_ledgerVars PROVE NoteToldInv'
    OBVIOUS
  <2>1. which' = "token" => NP!ToldInv'
    BY NoteStep, NoteConstants, NP!ToldInvariant DEF NoteInv, NoteToldInv
  <2>2. which' = "couponEx" => CP!ToldInv'
    BY NoteStep, NoteConstants, CP!ToldInvariant DEF NoteInv, NoteToldInv
  <2>3. which' = "memberEx" => MP!ToldInv'
    BY NoteStep, NoteConstants, MP!ToldInvariant DEF NoteInv, NoteToldInv
  <2> QED BY <2>1, <2>2, <2>3 DEF NoteToldInv
<1>2. NoteInv /\ NoteToldInv => NotifiedExactly
  <2>1. which = "token" /\ NP!NotesInv /\ NP!ToldInv =>
           /\ TokenNotes!NotificationsTypeOK
           /\ TokenNotes!EveryEventNotified /\ TokenNotes!NothingElseNotified
    BY NoteConstants, NP!NotesInvEnough, TokenNotesProperties
  <2>2. which = "couponEx" /\ CP!NotesInv /\ CP!ToldInv =>
           /\ CouponNotes!NotificationsTypeOK
           /\ CouponNotes!EveryEventNotified /\ CouponNotes!NothingElseNotified
    BY NoteConstants, CP!NotesInvEnough, CouponNotesProperties
  <2>3. which = "memberEx" /\ MP!NotesInv /\ MP!ToldInv =>
           /\ MembershipNotes!NotificationsTypeOK
           /\ MembershipNotes!EveryEventNotified /\ MembershipNotes!NothingElseNotified
    BY NoteConstants, MP!NotesInvEnough, MembershipNotesProperties
  <2> QED BY <2>1, <2>2, <2>3 DEF NoteInv, NoteToldInv, NotifiedExactly
<1> QED BY <1>1, <1>2, NotesInitially, NoteInvPreserved, PTL DEF LedgersSpec
==============================================================================
