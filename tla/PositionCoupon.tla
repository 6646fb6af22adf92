---------------------------- MODULE PositionCoupon ----------------------------
(* batch/indexer_Position_Coupon.py: the passes of __sync_all, in their order. *)
EXTENDS PositionIndexer

GetCouponTokens == GetContractList("Transfer")
SyncCouponTransfer == ReadTransfers("Consume") \/ SinkTransfers("Consume")
SyncCouponConsume == TokenPass("Consume", {"from"}, "Exchange")
SyncCouponExchange == ExchangePass("Exchange", OrderKinds, {"SettlementOK"}, "Escrow")
SyncCouponEscrow ==
    ExchangePass("Escrow", EscrowKinds \ {"HolderChanged"}, {"EscrowFinished"},
                 "update_cursor")

NextCouponChunk == UpdateCursor("Transfer")
StoreCouponBlockNumber == SetBlockNumber

SyncCouponNewLogs ==
    \/ GetCouponTokens
    \/ SyncCouponTransfer \/ SyncCouponConsume \/ SyncCouponExchange \/ SyncCouponEscrow
    \/ NextCouponChunk \/ StoreCouponBlockNumber

CouponNext == SyncCouponNewLogs \/ Rollback \/ Restart \/ Environment

CouponSpec == Init /\ [][CouponNext]_vars
==============================================================================
