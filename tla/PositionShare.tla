---------------------------- MODULE PositionShare ----------------------------
(* batch/indexer_Position_Share.py: the passes of __sync_all, in their order. *)
EXTENDS PositionIndexer

GetShareTokens == GetContractList("Transfer")
SyncShareTransfer == ReadTransfers("Lock") \/ SinkTransfers("Lock")
SyncShareLock == LockPass("Lock", {"from"}, {"from"}, "ForceLock")
SyncShareForceLock == LockPass("ForceLock", {"from"}, {"from"}, "Unlock")
SyncShareUnlock == LockPass("Unlock", {"from"}, {"to"}, "ForceUnlock")

SyncShareForceUnlock ==
    LockPass("ForceUnlock", {"from"}, {"to"}, "ForceChangeLockedAccount")
SyncShareForceChangeLockedAccount ==
    LockPass("ForceChangeLockedAccount", {"from", "to"}, {"from", "to"}, "Issue")
SyncShareIssue == TokenPass("Issue", {"to"}, "Redeem")
SyncShareRedeem == TokenPass("Redeem", {"to"}, "ApplyForTransfer")
SyncShareApplyForTransfer == TokenPass("ApplyForTransfer", {"from"}, "CancelTransfer")
SyncShareCancelTransfer == TokenPass("CancelTransfer", {"from"}, "ApproveTransfer")
SyncShareApproveTransfer == TokenPass("ApproveTransfer", {"from", "to"}, "Exchange")
SyncShareExchange == ExchangePass("Exchange", OrderKinds, {"SettlementOK"}, "Escrow")
SyncShareEscrow ==
    ExchangePass("Escrow", EscrowKinds \ {"EscrowFinished"}, {"HolderChanged"}, "DVP")
SyncShareDvp == ExchangePass("DVP", DeliveryKinds, {"HolderChanged"}, "update_cursor")

NextShareChunk == UpdateCursor("Transfer")
StoreShareBlockNumber == SetBlockNumber

SyncShareNewLogs ==
    \/ GetShareTokens
    \/ SyncShareTransfer
    \/ SyncShareLock \/ SyncShareForceLock \/ SyncShareUnlock \/ SyncShareForceUnlock
    \/ SyncShareForceChangeLockedAccount
    \/ SyncShareIssue \/ SyncShareRedeem
    \/ SyncShareApplyForTransfer \/ SyncShareCancelTransfer \/ SyncShareApproveTransfer
    \/ SyncShareExchange \/ SyncShareEscrow \/ SyncShareDvp
    \/ NextShareChunk \/ StoreShareBlockNumber

ShareNext == SyncShareNewLogs \/ Rollback \/ Restart \/ Environment

ShareSpec == Init /\ [][ShareNext]_vars
==============================================================================
