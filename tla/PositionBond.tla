---------------------------- MODULE PositionBond ----------------------------
(* batch/indexer_Position_Bond.py: the passes of __sync_all, in their order. *)
EXTENDS PositionIndexer

GetBondTokens == GetContractList("Transfer")
SyncBondTransfer == ReadTransfers("Lock") \/ SinkTransfers("Lock")
SyncBondLock == LockPass("Lock", {"from"}, {"from"}, "ForceLock")
SyncBondForceLock == LockPass("ForceLock", {"from"}, {"from"}, "Unlock")
SyncBondUnlock == LockPass("Unlock", {"from"}, {"to"}, "ForceUnlock")
SyncBondForceUnlock ==
    LockPass("ForceUnlock", {"from"}, {"to"}, "ForceChangeLockedAccount")
SyncBondForceChangeLockedAccount ==
    LockPass("ForceChangeLockedAccount", {"from", "to"}, {"from", "to"}, "Issue")
SyncBondIssue == TokenPass("Issue", {"to"}, "Redeem")
SyncBondRedeem == TokenPass("Redeem", {"to"}, "ApplyForTransfer")
SyncBondApplyForTransfer == TokenPass("ApplyForTransfer", {"from"}, "CancelTransfer")
SyncBondCancelTransfer == TokenPass("CancelTransfer", {"from"}, "ApproveTransfer")
SyncBondApproveTransfer == TokenPass("ApproveTransfer", {"from", "to"}, "Exchange")
SyncBondExchange == ExchangePass("Exchange", OrderKinds, {"SettlementOK"}, "Escrow")
SyncBondEscrow ==
    ExchangePass("Escrow", EscrowKinds \ {"EscrowFinished"}, {"HolderChanged"}, "DVP")
SyncBondDvp == ExchangePass("DVP", DeliveryKinds, {"HolderChanged"}, "update_cursor")

NextBondChunk == UpdateCursor("Transfer")
StoreBondBlockNumber == SetBlockNumber

SyncBondNewLogs ==
    \/ GetBondTokens
    \/ SyncBondTransfer
    \/ SyncBondLock \/ SyncBondForceLock \/ SyncBondUnlock \/ SyncBondForceUnlock
    \/ SyncBondForceChangeLockedAccount
    \/ SyncBondIssue \/ SyncBondRedeem
    \/ SyncBondApplyForTransfer \/ SyncBondCancelTransfer \/ SyncBondApproveTransfer
    \/ SyncBondExchange \/ SyncBondEscrow \/ SyncBondDvp
    \/ NextBondChunk \/ StoreBondBlockNumber

BondNext == SyncBondNewLogs \/ Rollback \/ Restart \/ Environment

BondSpec == Init /\ [][BondNext]_vars
==============================================================================
