-------------------------- MODULE PositionMembership --------------------------
(* batch/indexer_Position_Membership.py: the passes of __sync_all, in their order. *)
EXTENDS PositionIndexer

GetMembershipTokens == GetContractList("Transfer")
SyncMembershipTransfer == ReadTransfers("Exchange") \/ SinkTransfers("Exchange")
SyncMembershipExchange ==
    ExchangePass("Exchange", OrderKinds, {"SettlementOK"}, "Escrow")

\* Mutant: a finished escrow changes the books of its sender only.
SyncMembershipEscrowOfSender ==
    ExchangePass("Escrow", EscrowKinds \ {"HolderChanged"}, {}, "update_cursor")

SyncMembershipEscrow ==
    ExchangePass("Escrow", EscrowKinds \ {"HolderChanged"}, {"EscrowFinished"},
                 "update_cursor")

NextMembershipChunk == UpdateCursor("Transfer")
StoreMembershipBlockNumber == SetBlockNumber

SyncMembershipNewLogs ==
    \/ GetMembershipTokens
    \/ SyncMembershipTransfer \/ SyncMembershipExchange \/ SyncMembershipEscrow
    \/ NextMembershipChunk \/ StoreMembershipBlockNumber

MembershipNext == SyncMembershipNewLogs \/ Rollback \/ Restart \/ Environment

MembershipSpec == Init /\ [][MembershipNext]_vars
==============================================================================
