----------------------- MODULE MembershipNotifications -----------------------
(* batch/processor_Notifications_Membership_Exchange.py: the watchers of the      *)
(* exchange of membership tokens.  An agreement and its settlement are reported   *)
(* twice, to the buyer and to the seller.                                         *)
EXTENDS Notifications

CONSTANT MembershipExchange    \* IBET_MEMBERSHIP_EXCHANGE_CONTRACT_ADDRESS

WatchMembership(type, event, whom, option) ==
    [type |-> type, event |-> event, whom |-> whom, option |-> option,
     templates |-> {"IbetMembership"}, fromPeople |-> FALSE, registeredOnly |-> TRUE,
     skipPast |-> FALSE]

WatchMembershipNewOrder == WatchMembership("NewOrder", "NewOrder", "account", 0)
WatchMembershipCancelOrder == WatchMembership("CancelOrder", "CancelOrder", "account", 0)
WatchMembershipForceCancelOrder ==
    WatchMembership("ForceCancelOrder", "ForceCancelOrder", "account", 0)
WatchMembershipBuyAgreement == WatchMembership("BuyAgreement", "Agree", "buy", 1)
WatchMembershipSellAgreement == WatchMembership("SellAgreement", "Agree", "sell", 2)
WatchMembershipBuySettlementOK == WatchMembership("BuySettlementOK", "SettlementOK", "buy", 1)
WatchMembershipSellSettlementOK == WatchMembership("SellSettlementOK", "SettlementOK", "sell", 2)
WatchMembershipBuySettlementNG == WatchMembership("BuySettlementNG", "SettlementNG", "buy", 1)
WatchMembershipSellSettlementNG == WatchMembership("SellSettlementNG", "SettlementNG", "sell", 2)

\* Watcher.loop: one contract, every exception is swallowed and ends the pass.
Loop(w) ==
    \/ Begin(w, <<MembershipExchange>>)
    \/ UpToDate(w)
    \/ WatchContract(w)
    \/ EndPass(w)

\* main: the watchers run concurrently, again and again.
Watchers ==
    {WatchMembershipNewOrder, WatchMembershipCancelOrder, WatchMembershipForceCancelOrder,
     WatchMembershipBuyAgreement, WatchMembershipSellAgreement,
     WatchMembershipBuySettlementOK, WatchMembershipSellSettlementOK,
     WatchMembershipBuySettlementNG, WatchMembershipSellSettlementNG}

Watch == \E w \in running : Loop(w)

Next == Watch \/ Api \/ (ChainNext /\ NotificationsFrame)

Init == NotificationsInit(Watchers)

Spec == Init /\ [][Next]_noteVars
==============================================================================
