------------------------- MODULE CouponNotifications -------------------------
(* batch/processor_Notifications_Coupon_Exchange.py: the watchers of the exchange *)
(* of coupon tokens.  An agreement and its settlement are reported twice, to the  *)
(* buyer and to the seller.                                                       *)
EXTENDS Notifications

CONSTANT CouponExchange    \* IBET_COUPON_EXCHANGE_CONTRACT_ADDRESS

WatchCoupon(type, event, whom, option) ==
    [type |-> type, event |-> event, whom |-> whom, option |-> option,
     templates |-> {"IbetCoupon"}, fromPeople |-> FALSE, registeredOnly |-> TRUE,
     skipPast |-> FALSE]

WatchCouponNewOrder == WatchCoupon("NewOrder", "NewOrder", "account", 0)
WatchCouponCancelOrder == WatchCoupon("CancelOrder", "CancelOrder", "account", 0)
WatchCouponForceCancelOrder ==
    WatchCoupon("ForceCancelOrder", "ForceCancelOrder", "account", 0)
WatchCouponBuyAgreement == WatchCoupon("BuyAgreement", "Agree", "buy", 1)
WatchCouponSellAgreement == WatchCoupon("SellAgreement", "Agree", "sell", 2)
WatchCouponBuySettlementOK == WatchCoupon("BuySettlementOK", "SettlementOK", "buy", 1)
WatchCouponSellSettlementOK == WatchCoupon("SellSettlementOK", "SettlementOK", "sell", 2)
WatchCouponBuySettlementNG == WatchCoupon("BuySettlementNG", "SettlementNG", "buy", 1)
WatchCouponSellSettlementNG == WatchCoupon("SellSettlementNG", "SettlementNG", "sell", 2)

\* Watcher.loop: one contract, every exception is swallowed and ends the pass.
Loop(w) ==
    \/ Begin(w, <<CouponExchange>>)
    \/ UpToDate(w)
    \/ WatchContract(w)
    \/ EndPass(w)

\* main: the watchers run concurrently, again and again.
Watchers ==
    {WatchCouponNewOrder, WatchCouponCancelOrder, WatchCouponForceCancelOrder,
     WatchCouponBuyAgreement, WatchCouponSellAgreement,
     WatchCouponBuySettlementOK, WatchCouponSellSettlementOK,
     WatchCouponBuySettlementNG, WatchCouponSellSettlementNG}

Watch == \E w \in running : Loop(w)

Next == Watch \/ Api \/ (ChainNext /\ NotificationsFrame)

Init == NotificationsInit(Watchers)

Spec == Init /\ [][Next]_noteVars
==============================================================================
