------------------------------- MODULE DexMarket -------------------------------
(***************************************************************************)
(* What app/api/routers/dex_market.py answers about the exchange: the      *)
(* order book and the ticks, each from one query of the tables, and an     *)
(* agreement, from two calls of the exchange contract, which may be ahead  *)
(* of the tables.                                                          *)
(***************************************************************************)
EXTENDS DexIndexer, FiniteSetsExt

CONSTANT Account    \* accounts of users

\* Orders and agreements are those of the two exchanges.  Who placed an order is a party of
\* its agreements, on the side of the order.
MarketAssumption ==
    /\ \A e \in Event : e.kind \in {"NewOrder", "Agree"} => e.exchange \in {"membership", "coupon"}
    /\ \A e, f \in Event :
          (e.kind = "NewOrder" /\ f.kind = "Agree" /\ OrderOf(e) = OrderOf(f)) =>
              e.account = IF e.isBuy THEN f.buyer ELSE f.seller

Total(events) == MapThenSumSet(LAMBDA e : e.amount, events)

------------------------------------------------------------------------------
(* The exchange contracts as a node with h blocks answers. *)

Agreed(order, h) == {e \in Known("Agree", h) : OrderOf(e) = order}
Undone(order, h) ==
    {e \in Agreed(order, h) :
        \E s \in Known("SettlementNG", h) : AgreementOf(s) = AgreementOf(e)}

\* getOrder: what is agreed is taken off, what is not settled after all is put back.
ChainOrder(order, h) ==
    [amount |-> Total({e \in Known("NewOrder", h) : OrderOf(e) = order})
                  - Total(Agreed(order, h)) + Total(Undone(order, h)),
     canceled |-> \E e \in Known("CancelOrder", h) \union Known("ForceCancelOrder", h) :
                     OrderOf(e) = order]

Maker(order, h) == {e.account : e \in {x \in Known("NewOrder", h) : OrderOf(x) = order}}

\* getAgreement: the taker is the party that did not place the order.
Taker(id, h) ==
    {IF IsBuy(id[1], h) THEN e.seller ELSE e.buyer :
        e \in {x \in Known("Agree", h) : AgreementOf(x) = id}}
AgreementCanceled(id, h) == \E s \in Known("SettlementNG", h) : AgreementOf(s) = id

------------------------------------------------------------------------------
(* dex_market.py *)

\* Mutant: the one who placed the order is taken for the buyer.
RetrieveAgreementOfBuyer(id, h, g) ==
    {[buyer |-> maker, seller |-> taker, counterpart |-> taker,
      canceled |-> AgreementCanceled(id, g)] : maker \in Maker(id[1], h), taker \in Taker(id, g)}

\* The parties of an agreement: getOrder is answered by a node with h blocks, getAgreement
\* after it by one with g; none is found of an order or an agreement the node does not know.
RetrieveAgreement(id, h, g) ==
    LET buys == IsBuy(id[1], h)
    IN  {[buyer |-> IF buys THEN maker ELSE taker, seller |-> IF buys THEN taker ELSE maker,
          counterpart |-> taker, canceled |-> AgreementCanceled(id, g)] :
            maker \in Maker(id[1], h), taker \in Taker(id, g)}

\* Mutant: cancelled agreements count, too.
OpenAmountAll(o) == o.amount - Total({a \in rows.agreements : a.id[1] = o.order})

OpenAmount(o) == o.amount - Total({a \in rows.agreements : /\ a.id[1] = o.order
                                                           /\ a.status # "CANCELED"})

\* The orders a user may take: those of the other side, of somebody else.
OrderBook(exchange, token, buys, account) ==
    {[order |-> o.order, amount |-> OpenAmount(o)] :
        o \in {x \in rows.orders : /\ x.order[1] = exchange
                                   /\ x.token = token
                                   /\ ~x.cancelled
                                   /\ x.isBuy # buys
                                   /\ x.account # account
                                   /\ OpenAmount(x) > 0}}

ListAllMembershipOrderBook(token, buys, account) == OrderBook("membership", token, buys, account)
ListAllCouponOrderBook(token, buys, account) == OrderBook("coupon", token, buys, account)

\* The settled agreements of a token whose order is in the table, on either exchange.
Tick(token) ==
    {[id |-> a.id, buyer |-> a.buyer, seller |-> a.seller] :
        a \in {x \in rows.agreements :
                 /\ x.status = "DONE"
                 /\ \E o \in rows.orders : o.order = x.id[1] /\ o.token = token}}

\* The ticks of the tokens asked for, one query after the other.  A query that fails leaves
\* out its token and throws away what was collected before it.  (failing: their places.)
Ticks(all, failing) ==
    LET answered == {i \in DOMAIN all : \A j \in failing : j < i}
    IN  [i \in answered |-> [token |-> all[i], tick |-> Tick(all[i])]]

ListAllMembershipTick(all, failing) == Ticks(all, failing)
ListAllCouponTick(all, failing) == Ticks(all, failing)

------------------------------------------------------------------------------
(* Properties, for one node. *)

\* The tables are what happened on the chain up to the last sync: orders with their
\* cancellations, those of a token that was listed all the time without exception, and
\* agreements with their settlements.
DexTablesAsOnChain == TypeOK /\ OrdersAsOnChain /\ ListedOrdersKept /\ AgreementsAsOnChain

\* The order books are those of the exchanges at the last block read: what can be taken
\* of each order, after agreements, cancelled agreements and cancelled orders, is neither
\* more nor less than on the chain, at any time and after any restart.
OrderBookAsOnChain ==
    \A token \in Token, buys \in BOOLEAN, account \in Account :
        ListAllMembershipOrderBook(token, buys, account)
          \union ListAllCouponOrderBook(token, buys, account) =
            {[order |-> o.order, amount |-> ChainOrder(o.order, done).amount] :
                o \in {x \in rows.orders : /\ x.token = token /\ x.isBuy # buys
                                           /\ x.account # account
                                           /\ ~ChainOrder(x.order, done).canceled
                                           /\ ChainOrder(x.order, done).amount > 0}}

\* An agreement of the tables is retrieved from the chain with the parties and the
\* counterpart the table has of it, whichever side placed the order and however far the
\* node has come between the two calls; a settled one as settled, a cancelled one as cancelled.
AgreementRetrieved ==
    \A a \in rows.agreements, h, g \in done..Len(chain) :
        LET found == RetrieveAgreement(a.id, h, g)
        IN  \E r \in found :
                /\ found = {r}
                /\ r.buyer = a.buyer /\ r.seller = a.seller /\ r.counterpart = a.counterpart
                /\ a.status # "PENDING" => (r.canceled <=> a.status = "CANCELED")

\* The settled agreements of a token on the chain, as far as its orders are in the table.
SettledOf(token) ==
    {AgreementOf(e) : e \in {x \in Known("SettlementOK", done) :
        /\ \E a \in Known("Agree", done) : AgreementOf(a) = AgreementOf(x) /\ a.amount <= MaxSize
        /\ \E o \in rows.orders : o.order = OrderOf(x) /\ o.token = token}}

AsSettled(answer) ==
    \A i \in DOMAIN answer : {k.id : k \in answer[i].tick} = SettledOf(answer[i].token)

\* Whichever queries fail, every token in an answer has all the ticks that were settled on
\* the chain up to the last sync, of the orders in the table, and no others.
TicksAsOnChain ==
    \A s, t \in Token, failing \in {{}, {1}} :
        LET answer == ListAllMembershipTick(<<s, t>>, failing)
        IN  /\ answer = ListAllCouponTick(<<s, t>>, failing)
            /\ failing = {} => DOMAIN answer = {1, 2}
            /\ AsSettled(answer)

\* The two of them.
DexAnswersAgree == AgreementRetrieved /\ TicksAsOnChain
==============================================================================
