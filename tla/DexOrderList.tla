----------------------------- MODULE DexOrderList -----------------------------
(***************************************************************************)
(* app/api/routers/dex_order_list.py: the history of an account, which is  *)
(* three lists.  Each list is a query of the tables, followed by a call of *)
(* the exchange contract for every row found.  The indexer commits, and    *)
(* the chain grows, between any two of these steps; an exception ends the  *)
(* account, and the lists that are complete by then are answered.          *)
(*                                                                         *)
(* The accounts of a request are answered one after the other and share    *)
(* nothing, so a request is for one account here.                          *)
(***************************************************************************)
EXTENDS DexMarket

VARIABLE request    \* the last request, and what the client gets for it

historyVars == <<vars, request>>

\* Mutant: what is completed is read before what is pending.
ListsCompletedFirst == <<"orders", "completed", "settlements">>

\* The lists, in the order they are made.
Lists == <<"orders", "settlements", "completed">>

Answered == Len(Lists) + 1
NoAnswer == [orders |-> {}, settlements |-> {}, completed |-> {}]

\* What is asked for: the orders on one exchange or of one token, with those that were
\* cancelled or without them.
Asked ==
    [by : {"exchange"}, of : {"membership", "coupon"}, account : Account, withCanceled : BOOLEAN]
      \union [by : {"token"}, of : Token, account : Account, withCanceled : BOOLEAN]

------------------------------------------------------------------------------
(* The queries, one for each list. *)

OnExchange(order, q) == q.by = "exchange" /\ order[1] = q.of
OrderAsked(o, q) == OnExchange(o.order, q) \/ (q.by = "token" /\ o.token = q.of)

\* get_order_list, get_order_list_filtered_by_token.
GetOrderList(q) ==
    {o \in rows.orders : /\ o.account = q.account
                         /\ OrderAsked(o, q)
                         /\ q.withCanceled \/ ~o.cancelled}

\* The agreements of a party; that of a token has its order in the table.
AgreementsOf(q, status) ==
    {a \in rows.agreements :
        /\ q.account \in {a.buyer, a.seller}
        /\ \/ OnExchange(a.id[1], q)
           \/ q.by = "token" /\ (\E o \in rows.orders : o.order = a.id[1] /\ o.token = q.of)
        /\ a.status \in status}

\* get_settlement_list, get_settlement_list_filtered_by_token.
GetSettlementList(q) == AgreementsOf(q, {"PENDING"})

\* get_complete_list, get_complete_list_filtered_by_token.
GetCompleteList(q) ==
    AgreementsOf(q, IF q.withCanceled THEN {"DONE", "CANCELED"} ELSE {"DONE"})

Found(list, q) ==
    CASE list = "orders" -> GetOrderList(q)
      [] list = "settlements" -> GetSettlementList(q)
      [] list = "completed" -> GetCompleteList(q)

------------------------------------------------------------------------------
(* The entries, from a row and from what a node with h blocks answers. *)

OrderEntry(o, h) == [order |-> o.order, amount |-> ChainOrder(o.order, h).amount,
                     canceled |-> ChainOrder(o.order, h).canceled]
AgreementEntry(a, account, h) ==
    [id |-> a.id, isBuy |-> a.buyer = account, canceled |-> AgreementCanceled(a.id, h)]

\* None is made of an order with nothing left.
Entries(list, row, q, h) ==
    IF list = "orders" THEN {n \in {OrderEntry(row, h)} : n.amount # 0}
    ELSE {AgreementEntry(row, q.account, h)}

------------------------------------------------------------------------------
(* The request. *)

Idle(r) == r.at \in {0, Answered}

HistoryInit ==
    /\ Init
    /\ request = [at |-> 0, query |-> [by |-> "none"], rest |-> {}, part |-> {},
                  answer |-> NoAnswer, failed |-> FALSE, since |-> 0, known |-> {}]

\* A request begins with the first query.  (since, known: the last block of the tables and
\* the orders in them.)
Ask(by, of) ==
    /\ Idle(request)
    /\ \E q \in {x \in Asked : x.by = by /\ x.of = of} :
          request' = [at |-> 1, query |-> q, rest |-> Found(Lists[1], q), part |-> {},
                      answer |-> NoAnswer, failed |-> FALSE,
                      since |-> done, known |-> {o.order : o \in rows.orders}]
    /\ UNCHANGED vars

MembershipOrderList == Ask("exchange", "membership")
CouponOrderList == Ask("exchange", "coupon")
OrderList == \E t \in Token : Ask("token", t)

\* One call of the contract, for one row.
CallExchange ==
    /\ ~Idle(request)
    /\ \E row \in request.rest, h \in Heads :
          request' = [request EXCEPT
              !.rest = @ \ {row},
              !.part = @ \union Entries(Lists[request.at], row, request.query, h)]
    /\ UNCHANGED vars

\* A list is added to the answer when it is complete, and the next query is made.
ListMade ==
    /\ ~Idle(request) /\ request.rest = {}
    /\ request' = [request EXCEPT
           !.at = @ + 1,
           !.rest = IF request.at + 1 = Answered THEN {}
                    ELSE Found(Lists[request.at + 1], request.query),
           !.part = {},
           !.answer = [@ EXCEPT ![Lists[request.at]] = request.part]]
    /\ UNCHANGED vars

\* A query or a call fails: the list is dropped, the ones before it are answered.
RequestFails ==
    /\ ~Idle(request)
    /\ request' = [request EXCEPT !.at = Answered, !.rest = {}, !.part = {}, !.failed = TRUE]
    /\ UNCHANGED vars

Serve == \/ MembershipOrderList \/ CouponOrderList \/ OrderList
         \/ CallExchange \/ ListMade \/ RequestFails

HistoryNext == (Next /\ UNCHANGED request) \/ Serve

HistorySpec == HistoryInit /\ [][HistoryNext]_historyVars

------------------------------------------------------------------------------
(* Properties, for one node. *)

\* A default list shows as cancelled only what was not cancelled yet where the tables stood
\* when the request began, and what is completed never: the tables filter, the exchange
\* answers, and it may be ahead of them.
CurrentListsShowNothingCancelled ==
    request.at # 0 /\ ~request.query.withCanceled =>
        /\ \A n \in request.answer.orders : ~ChainOrder(n.order, request.since).canceled
        /\ \A n \in request.answer.settlements : ~AgreementCanceled(n.id, request.since)
        /\ \A n \in request.answer.completed : ~n.canceled

\* Of the order a request is about, an order of the chain up to block h.
Concerns(q, order, h) ==
    \/ OnExchange(order, q)
    \/ q.by = "token" /\ \E o \in Known("NewOrder", h) : OrderOf(o) = order /\ o.token = q.of

\* Agreements of the chain up to block h that a request is about.
AgreedUpTo(q, h) ==
    {AgreementOf(e) : e \in {x \in Known("Agree", h) :
        x.amount <= MaxSize /\ q.account \in {x.buyer, x.seller} /\ Concerns(q, OrderOf(x), h)}}

SettledUpTo(id, h) ==
    \E e \in Known("SettlementOK", h) \union Known("SettlementNG", h) : AgreementOf(e) = id

\* However the indexer commits between the three queries, no agreement of the account falls
\* between the lists: what the tables had when the request began is answered as pending or as
\* completed, unless an exception ended the request or it was cancelled and is not asked for.
\* It is answered as both only if it was settled meanwhile.
AgreementsListed ==
    request.at = Answered =>
        LET q == request.query
            open == {n.id : n \in request.answer.settlements}
            closed == {n.id : n \in request.answer.completed}
        IN  /\ open \union closed \subseteq AgreedUpTo(q, done)
            /\ \A id \in open : ~SettledUpTo(id, request.since)
            /\ \A id \in closed : SettledUpTo(id, done)
            /\ ~request.failed =>
                  \A id \in AgreedUpTo(q, request.since) :
                      \/ id \in open \union closed
                      \/ ~q.withCanceled /\ AgreementCanceled(id, done)
                      \/ q.by = "token" /\ id[1] \notin request.known

\* An order of the tables when the request began is missing only if it was cancelled there, or
\* nothing was left of it at a block since; of what is listed, the amount was left at such a
\* block.
OrdersListed ==
    request.at = Answered =>
        LET q == request.query
            blocks == request.since..Len(chain)
        IN  /\ \A n \in request.answer.orders :
                  \E h \in blocks : n.amount = ChainOrder(n.order, h).amount /\ n.amount # 0
            /\ ~request.failed =>
                  \A e \in Known("NewOrder", request.since) :
                      (OrderOf(e) \in request.known /\ e.account = q.account
                         /\ Concerns(q, OrderOf(e), request.since)) =>
                          \/ \E n \in request.answer.orders : n.order = OrderOf(e)
                          \/ ~q.withCanceled /\ ChainOrder(OrderOf(e), request.since).canceled
                          \/ \E h \in blocks : ChainOrder(OrderOf(e), h).amount = 0

\* The three of them.
HistoryListed == CurrentListsShowNothingCancelled /\ AgreementsListed /\ OrdersListed
==============================================================================
