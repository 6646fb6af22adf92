------------------------------ MODULE DexIndexer ------------------------------
(***************************************************************************)
(* batch/indexer_DEX.py: orders and agreements of the two IbetExchange     *)
(* contracts, each of which counts its orders on its own.                  *)
(***************************************************************************)
EXTENDS LogSync

CONSTANT MaxSize    \* sys.maxsize

OrderOf(e) == <<e.exchange, e.order>>     \* unique_order_id
AgreementOf(e) == <<OrderOf(e), e.agreement>>

\* The kinds as the code reads them.  An exchange uses a number for one order only, an
\* order for one agreement.
DexAssumption ==
    /\ ChunkSize \in Nat \ {0} /\ MaxFailures \in Nat
    /\ Kinds = <<"NewOrder", "CancelOrder", "ForceCancelOrder",
                 "Agree", "SettlementOK", "SettlementNG">>
    /\ NoRows = [orders |-> {}, agreements |-> {}]
    /\ \A e, f \in Event : e.kind = "NewOrder" /\ f.kind = "NewOrder" =>
          (OrderOf(e) = OrderOf(f) => e = f)
    /\ \A e, f \in Event : e.kind = "Agree" /\ f.kind = "Agree" =>
          (AgreementOf(e) = AgreementOf(f) => e = f)

Known(kind, h) ==
    {e \in Event : e.kind = kind /\ \E b \in Block : b <= h /\ b <= Len(chain) /\ e \in chain[b]}

\* getOrder of the exchange on a node with h blocks: an order the node does not
\* know is an empty record, that of a seller.
IsBuy(order, h) == \E e \in Known("NewOrder", h) : OrderOf(e) = order /\ e.isBuy

\* The exchange contract: an event happens once, a cancellation or an agreement after
\* its order was placed, a settlement after its agreement and only one of the two.
Exchange(blocks) ==
    \A r \in {x \in Block \X Event : x[1] <= Len(blocks) /\ x[2] \in blocks[x[1]]} :
        LET e == r[2] IN
        /\ \A b \in DOMAIN blocks : e.kind # "Register" /\ e \in blocks[b] => b = r[1]
        /\ e.kind \notin {"Register", "NewOrder"} =>
              \E b \in 1..r[1] : \E o \in blocks[b] : o.kind = "NewOrder" /\ OrderOf(o) = OrderOf(e)
        /\ e.kind \in {"SettlementOK", "SettlementNG"} =>
              \E b \in 1..r[1] : \E a \in blocks[b] :
                 a.kind = "Agree" /\ AgreementOf(a) = AgreementOf(e)
        /\ e.kind = "SettlementNG" =>
              \A b \in DOMAIN blocks : \A s \in blocks[b] :
                 s.kind = "SettlementOK" => AgreementOf(s) # AgreementOf(e)

InitialSync == StartInitialSync({})
SyncNewLogs == StartSync(0)

OrderRow(e) == [order |-> OrderOf(e), token |-> e.token, account |-> e.account,
                isBuy |-> e.isBuy, amount |-> e.amount, cancelled |-> FALSE]

AgreementRow(e, h) == [id |-> AgreementOf(e), buyer |-> e.buyer, seller |-> e.seller,
                       amount |-> e.amount, status |-> "PENDING",
                       counterpart |-> IF IsBuy(OrderOf(e), h) THEN e.seller ELSE e.buyer]

\* An order of a listed token that is not in the table yet.
SinkOnNewOrder(tables, events, h) ==
    [tables EXCEPT !.orders = @ \union
        {OrderRow(e) : e \in {x \in events : /\ x.amount <= MaxSize
                                             /\ x.token \in listed
                                             /\ \A o \in @ : o.order # OrderOf(x)}}]

SinkOnCancelOrder(tables, events, h) ==
    [tables EXCEPT !.orders =
        {IF \E e \in events : OrderOf(e) = o.order THEN [o EXCEPT !.cancelled = TRUE] ELSE o :
            o \in @}]

SinkOnForceCancelOrder(tables, events, h) == SinkOnCancelOrder(tables, events, h)

\* An agreement not in the table yet, of any token; its counterpart is the other side
\* of the order as the exchange answers.
SinkOnAgree(tables, events, h) ==
    [tables EXCEPT !.agreements = @ \union
        {AgreementRow(e, h) : e \in {x \in events : /\ x.amount <= MaxSize
                                                    /\ \A a \in @ : a.id # AgreementOf(x)}}]

\* Mutant: a settlement counts for every agreement of its order.
SettleOrder(tables, events, status) ==
    [tables EXCEPT !.agreements =
        {IF \E e \in events : OrderOf(e) = a.id[1] THEN [a EXCEPT !.status = status] ELSE a :
            a \in @}]

Settle(tables, events, status) ==
    [tables EXCEPT !.agreements =
        {IF \E e \in events : AgreementOf(e) = a.id THEN [a EXCEPT !.status = status] ELSE a :
            a \in @}]

SinkOnSettlementOK(tables, events, h) == Settle(tables, events, "DONE")
SinkOnSettlementNG(tables, events, h) == Settle(tables, events, "CANCELED")

SyncNewOrder == Read("NewOrder", SinkOnNewOrder)
SyncCancelOrder == Read("CancelOrder", SinkOnCancelOrder)
SyncForceCancelOrder == Read("ForceCancelOrder", SinkOnForceCancelOrder)
SyncAgree == Read("Agree", SinkOnAgree)
SyncSettlementOK == Read("SettlementOK", SinkOnSettlementOK)
SyncSettlementNG == Read("SettlementNG", SinkOnSettlementNG)

Sync == \/ SyncNewOrder \/ SyncCancelOrder \/ SyncForceCancelOrder
        \/ SyncAgree \/ SyncSettlementOK \/ SyncSettlementNG

Next == InitialSync \/ SyncNewLogs \/ Sync \/ Commit \/ Fail \/ Restart
        \/ (World /\ Exchange(chain'))

Init == SyncInit

Spec == Init /\ [][Next]_vars

\* main: the process syncs again and again, whatever became of the last sync.
Process == InitialSync \/ SyncNewLogs \/ Sync \/ Commit
FairSpec == Spec /\ WF_vars(Process)

------------------------------------------------------------------------------
(* Properties, for one node. *)

\* Types; orders and agreements are unique.
TypeOK ==
    /\ SyncTypeOK
    /\ \A x, y \in rows.orders : x.order = y.order => x = y
    /\ \A x, y \in rows.agreements : x.id = y.id => x = y

Status(id) ==
    IF \E s \in Known("SettlementOK", done) : AgreementOf(s) = id THEN "DONE"
    ELSE IF \E s \in Known("SettlementNG", done) : AgreementOf(s) = id THEN "CANCELED"
    ELSE "PENDING"

Cancelled(order) ==
    \E e \in Known("CancelOrder", done) \union Known("ForceCancelOrder", done) :
        OrderOf(e) = order

\* Every order in the table is on the chain and shows as cancelled exactly when it is
\* there, although all new orders of a range are read before its cancellations.
OrdersAsOnChain ==
    \A o \in rows.orders : \E e \in Known("NewOrder", done) :
        o = [OrderRow(e) EXCEPT !.cancelled = Cancelled(OrderOf(e))]

\* No order is missed of a token that was listed before the order and has been since.
ListedOrdersKept ==
    \A r \in steady :
        (r[2].kind = "NewOrder" /\ r[1] <= done /\ r[2].amount <= MaxSize) =>
            \E o \in rows.orders : o.order = OrderOf(r[2])

\* The table of agreements is the state of the exchange at the last block read,
\* however often a range is read again after a restart.
AgreementsAsOnChain ==
    rows.agreements = {[AgreementRow(e, done) EXCEPT !.status = Status(AgreementOf(e))] :
                          e \in {x \in Known("Agree", done) : x.amount <= MaxSize}}

\* Every agreement of the exchange is in the table in the end, although the block number
\* does not outlive the process and a failed sync leaves nothing behind.
EveryAgreementIndexed ==
    \A e \in {x \in Event : x.kind = "Agree" /\ x.amount <= MaxSize} :
        (\E b \in DOMAIN chain : e \in chain[b])
            ~> (\E a \in rows.agreements : a.id = AgreementOf(e))
==============================================================================
