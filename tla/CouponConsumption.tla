--------------------------- MODULE CouponConsumption ---------------------------
(* batch/indexer_Consume_Coupon.py: the consumptions of the listed coupon tokens. *)
EXTENDS LogSync, FiniteSetsExt

CONSTANTS TemplateOf,   \* template of each token
          MaxSize       \* sys.maxsize

\* A transaction is in one block and numbers its events.
Assumption ==
    /\ MaxBlock \in Nat /\ ChunkSize \in Nat \ {0} /\ MaxFailures \in Nat
    /\ Node # {}
    /\ Contents \subseteq SUBSET Event
    /\ \A e \in Event : e.token \in Token
    /\ \A e \in Event : e.kind = "Consume" => e.log \in Nat
    /\ \A b, c \in Contents :
          \A e \in b, f \in c : (/\ e.kind = "Consume" /\ f.kind = "Consume"
                               /\ e.tx = f.tx) => b = c /\ (e.log = f.log => e = f)
    /\ Kinds = <<"Consume">> /\ NoRows = {}

\* __get_token_list: the listed tokens that a node knows as coupons.  Each is asked for
\* in a call of its own.
TokenLists ==
    {T \in SUBSET listed :
        \A t \in listed :
            \E h \in Heads : t \in T <=> RegisteredAt(t, h) /\ TemplateOf[t] = "IbetCoupon"}

InitialSync == \E tokens \in TokenLists : StartInitialSync(tokens)
SyncNewLogs == (\E tokens \in TokenLists : ListTokens(tokens)) \/ StartSync(Listed)

Consumption(e) == [tx |-> e.tx, token |-> e.token, account |-> e.account, amount |-> e.amount]
SameKey(c, e) == c.tx = e.tx /\ c.token = e.token /\ c.account = e.account

Counted(e) == e.amount <= MaxSize /\ e.account # "zero"

\* The first of the consumptions of one account in one transaction.
First(e, events) == \A x \in events : SameKey(x, e) => e.log <= x.log

\* Mutant: a later consumption is added to the row.
SinkOnConsumeCouponAdded(tables, events, h) ==
    LET read == {x \in events : x.token \in targets /\ Counted(x)} IN
    {c \in tables : \A e \in read : ~SameKey(c, e)} \union
    {[Consumption(e) EXCEPT !.amount =
        @ + FoldSet(LAMBDA c, sum : c.amount + sum, 0, {c \in tables : SameKey(c, e)})] :
        e \in {x \in read : First(x, read)}}

\* One row for a transaction, a token and an account, with the amount of the first.
SinkOnConsumeCoupon(tables, events, h) ==
    LET read == {x \in events : x.token \in targets /\ Counted(x)} IN
    tables \union {Consumption(e) : e \in {x \in read : /\ First(x, read)
                                                       /\ \A c \in tables : ~SameKey(c, x)}}

SyncConsume == Read("Consume", SinkOnConsumeCoupon)

Next == InitialSync \/ SyncNewLogs \/ SyncConsume \/ Commit \/ Fail \/ Restart \/ World

Init == SyncInit

Spec == Init /\ [][Next]_vars

------------------------------------------------------------------------------
(* Properties, for one node. *)

\* A coupon used while its token was listed, and listed since, is in the history of the
\* account that used it, whichever restarts there were.
ConsumptionsKept ==
    \A r \in steady :
        LET e == r[2] IN
        (/\ e.kind = "Consume" /\ r[1] <= done /\ TemplateOf[e.token] = "IbetCoupon"
         /\ Counted(e)) =>
            \E c \in rows : SameKey(c, e)

\* Nobody is shown a consumption that did not happen, and none twice, however often its
\* block is read; of several in one transaction the first is shown.
ConsumptionsAsOnChain ==
    \A c \in rows :
        /\ \E e \in Committed("Consume") :
              /\ Counted(e) /\ c = Consumption(e)
              /\ First(e, {x \in Committed("Consume") : Counted(x)})
        /\ \A d \in rows : SameKey(d, c) => d = c
==============================================================================
