------------------------------ MODULE PositionApi ------------------------------
(***************************************************************************)
(* app/api/routers/position.py: the positions of one account, answered     *)
(* from the index tables or, without enable_index, from the contracts.     *)
(*                                                                         *)
(* The account trades; the indexers, each on its own, bring its tables up  *)
(* to date.  An answer is a record of amounts by name; None is the value   *)
(* of a name that is not known, NotFound that of a position that is not    *)
(* there.                                                                  *)
(***************************************************************************)
EXTENDS Integers, SequencesExt

CONSTANTS Token,        \* tokens
          TemplateOf,   \* token_template of each token
          LockAddress,  \* addresses that tokens can be locked to
          Listings,     \* what the table Listing can be
          Opening,      \* what the account can have at the beginning, for each token
          MaxChanges    \* bound on transactions, and on changes of the listing

VARIABLES
    listing,    \* tokens of Listing in the order of their ids
    held,       \* held[t]: what the account has of token t at which place, and has used
    everHeld,   \* tokens that were transferred to the account
    position,   \* IDXPosition, an empty function for no row
    locked,     \* IDXLockedPosition: locked[t][l], for the rows there are
    consumed,   \* IDXConsumeCoupon: number of rows, each of an amount of 1
    received,   \* tokens with a row in IDXTransfer for the account
    registered, \* tokens with a row in IDXTokenListRegister
    changes

vars == <<listing, held, everHeld, position, locked, consumed, received, registered, changes>>

Security == {"IbetShare", "IbetStraightBond"}
Template == Security \union {"IbetCoupon", "IbetMembership"}
OnExchange == {"exchange_balance", "exchange_commitment"}
Column == OnExchange \union {"balance", "pending_transfer"}
Place == Column \union LockAddress \union {"used"}

None == -1
NotFound == <<>>
NoLimit == -1

------------------------------------------------------------------------------
(* The account and the indexers. *)

\* Where an amount can go: to and from the exchange, to a pending transfer or a lock of a
\* security and back, and out of use.
Ways(t) ==
    {<<"balance", "exchange_balance">>, <<"exchange_balance", "balance">>,
     <<"exchange_balance", "exchange_commitment">>, <<"exchange_commitment", "exchange_balance">>}
    \union IF TemplateOf[t] \in Security
           THEN LET other == {"pending_transfer"} \union LockAddress
                IN ({"balance"} \X other) \union (other \X {"balance"})
           ELSE IF TemplateOf[t] = "IbetCoupon" THEN {<<"balance", "used">>} ELSE {}

Init ==
    /\ listing \in Listings
    /\ \E opening \in Opening :
          /\ held = [t \in Token |-> [p \in Place |-> IF p = "balance" THEN opening[t] ELSE 0]]
          /\ everHeld = {t \in Token : opening[t] > 0}
    /\ position = [t \in Token |-> <<>>] /\ locked = [t \in Token |-> <<>>]
    /\ consumed = [t \in Token |-> 0]
    /\ received = {} /\ registered = {}
    /\ changes = 0

Counted == changes < MaxChanges /\ changes' = changes + 1

\* An amount goes from one place to another.
Move ==
    /\ Counted
    /\ \E t \in Token : \E w \in Ways(t) :
          /\ held[t][w[1]] > 0
          /\ held' = [held EXCEPT ![t][w[1]] = @ - 1, ![t][w[2]] = @ + 1]
    /\ UNCHANGED <<listing, everHeld, position, locked, consumed, received, registered>>

\* A transfer to the account, and one from it; a trade that is settled.
Receive ==
    /\ Counted
    /\ \E t \in Token : /\ held' = [held EXCEPT ![t]["balance"] = @ + 1]
                        /\ everHeld' = everHeld \union {t}
    /\ UNCHANGED <<listing, position, locked, consumed, received, registered>>

Give ==
    /\ Counted
    /\ \E t \in Token, p \in {"balance", "exchange_commitment"} :
          held[t][p] > 0 /\ held' = [held EXCEPT ![t][p] = @ - 1]
    /\ UNCHANGED <<listing, everHeld, position, locked, consumed, received, registered>>

\* The admin API adds a token, or takes one away; the tables stay.
EditListing ==
    /\ Counted
    /\ \E t \in Token : listing' = IF t \in ToSet(listing)
                                   THEN SelectSeq(listing, LAMBDA u : u # t)
                                   ELSE Append(listing, t)
    /\ UNCHANGED <<held, everHeld, position, locked, consumed, received, registered>>

\* Columns of the template; a lock row is made with the first lock and kept.
IndexPosition(t) ==
    /\ t \in ToSet(listing) /\ t \in everHeld
    /\ position' = [position EXCEPT ![t] =
           [c \in IF TemplateOf[t] \in Security THEN Column ELSE Column \ {"pending_transfer"}
              |-> held[t][c]]]
    /\ locked' = [locked EXCEPT ![t] =
           [l \in DOMAIN locked[t] \union {l \in LockAddress : held[t][l] > 0} |-> held[t][l]]]
    /\ UNCHANGED <<listing, held, everHeld, consumed, received, registered, changes>>

IndexConsume(t) ==
    /\ t \in ToSet(listing) /\ consumed' = [consumed EXCEPT ![t] = held[t]["used"]]
    /\ UNCHANGED <<listing, held, everHeld, position, locked, received, registered, changes>>

IndexTransfer(t) ==
    /\ t \in ToSet(listing) /\ t \in everHeld /\ received' = received \union {t}
    /\ UNCHANGED <<listing, held, everHeld, position, locked, consumed, registered, changes>>

IndexRegister(t) ==
    /\ registered' = registered \union {t}
    /\ UNCHANGED <<listing, held, everHeld, position, locked, consumed, received, changes>>

Next ==
    \/ Move \/ Receive \/ Give \/ EditListing
    \/ \E t \in Token : IndexPosition(t) \/ IndexConsume(t) \/ IndexTransfer(t) \/ IndexRegister(t)

Spec == Init /\ [][Next]_vars

------------------------------------------------------------------------------
(* From the index. *)

NonZero(row, columns) == \E c \in columns \intersect DOMAIN row : row[c] # 0
Amounts(row, columns) == [c \in columns |-> IF c \in DOMAIN row THEN row[c] ELSE 0]
ListingOf(template) == SelectSeq(listing, LAMBDA t : TemplateOf[t] = template)

\* Mutant: tokens with nothing but locked ones are not joined.
IsInBaseIndexUnlocked(t) == NonZero(position[t], Column)

\* BasePosition.get_list_from_index: the outer joins, and the sum of the locks.
IsInBaseIndex(t) == NonZero(position[t], Column) \/ NonZero(locked[t], LockAddress)
BaseFromIndex(t) == Amounts(position[t], Column) @@ ("locked" :> SumFunction(locked[t]))

\* BasePositionMembership.get_list_from_index
MembershipColumn == OnExchange \union {"balance"}
IsInMembershipIndex(t) == NonZero(position[t], MembershipColumn)
MembershipFromIndex(t) == Amounts(position[t], MembershipColumn)

\* BasePositionCoupon.get_list_from_index: what was received once is listed for ever.
IsInCouponIndex(t) == NonZero(position[t], MembershipColumn) \/ consumed[t] # 0 \/ t \in received
CouponFromIndex(t) == Amounts(position[t], MembershipColumn) @@ ("used" :> consumed[t])

Listed(t, amounts) == [token |-> t, amounts |-> amounts]
Entries(tokens, Is(_), Of(_)) ==
    LET found == SelectSeq(tokens, Is) IN [i \in DOMAIN found |-> Listed(found[i], Of(found[i]))]

ListFromIndex(template) ==
    CASE template \in Security -> Entries(ListingOf(template), IsInBaseIndex, BaseFromIndex)
      [] template = "IbetMembership" ->
            Entries(ListingOf(template), IsInMembershipIndex, MembershipFromIndex)
      [] template = "IbetCoupon" ->
            Entries(ListingOf(template), IsInCouponIndex, CouponFromIndex)

\* Mutant: as for the list of memberships, a token with nothing but locked ones is left out.
GetOneFromIndexUnlocked(t) ==
    IF t \in ToSet(listing) /\ IsInBaseIndexUnlocked(t) THEN BaseFromIndex(t) ELSE NotFound

\* get_one_from_index, of BasePosition for every template.
GetOneFromIndex(t) ==
    IF t \in ToSet(listing) /\ IsInBaseIndex(t) THEN BaseFromIndex(t) ELSE NotFound

\* list_all_token_position: one query joins all tables, so a sum counts each row as often
\* as the other table has rows for the token.
Times(n) == IF n = 0 THEN 1 ELSE n

IsInAll(t) ==
    t \in registered /\ (NonZero(position[t], Column) \/ NonZero(locked[t], LockAddress)
                         \/ consumed[t] # 0)
AllFromIndex(t) ==
    CASE TemplateOf[t] \in Security ->
            Amounts(position[t], Column)
              @@ ("locked" :> SumFunction(locked[t]) * Times(consumed[t]))
      [] TemplateOf[t] = "IbetCoupon" ->
            Amounts(position[t], MembershipColumn)
              @@ ("used" :> consumed[t] * Times(Cardinality(DOMAIN locked[t])))
      [] TemplateOf[t] = "IbetMembership" -> Amounts(position[t], MembershipColumn)
ListAllTokenPosition(templates) ==
    Entries(SelectSeq(listing, LAMBDA t : TemplateOf[t] \in templates), IsInAll, AllFromIndex)

------------------------------------------------------------------------------
(* From the contracts. *)

\* BasePositionShare and BasePositionStraightBond._get_position
SecurityPosition(t) ==
    IF NonZero(held[t], Column) THEN Amounts(held[t], Column) @@ ("locked" :> None)
                                ELSE NotFound

\* BasePosition._get_position
MembershipPosition(t) ==
    IF NonZero(held[t], MembershipColumn) THEN Amounts(held[t], MembershipColumn) ELSE NotFound

\* Mutant: a coupon is used up when its last one is.
CouponPositionUnused(t) ==
    IF NonZero(held[t], MembershipColumn)
    THEN Amounts(held[t], MembershipColumn \union {"used"}) ELSE NotFound

\* BasePositionCoupon._get_position looks for the history of receipts in the index.
CouponPosition(t) ==
    IF NonZero(held[t], MembershipColumn \union {"used"}) \/ t \in received
    THEN Amounts(held[t], MembershipColumn \union {"used"}) ELSE NotFound

GetPosition(t) ==
    CASE TemplateOf[t] \in Security -> SecurityPosition(t)
      [] TemplateOf[t] = "IbetMembership" -> MembershipPosition(t)
      [] TemplateOf[t] = "IbetCoupon" -> CouponPosition(t)

GetOneFromContract(t) == IF t \in ToSet(listing) THEN GetPosition(t) ELSE NotFound

\* Mutant: the limit is compared with what was counted, not with what was shown.
TurnPageEarly(page, t, offset, limit) ==
    IF GetPosition(t) = NotFound THEN page
    ELSE IF offset > page.count \/ (limit # NoLimit /\ page.count >= limit)
    THEN [page EXCEPT !.count = @ + 1]
    ELSE [count |-> page.count + 1, shown |-> Append(page.shown, Listed(t, GetPosition(t)))]

\* One token of the loop of get_list_from_contract: before the offset and after the limit
\* it is only counted.
TurnPage(page, t, offset, limit) ==
    IF GetPosition(t) = NotFound THEN page
    ELSE IF offset > page.count \/ (limit # NoLimit /\ Len(page.shown) >= limit)
    THEN [page EXCEPT !.count = @ + 1]
    ELSE [count |-> page.count + 1, shown |-> Append(page.shown, Listed(t, GetPosition(t)))]

ListFromContract(template, offset, limit) ==
    FoldLeft(LAMBDA page, t : TurnPage(page, t, offset, limit),
             [count |-> 0, shown |-> <<>>], ListingOf(template))

------------------------------------------------------------------------------
(* Properties. *)

CaughtUp(t) ==
    /\ Amounts(position[t], Column) = Amounts(held[t], Column)
    /\ Amounts(locked[t], LockAddress) = Amounts(held[t], LockAddress)
    /\ consumed[t] = held[t]["used"]
    /\ t \in everHeld => t \in received
    /\ t \in registered
OnlyLocked(t) == ~NonZero(held[t], Column) /\ NonZero(held[t], LockAddress)

\* What both answers know: the contracts are not asked for locked amounts.
Common(list) ==
    [i \in DOMAIN list |->
        [list[i] EXCEPT !.amounts = [a \in DOMAIN @ \ {"locked"} |-> @[a]]]]

\* Once the indexers have caught up, the index answers as the contracts do, token for token
\* and in the same order, but for securities that are locked altogether: only the index
\* knows of them.
IndexAgreesWithContract ==
    (\A t \in ToSet(listing) : CaughtUp(t)) =>
        \A template \in Template :
            Common(SelectSeq(ListFromIndex(template), LAMBDA p : ~OnlyLocked(p.token)))
                = Common(ListFromContract(template, 0, NoLimit).shown)

\* The pages that are cut while the contracts are asked are those of the whole list, and
\* each page says how long that list is.
PagesOfOneList ==
    \A template \in Template, offset \in 0..3, limit \in {NoLimit} \union 0..2 :
        LET all == ListFromContract(template, 0, NoLimit).shown
            page == ListFromContract(template, offset, limit)
            rest == SubSeq(all, offset + 1, Len(all))
        IN /\ page.count = Len(all)
           /\ page.shown = IF limit = NoLimit THEN rest ELSE SubSeq(rest, 1, Min({limit, Len(rest)}))

\* The list of all templates has what the lists of the templates have, sums of joined rows
\* included, but for coupons that were received and are gone: those only the list of
\* coupons remembers.
ListsAgree ==
    (\A t \in ToSet(listing) : t \in registered) =>
        \A template \in Template :
            ListAllTokenPosition({template})
                = SelectSeq(ListFromIndex(template),
                            LAMBDA p : \E a \in DOMAIN p.amounts : p.amounts[a] # 0)

\* What the index lists of a security or a membership can be retrieved from it, and nothing
\* else can; a membership that is retrieved has nothing locked or pending.
RetrievedAsListed ==
    \A t \in ToSet(listing) : TemplateOf[t] # "IbetCoupon" =>
        LET found == {p.amounts : p \in {q \in ToSet(ListFromIndex(TemplateOf[t])) : q.token = t}}
            one == GetOneFromIndex(t)
        IN IF one = NotFound THEN found = {}
           ELSE \E amounts \in found : \A a \in DOMAIN one :
                   one[a] = IF a \in DOMAIN amounts THEN amounts[a] ELSE 0

\* CouponPosition of app/model/schema/position.py: the answer about a coupon says how many
\* were used.
CouponAnswerHasUsed ==
    \A t \in Token :
        (TemplateOf[t] = "IbetCoupon" /\ GetOneFromIndex(t) # NotFound) =>
            "used" \in DOMAIN GetOneFromIndex(t)
==============================================================================
