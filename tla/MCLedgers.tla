------------------------------- MODULE MCLedgers -------------------------------
(* Ledgers on small chains. *)
EXTENDS Ledgers, TLC

Many == {"n1", "n2"}
One == {"n1"}

------------------------------------------------------------------------------
(* Transfers of one token, with two nodes. *)

Move(k, v, i) == [kind |-> k, token |-> "t1", value |-> v, selfTransfer |-> FALSE, n |-> i]
MoveContents == {{Move("Register", "ok", 1)},
                 {Move("Transfer", "ok", 1), Move("Transfer", "ok", 2), Move("Unlock", "ok", 1)},
                 {Move("Transfer", "huge", 1), Move("Unlock", "ok", 1)}}

MCTransfers ==
    [Token |-> {"t1"}, Node |-> Many, Event |-> UNION MoveContents, Contents |-> MoveContents,
     MaxBlock |-> 3, ChunkSize |-> 2, BlockTime |-> [b \in 1..3 |-> b],
     MaxFailures |-> 0, MaxCopies |-> 2]

MCTxCount == [b \in 0..MaxHeight |-> b % 3]

------------------------------------------------------------------------------
(* Owners of tokens, with one or two nodes. *)

Register(t, o, p) == [kind |-> "Register", token |-> t, owner |-> o, template |-> p]
OwnerContents == {{Register("t1", "a", "IbetShare"), Register("t2", "a", "Other")},
                  {Register("t1", "b", "IbetShare")}, {Register("t2", "b", "IbetCoupon")}}

MCOwners ==
    [Token |-> {"t1", "t2"}, One |-> One, Many |-> Many, Event |-> UNION OwnerContents,
     Contents |-> OwnerContents, MaxBlock |-> 3, ChunkSize |-> 2, MaxFailures |-> 1,
     TokenTemplate |-> {"IbetShare", "IbetCoupon"}]

------------------------------------------------------------------------------
(* Orders and agreements of two exchanges with two tokens. *)

Order(k, x, t, o, a) ==
    [kind |-> k, exchange |-> x, token |-> t, order |-> o, account |-> "a1",
     isBuy |-> x = "coupon", amount |-> a]
Trade(k, x, t, o, i) ==
    [kind |-> k, exchange |-> x, token |-> t, order |-> o, agreement |-> i, amount |-> 1,
     buyer |-> IF x = "coupon" THEN "a1" ELSE "a2", seller |-> IF x = "coupon" THEN "a2" ELSE "a1"]
Membership(k, i) == Trade(k, "membership", "t2", 1, i)
Coupon(k, o, i) == Trade(k, "coupon", "t1", o, i)
DexContents ==
    {{[kind |-> "Register", token |-> "t1"], Order("NewOrder", "coupon", "t1", 1, 3),
      Order("NewOrder", "membership", "t2", 1, 1), Membership("Agree", 1)},
     {Coupon("Agree", 1, 1), Coupon("Agree", 1, 2), Membership("SettlementNG", 1)},
     {Coupon("SettlementOK", 1, 1), Coupon("SettlementNG", 1, 2),
      Order("NewOrder", "coupon", "t1", 2, 9)},
     {Order("ForceCancelOrder", "coupon", "t1", 1, 3)},
     {Order("CancelOrder", "coupon", "t1", 1, 3), Coupon("SettlementOK", 1, 2)},
     {Order("NewOrder", "coupon", "t1", 3, 1), Coupon("Agree", 3, 1)},
     {Order("CancelOrder", "coupon", "t1", 3, 1)}}

MCDex ==
    [Token |-> {"t1", "t2"}, Node |-> One, Event |-> UNION DexContents, Contents |-> DexContents,
     MaxBlock |-> 3, ChunkSize |-> 2, MaxFailures |-> 1, Account |-> {"a1", "a2"}, MaxSize |-> 5,
     Kinds |-> <<"NewOrder", "CancelOrder", "ForceCancelOrder", "Agree", "SettlementOK",
                 "SettlementNG">>,
     NoRows |-> [orders |-> {}, agreements |-> {}]]

\* Requests of the maker and of the taker, for each exchange and for a token.
MCAsked ==
    {q \in Dex!Asked : <<q.account, q.of, q.withCanceled>> \in
        {<<"a1", "coupon", FALSE>>, <<"a1", "t1", TRUE>>, <<"a2", "membership", TRUE>>}}

------------------------------------------------------------------------------
(* Consumptions of coupons; t2 is a share. *)

Use(t, x, a, v, i) == [kind |-> "Consume", token |-> t, tx |-> x, account |-> a, amount |-> v,
                       log |-> i]
UseContents ==
    {{[Use(t, "x0", "zero", 1, 1) EXCEPT !.kind = "Register"] : t \in {"t1", "t2"}},
     {Use("t1", "x1", "a1", 2, 2), Use("t1", "x1", "a1", 1, 3), Use("t1", "x1", "a2", 1, 4)},
     {Use("t1", "x2", "a1", 9, 1), Use("t1", "x2", "a1", 1, 2), Use("t1", "x2", "zero", 1, 3),
      Use("t2", "x3", "a1", 1, 4)}}

MCCoupons ==
    [Token |-> {"t1", "t2"}, Node |-> One, Event |-> UNION UseContents, Contents |-> UseContents,
     MaxBlock |-> 3, ChunkSize |-> 2, MaxFailures |-> 1, Kinds |-> <<"Consume">>, NoRows |-> {},
     TemplateOf |-> [t1 |-> "IbetCoupon", t2 |-> "IbetShare"], MaxSize |-> 5]

------------------------------------------------------------------------------
(* Notifications of a bond A and a share B, of a coupon C and of a membership M: the *)
(* watchers of one kind of event, or of the two sides of it, on blocks of that kind. *)

Note(k, at, t) == [kind |-> k, at |-> at, token |-> t, from |-> "p", to |-> "q",
                   account |-> "q", buy |-> "p", sell |-> "q"]
TokenKinds == {"Transfer", "ApplyForTransfer", "ApproveTransfer", "CancelTransfer", "ForceLock",
               "ForceUnlock", "ChangeToRedeemed", "ChangeToCanceled"}
ExchangeKinds == {"NewOrder", "CancelOrder", "ForceCancelOrder", "Agree", "SettlementOK",
                  "SettlementNG"}
TokenBlocks ==
    {{Note("Register", t, t) : t \in {"A", "B"}}}
      \union {{Note(k, "A", "A"), [Note(k, "B", "B") EXCEPT !.from = "x"]} : k \in TokenKinds}
      \union {{Note(k, "B", "B")} : k \in TokenKinds}
ExchangeBlocks(t, other) ==
    {{Note("Register", u, u) : u \in {t, other}}}
      \union {{Note(k, "x", t)} : k \in ExchangeKinds}
      \union {{Note(k, "x", other), [Note(k, "x", t) EXCEPT !.account = "p"]} : k \in ExchangeKinds}
NoteTemplate == [A |-> "IbetStraightBond", B |-> "IbetShare", C |-> "IbetCoupon",
                 M |-> "IbetMembership"]

MCTokenNotes ==
    [Token |-> {"A", "B"}, Node |-> One, Event |-> UNION TokenBlocks, Contents |-> TokenBlocks,
     MaxBlock |-> 3, Address |-> {"p", "q"}, Contract |-> {"x"}, TemplateOf |-> NoteTemplate,
     Groups |-> {{k} : k \in TokenKinds}, ChunkSize |-> 1, MaxFailures |-> 1]

Sides == {{"NewOrder"}, {"CancelOrder"}, {"ForceCancelOrder"}, {"BuyAgreement", "SellAgreement"},
          {"BuySettlementOK", "SellSettlementOK"}, {"BuySettlementNG", "SellSettlementNG"}}

OnExchange(t, other) ==
    [Token |-> {"C", "M"}, Node |-> One, Event |-> UNION ExchangeBlocks(t, other),
     Contents |-> ExchangeBlocks(t, other), MaxBlock |-> 2, Address |-> {"p", "q"},
     Contract |-> {"x"}, TemplateOf |-> NoteTemplate, Groups |-> Sides, CouponExchange |-> "x",
     MembershipExchange |-> "x", ChunkSize |-> 1, MaxFailures |-> 1]
MCCouponNotes == OnExchange("C", "M")
MCMembershipNotes == OnExchange("M", "C")

------------------------------------------------------------------------------
(* Applications for transfers of one token, made on the token and on the two     *)
(* exchanges that it is traded on, one after the other.                          *)

Apply(k, x, v) == [kind |-> k, token |-> "t1", exchange |-> x, application |-> 1, value |-> v]
ApplyContents ==
    {{Apply("Register", "none", "ok"), Apply("ApplyForTransfer", "none", "ok")},
     {Apply("ApplyForTransfer", "x1", "ok"), Apply("EscrowFinished", "x1", "ok")},
     {Apply("CancelTransfer", "none", "ok"), Apply("ApproveTransfer", "x1", "ok")},
     {Apply("ApproveTransfer", "none", "ok"), Apply("ApplyForTransfer", "x2", "ok")},
     {Apply("CancelTransfer", "x2", "ok")}, {Apply("ApplyForTransfer", "x2", "huge")}}

MCApprovals ==
    [Token |-> {"t1"}, Node |-> One, Event |-> UNION ApplyContents, Contents |-> ApplyContents,
     MaxBlock |-> 4, ChunkSize |-> 2, MaxFailures |-> 1, Exchange |-> {"x1", "x2"},
     NoExchange |-> "none", Application |-> {1}, InitialExchange |-> [t1 |-> "x1"],
     MaxExchangeChanges |-> 1]

------------------------------------------------------------------------------
(* The positions of an account that the API answers: two coupons of which one may *)
(* not be listed yet, or a share and a membership.                                *)

MCCouponPositions ==
    [Token |-> {"c1", "c2"}, TemplateOf |-> [c1 |-> "IbetCoupon", c2 |-> "IbetCoupon"],
     LockAddress |-> {"l1", "l2"}, Listings |-> {<<"c1">>, <<"c2", "c1">>},
     Opening |-> {[c1 |-> 1, c2 |-> 1]}, MaxChanges |-> 3]

MCSharePositions ==
    [Token |-> {"s1", "m1"}, TemplateOf |-> [s1 |-> "IbetShare", m1 |-> "IbetMembership"],
     LockAddress |-> {"l1", "l2"}, Listings |-> {<<"s1", "m1">>},
     Opening |-> {[s1 |-> 2, m1 |-> 1]}, MaxChanges |-> 3]

------------------------------------------------------------------------------
(* The behaviours that are looked at. *)

Notified == {"token", "couponEx", "memberEx"}

\* The listing plays no part for owners and for exchanges.
ListingLeftAlone == which \in {"owner", "owners", "couponEx", "memberEx"} => listed' = {}

\* Of notifications, the first block registers the tokens, the others are of the kind that
\* is watched.
BlocksOfOneKind ==
    which \in Notified =>
        /\ chain' # chain =>
              \A e \in chain'[Len(chain')] :
                 e.kind \in (IF chain = <<>> THEN {"Register"} ELSE {w.event : w \in running})
        /\ (\A w \in running : w.event \notin {"Transfer", "ChangeToRedeemed"}) =>
              Len(chain') <= 2

\* Of orders, a behaviour is looked at up to the answer to a request: nothing the indexer does
\* depends on requests, so what comes after it is like what comes before.  A request begins
\* when the tables are up to date; blocks mined before its first call are as if they had been
\* there.  While it is served the passes of a sync run without a break, because they read blocks
\* that are there and write what only the commit shows.  The listing and failures of the indexer
\* play no part in it.
OneRequest ==
    which = "dex" =>
        /\ request.at # Dex!Answered
        /\ request.at # 0 =>
              /\ UNCHANGED <<listed, failures>>
              /\ pass \in DOMAIN OnDex.Kinds => UNCHANGED <<chain, head, request>>
        /\ (request' # request /\ request.at = 0) =>
              /\ pass = 0 /\ rows # OnDex.NoRows /\ done = Len(chain) /\ failures = 0
              /\ request'.query \in MCAsked

MCNext == LedgersNext /\ ListingLeftAlone /\ BlocksOfOneKind /\ OneRequest
MCSpec == LedgersInit /\ [][MCNext]_ledgerVars
================================================================================
