------------------------------ MODULE MCServices ------------------------------
(* Services with small lists, queues and requests. *)
EXTENDS Services

\* Two or three of the four processes that write a token's row, each time for a token of
\* another template.
MCCacheInstance ==
    {[processes |-> {"admin", "detail", "short"}, template |-> "IbetShare"],
     [processes |-> {"admin", "detail", "watch"}, template |-> "IbetStraightBond"],
     [processes |-> {"admin", "short", "watch"}, template |-> "IbetCoupon"],
     [processes |-> {"admin", "detail"}, template |-> "IbetMembership"]}

\* Lists with keys that occur twice, and with items that are not as they should be.
Item(k, c, f) == [key |-> k, content |-> c, form |-> f]
MCDocument == {<<Item("k1", 1, "ok"), Item("k2", 1, "invalid"), Item("k1", 2, "ok")>>,
              <<Item("k2", 1, "partial"), Item("k1", 3, "ok")>>,
              <<Item("k2", 2, "ok"), Item("k1", 3, "alien")>>}

\* The transactions of one sender in order, a part of them again with one that is reverted,
\* and, without waiting, two of them and one that may not be sent.
Transaction(s, n, c, reverts) ==
    [sender |-> s, nonce |-> n, to |-> c, decodes |-> TRUE, reverts |-> reverts]
MCRaw ==
    [r1 |-> <<Transaction("a", 0, "exchange", FALSE), Transaction("a", 1, "token", FALSE)>>,
     r2 |-> <<Transaction("a", 1, "token", FALSE), Transaction("a", 2, "exchange", TRUE)>>,
     r3 |-> <<Transaction("b", 0, "other", FALSE), Transaction("a", 0, "exchange", FALSE),
              Transaction("a", 1, "exchange", FALSE)>>]
==============================================================================
