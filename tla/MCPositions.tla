----------------------------- MODULE MCPositions -----------------------------
(* The four position indexers on small chains.  Each works on tables of its own,  *)
(* so one of them, which, is chosen in the initial state and runs alone.          *)
EXTENDS PositionShare, PositionBond, PositionCoupon, PositionMembership, SequencesExt

VARIABLE which

Ev(t, k, f, to, x) == [token |-> t, kind |-> k, from |-> f, to |-> to, at |-> x]

Reg1 == Ev("t1", "Register", Zero, Zero, Zero)
Reg2 == Ev("t2", "Register", Zero, Zero, Zero)
Xfer1 == Ev("t1", "Transfer", "a", "b", Zero)
Deposit1 == Ev("t1", "Transfer", "b", "x", Zero)
Order1 == Ev("t1", "NewOrder", "b", Zero, "x")
Lock1 == Ev("t1", "Lock", "a", Zero, Zero)
Unlock1 == Ev("t1", "ForceUnlock", "a", "b", Zero)
Approve1 == Ev("t1", "ApproveTransfer", "a", "b", Zero)
Delivery1 == Ev("t1", "DeliveryCreated", "a", "b", "x")
Holder1 == Ev("t1", "HolderChanged", "a", "b", "x")
Consume1 == Ev("t1", "Consume", "a", Zero, Zero)
Settle1 == Ev("t1", "SettlementOK", "b", "a", "x")
Escrow1 == Ev("t1", "EscrowFinished", "a", "b", "x")

\* The blocks, the tokens on an exchange, and the bounds for each indexer.
Instance ==
    [Share |-> [blocks |-> {{Reg1, Lock1}, {Xfer1}, {Deposit1, Lock1},
                            {Order1, Unlock1}},
                traded |-> {"t1"}, height |-> 3, failures |-> 1, moves |-> 0],
     Bond |-> [blocks |-> {{Reg1, Delivery1}, {Approve1}, {Holder1}},
               traded |-> {"t1"}, height |-> 3, failures |-> 1, moves |-> 0],
     Coupon |-> [blocks |-> {{Reg1, Consume1}, {Xfer1, Consume1}},
                 traded |-> {"t1"}, height |-> 2, failures |-> 1, moves |-> 1],
     Membership |-> [blocks |-> {{Reg1, Reg2}, {Settle1}, {Escrow1}, {Deposit1}},
                     traded |-> {"t1", "t2"}, height |-> 3, failures |-> 0,
                     moves |-> 0]]

MCContents == UNION {Instance[p].blocks : p \in DOMAIN Instance}
MCEvent == UNION MCContents

MCInit ==
    /\ which \in DOMAIN Instance
    /\ Init
    /\ \A t \in Token \ Instance[which].traded : tradable[t] = Zero

Bounds ==
    /\ chain' # chain => Last(chain') \in Instance[which].blocks
    /\ Len(chain') <= Instance[which].height
    /\ failures' <= Instance[which].failures
    /\ moves' <= Instance[which].moves

MCNext ==
    /\ \/ which = "Share" /\ ShareNext
       \/ which = "Bond" /\ BondNext
       \/ which = "Coupon" /\ CouponNext
       \/ which = "Membership" /\ MembershipNext
    /\ Bounds
    /\ UNCHANGED which

MCSpec == MCInit /\ [][MCNext]_<<vars, which>>

\* One share token that is locked.
LockContents == {{Reg1, Lock1}, {Xfer1}, {}}
OnlyShareInit == which = "Share" /\ Init
OnlyShareSpec == OnlyShareInit /\ [][ShareNext /\ UNCHANGED which]_<<vars, which>>
==============================================================================
