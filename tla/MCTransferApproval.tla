-------------------------- MODULE MCTransferApproval --------------------------
(* Two tokens on one exchange; what one token does is part of MCLedgers.         *)
EXTENDS TransferApprovalIndexer

CONSTANTS t1, t2, x1

Reg(t) == [kind |-> "Register", token |-> t, exchange |-> NoExchange, application |-> 1,
           value |-> "ok"]
Step(k, t) == [Reg(t) EXCEPT !.kind = k, !.exchange = x1]

TwoEvent == {Reg(t1), Reg(t2), Step("ApplyForTransfer", t1)}
              \union {Step(k, t2) : k \in {"ApplyForTransfer", "CancelTransfer"}}
TwoContents ==
    {{Reg(t1), Reg(t2)}, {Step("ApplyForTransfer", t1)},
     {Step("ApplyForTransfer", t2)}, {Step("CancelTransfer", t2)}}
TwoExchange == [t \in Token |-> x1]
==============================================================================
