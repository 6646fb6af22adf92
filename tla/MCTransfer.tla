------------------------------ MODULE MCTransfer ------------------------------
(* Instances of TransferIndexer for TLC.                                     *)
EXTENDS TransferIndexer

CONSTANTS t1, t2

Ev(k, t, v, s, i) == [kind |-> k, token |-> t, value |-> v, selfTransfer |-> s, n |-> i]

Reg1 == Ev("Register", t1, "ok", FALSE, 1)
Reg2 == Ev("Register", t2, "ok", FALSE, 1)
\* Two Transfer events of one bulk transfer: the same block, the same created time.
Bulk1 == Ev("Transfer", t1, "ok", FALSE, 1)
Bulk2 == Ev("Transfer", t1, "ok", FALSE, 2)
Huge1 == Ev("Transfer", t1, "huge", FALSE, 1)
Unlock1 == Ev("Unlock", t1, "ok", FALSE, 1)
UnlockSelf1 == Ev("Unlock", t1, "ok", TRUE, 1)
Change1 == Ev("ForceChangeLockedAccount", t1, "ok", FALSE, 1)
Transfer2 == Ev("Transfer", t2, "ok", FALSE, 1)
ForceUnlock2 == Ev("ForceUnlock", t2, "ok", FALSE, 1)

MCEvent == {Reg1, Reg2, Bulk1, Bulk2, Huge1, Unlock1, UnlockSelf1, Change1,
            Transfer2, ForceUnlock2}
\* Both tokens exist from the first block on.
MCContents == {{Reg1, Reg2, Unlock1}, {Bulk1, Bulk2, Unlock1, Transfer2},
               {Huge1, UnlockSelf1, Change1, ForceUnlock2}}

\* One token, for the runs with several nodes.
FewEvent == {Reg1, Bulk1, Bulk2, Huge1, Unlock1}
FewContents == {{Reg1}, {Bulk1, Bulk2, Unlock1}, {Huge1, Unlock1}}

MCBlockTime == [b \in Block |-> b]
==============================================================================
