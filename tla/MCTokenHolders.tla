---------------------------- MODULE MCTokenHolders ----------------------------
(* The holders of one of two tokens: of a share, with chunks and locks, on a node *)
(* that has all blocks, or of a membership while its owner or its exchange        *)
(* changes and a node lags behind.                                                *)
EXTENDS TokenHolders, SequencesExt

VARIABLE which

Ev(t, k, f, to, x) == [token |-> t, kind |-> k, from |-> f, to |-> to, at |-> x]

Reg1 == Ev("share", "Register", Zero, Zero, Zero)
Sale1 == Ev("share", "Transfer", "o", "a", Zero)
Trade1 == Ev("share", "HolderChanged", "a", "b", "x")
Lock1 == Ev("share", "Lock", "a", Zero, Zero)
Unlock1 == Ev("share", "Unlock", "a", "b", Zero)
Issue1 == Ev("share", "Issue", Zero, "b", Zero)
Reg2 == Ev("membership", "Register", Zero, Zero, Zero)
Sale2 == Ev("membership", "Transfer", "o", "a", Zero)
Trade2 == Ev("membership", "HolderChanged", "a", "b", "x")

MCTypeOf == [share |-> "Share", membership |-> "Membership"]

Instance ==
    [share |-> [blocks |-> {{Reg1, Sale1, Lock1}, {Sale1, Unlock1}, {Trade1, Issue1}},
                height |-> 3, lag |-> FALSE, changes |-> 0, failures |-> 1],
     membership |-> [blocks |-> {{Reg2, Sale2}, {Trade2}},
                     height |-> 2, lag |-> TRUE, changes |-> 1, failures |-> 0]]

MCContents == UNION {Instance[p].blocks : p \in DOMAIN Instance}
MCEvent == UNION MCContents

MCInit ==
    /\ which \in DOMAIN Instance
    /\ Init
    /\ \A t \in Token : owner[t] = "o" /\ tradable[t] = "x"

Bounds ==
    /\ chain' # chain => Last(chain') \in Instance[which].blocks
    /\ Len(chain') <= Instance[which].height
    /\ changes' <= Instance[which].changes
    /\ failures' <= Instance[which].failures
    /\ head'["n1"] = Len(chain')
    /\ ~Instance[which].lag => head'["n2"] = Len(chain')
    /\ \A t \in Token \ {which} : owner'[t] = owner[t] /\ tradable'[t] = tradable[t]

MCNext == Next /\ Bounds /\ UNCHANGED which

MCSpec == MCInit /\ [][MCNext]_<<vars, which>> /\ WF_vars(Collect)
==============================================================================
