----------------------------- MODULE TransactionApi -----------------------------
(***************************************************************************)
(* POST /Eth/SendRawTransaction and /Eth/SendRawTransactionNoWait of       *)
(* app/api/routers/eth.py: requests with several signed transactions each, *)
(* handled concurrently, against the pool of the node, which knows a       *)
(* transaction once, orders the transactions of a sender by nonce and      *)
(* mines them in its own time.                                             *)
(*                                                                         *)
(* A transaction is a record: sender, nonce, the contract it goes to,      *)
(* whether it can be decoded and whether the contract reverts it.          *)
(***************************************************************************)
EXTENDS Integers, Sequences, FiniteSets

CONSTANTS Request,      \* requests of clients
          Raw,          \* raw_tx_hex_list of each request
          NoWait,       \* the requests to SendRawTransactionNoWait
          ListedToken,  \* the listed token that may be suspended
          Executable,   \* ExecutableContract and the contracts of the configuration
          MaxSwitches,  \* bound on changes of the status of the token
          MaxFaults     \* bound on lost answers and errors of the node

\* A request has one transaction at least.
Assumption ==
    /\ NoWait \subseteq Request
    /\ \A r \in Request : /\ Raw[r] \in Seq({Raw[r][i] : i \in DOMAIN Raw[r]}) \ {<<>>}
                          /\ \A i \in DOMAIN Raw[r] : Raw[r][i].nonce \in Nat
    /\ {MaxSwitches, MaxFaults} \subseteq Nat

VARIABLES
    pool,       \* transactions the node has accepted and not mined
    mined,      \* transactions in blocks
    suspended,  \* status of the token is false
    switches,
    step,       \* position of the handler of each request
    index,      \* the transaction of the request it is at
    result,     \* its answer so far
    faults,
    sent,       \* history: transactions each request has got accepted
    barred,     \* history: the token has been suspended since the request began
    doubted     \* history: answers of 0 for a transaction the node had accepted

handling == <<step, index, result>>
history == <<sent, barred, doubted>>
vars == <<pool, mined, suspended, switches, handling, faults, history>>

Tx == UNION {{Raw[r][i] : i \in DOMAIN Raw[r]} : r \in Request}
Current(r) == Raw[r][index[r]]
Steps == {"idle", "check", "pause", "send", "wait", "inspect", "done", "refused", "error"}

------------------------------------------------------------------------------
(* The node. *)

NextNonce(a) == Cardinality({t \in mined : t.sender = a})

\* Transactions behind a gap in the nonces of their sender wait in the queue.
Queued(t) ==
    /\ t \in pool
    /\ \E n \in NextNonce(t.sender)..t.nonce - 1 :
          \A u \in pool : u.sender = t.sender => u.nonce # n

Accept(r, t) ==
    /\ pool' = pool \union {t}
    /\ sent' = [sent EXCEPT ![r] = @ \union {t}]

MineBlock ==
    /\ \E t \in pool : /\ t.nonce = NextNonce(t.sender)
                       /\ mined' = mined \union {t} /\ pool' = pool \ {t}
    /\ UNCHANGED <<suspended, switches, handling, faults, history>>

Switch ==
    /\ switches < MaxSwitches
    /\ switches' = switches + 1
    /\ suspended' = ~suspended
    /\ barred' = [r \in Request |-> barred[r] /\ (suspended' \/ step[r] \notin {"idle", "check"})]
    /\ UNCHANGED <<pool, mined, handling, faults, sent, doubted>>

------------------------------------------------------------------------------
(* A request. *)

Init ==
    /\ pool = {} /\ mined = {}
    /\ suspended \in BOOLEAN /\ switches = 0
    /\ step = [r \in Request |-> "idle"] /\ index = [r \in Request |-> 1]
    /\ result = [r \in Request |-> <<>>]
    /\ faults = 0
    /\ sent = [r \in Request |-> {}] /\ barred = [r \in Request |-> FALSE]
    /\ doubted = {}

node == <<pool, mined, suspended, switches>>

Goto(r, s, i) == step' = [step EXCEPT ![r] = s] /\ index' = [index EXCEPT ![r] = i]

Begin(r) ==
    /\ step[r] = "idle"
    /\ Goto(r, "check", 1)
    /\ barred' = [barred EXCEPT ![r] = suspended]
    /\ UNCHANGED <<node, result, faults, sent, doubted>>

\* Mutant: only the first transaction is checked.
CheckFirstToken(r) ==
    /\ step[r] = "check"
    /\ IF Current(r).decodes /\ Current(r).to = ListedToken /\ suspended
       THEN Goto(r, "refused", index[r])
       ELSE Goto(r, "pause", 1)
    /\ UNCHANGED <<node, result, faults, history>>

\* Before anything is sent, the tokens of all transactions are checked.
CheckToken(r) ==
    /\ step[r] = "check"
    /\ IF Current(r).decodes /\ Current(r).to = ListedToken /\ suspended
       THEN Goto(r, "refused", index[r])
       ELSE IF index[r] < Len(Raw[r]) THEN Goto(r, "check", index[r] + 1)
       ELSE Goto(r, "pause", 1)
    /\ UNCHANGED <<node, result, faults, history>>

\* A full pool delays the request, but never refuses it.
Pause(r) ==
    /\ step[r] = "pause"
    /\ Goto(r, "send", 1)
    /\ UNCHANGED <<node, result, faults, history>>

Answer(r, status) ==
    /\ result' = [result EXCEPT ![r] = Append(@, status)]
    /\ IF index[r] < Len(Raw[r]) THEN Goto(r, "send", index[r] + 1)
                                 ELSE Goto(r, "done", index[r])

Sendable(t) == t.decodes /\ t.to \in Executable

NotSendable(r) ==
    /\ step[r] = "send" /\ ~Sendable(Current(r))
    /\ Answer(r, 0)
    /\ UNCHANGED <<node, faults, history>>

\* send_raw_transaction: what the node does not take is answered at once, by the
\* message of its error.
Refused(r) ==
    LET t == Current(r)
        rival == \E u \in pool : u.sender = t.sender /\ u.nonce = t.nonce /\ u # t
    IN  /\ step[r] = "send" /\ Sendable(t)
        /\ \/ t.nonce < NextNonce(t.sender) /\ Answer(r, 3)
           \/ t \in pool /\ Answer(r, 4)
           \/ t.nonce >= NextNonce(t.sender) /\ rival /\ Answer(r, 0)
        /\ UNCHANGED <<node, faults, history>>

New(t) == /\ t.nonce >= NextNonce(t.sender)
          /\ \A u \in pool : u.sender # t.sender \/ u.nonce # t.nonce

\* The transaction is accepted: one handler waits for it, the other one goes on.
Accepted(r) ==
    /\ step[r] = "send" /\ Sendable(Current(r)) /\ New(Current(r))
    /\ Accept(r, Current(r))
    /\ IF r \in NoWait THEN Answer(r, 1) ELSE Goto(r, "wait", index[r]) /\ UNCHANGED result
    /\ UNCHANGED <<mined, suspended, switches, faults, barred, doubted>>

\* The transaction is accepted but the answer is lost: the fail-over provider sends the
\* request again, until it gives up.
LostAnswer(r) ==
    /\ step[r] = "send" /\ Sendable(Current(r)) /\ New(Current(r)) /\ faults < MaxFaults
    /\ Accept(r, Current(r))
    /\ faults' = faults + 1
    /\ \/ UNCHANGED <<handling, doubted>>
       \/ Answer(r, 0) /\ doubted' = doubted \union {Current(r)}
    /\ UNCHANGED <<mined, suspended, switches, barred>>

\* Mutant: a transaction that is mined was executed.
ReceiptOfAny(r) ==
    /\ step[r] = "wait" /\ Current(r) \in mined
    /\ Answer(r, 1)
    /\ UNCHANGED <<node, faults, history>>

\* The receipt: the status of the transaction.
Receipt(r) ==
    /\ step[r] = "wait" /\ Current(r) \in mined
    /\ Answer(r, IF Current(r).reverts THEN 0 ELSE 1)
    /\ UNCHANGED <<node, faults, history>>

\* Mutant: the time of a transaction that cannot be mined does not run.
TimeExhaustedUnlessQueued(r) ==
    /\ step[r] = "wait" /\ Current(r) \notin mined /\ ~Queued(Current(r))
    /\ Goto(r, "inspect", index[r])
    /\ UNCHANGED <<node, result, faults, history>>

\* TRANSACTION_WAIT_TIMEOUT.
TimeExhausted(r) ==
    /\ step[r] = "wait" /\ Current(r) \notin mined
    /\ Goto(r, "inspect", index[r])
    /\ UNCHANGED <<node, result, faults, history>>

\* The pool is asked: a transaction that waits behind a gap is a failure.
InspectPool(r) ==
    /\ step[r] = "inspect"
    /\ Answer(r, IF Queued(Current(r)) THEN 0 ELSE 2)
    /\ doubted' = IF Queued(Current(r)) THEN doubted \union {Current(r)} ELSE doubted
    /\ UNCHANGED <<node, faults, sent, barred>>

\* The node fails while it is asked for a receipt or its pool.  A failure of
\* txpool.status or txpool.inspect is not handled: the answers so far are lost.
NodeFails(r) ==
    /\ faults < MaxFaults /\ faults' = faults + 1
    /\ \/ step[r] = "wait" /\ Answer(r, 0) /\ doubted' = doubted \union {Current(r)}
       \/ step[r] \in {"pause", "inspect"} /\ Goto(r, "error", index[r])
          /\ UNCHANGED <<result, doubted>>
    /\ UNCHANGED <<node, sent, barred>>

SendTransaction(r) == NotSendable(r) \/ Refused(r) \/ Accepted(r) \/ LostAnswer(r)
WaitForReceipt(r) == Receipt(r) \/ TimeExhausted(r) \/ InspectPool(r)

SendRawTransaction ==
    \E r \in Request \ NoWait : \/ Begin(r) \/ CheckToken(r) \/ Pause(r)
                                \/ SendTransaction(r) \/ WaitForReceipt(r) \/ NodeFails(r)
SendRawTransactionNoWait ==
    \E r \in NoWait : \/ Begin(r) \/ CheckToken(r) \/ Pause(r)
                      \/ SendTransaction(r) \/ NodeFails(r)

Next == MineBlock \/ Switch \/ SendRawTransaction \/ SendRawTransactionNoWait

Spec == Init /\ [][Next]_vars

\* A handler that has begun runs to its end, its waits are bounded.
Handler(r) == CheckToken(r) \/ Pause(r) \/ SendTransaction(r) \/ WaitForReceipt(r)
FairSpec == Spec /\ \A r \in Request : WF_vars(Handler(r))

------------------------------------------------------------------------------
(* Properties. *)

TypeOK ==
    /\ pool \subseteq Tx /\ mined \subseteq Tx
    /\ step \in [Request -> Steps]
    /\ \A r \in Request : /\ index[r] \in DOMAIN Raw[r]
                          /\ \A i \in DOMAIN result[r] : result[r][i] \in 0..4
                          /\ step[r] = "done" => Len(result[r]) = Len(Raw[r])
    /\ switches \in 0..MaxSwitches /\ faults \in 0..MaxFaults

\* While a token is suspended, a request with a transaction for it sends nothing at
\* all, wherever in the request that transaction is.
SuspendedSendsNothing ==
    \A r \in Request :
        (barred[r] /\ \E i \in DOMAIN Raw[r] : Raw[r][i].decodes /\ Raw[r][i].to = ListedToken) =>
            sent[r] = {}

\* What a client is told of a transaction is true, and stays so, whatever other
\* requests did with it: executed, pending, nonce used, known.
AnswersAreTrue ==
    \A r \in Request : \A i \in DOMAIN result[r] :
        LET t == Raw[r][i]
            a == result[r][i]
        IN  /\ a = 1 => IF r \in NoWait THEN t \in pool \union mined
                                        ELSE t \in mined /\ ~t.reverts
            /\ a \in {2, 4} => t \in pool \union mined
            /\ a = 3 => t.nonce < NextNonce(t.sender)

\* A transaction reported as failed may be executed all the same only if the node had
\* taken it, but it waited behind a gap when its time was over, or the node failed.
FailureExplained ==
    \A r \in Request : \A i \in DOMAIN result[r] :
        (result[r][i] = 0 /\ Raw[r][i] \in mined /\ ~Raw[r][i].reverts) =>
            Raw[r][i] \in doubted

\* Every request is answered in the end, whether its transactions are mined or not.
EveryRequestAnswered ==
    \A r \in Request : (step[r] = "check") ~> (step[r] \in {"done", "refused", "error"})
==============================================================================
