------------------------------ MODULE MCLiveness ------------------------------
(* What must happen in the end, for processes that run on: one of them, which, is *)
(* chosen in the initial state and runs alone.  Variables of the same name are    *)
(* shared, those a process does not have stay 0.                                  *)
EXTENDS Integers, Sequences

VARIABLES which, failures,
          chain, head, listed, rows, sess, latest, targets, from,
          cursor, typeCache, skip, pc,
          started, upto, pass, done, steady,
          height, blocks, txs, number, next, last,
          kind, published, digest, session, table, publications, spoiled,
          posted, queue, batch, current, tried, sent,
          pool, mined, suspended, switches, step, index, result, faults, barred, doubted

chainOnly == <<chain, listed, rows, sess, latest, targets, from>>
transferOnly == <<cursor, typeCache, skip, pc>>
logOnly == <<started, upto, pass, done, steady>>
blockOnly == <<height, blocks, txs, number, next, last>>
listOnly == <<kind, published, digest, session, table, publications, spoiled>>
mailOnly == <<posted, queue, batch, current, tried>>
poolOnly == <<pool, mined, suspended, switches, step, index, result, faults, barred, doubted>>

NoChain == /\ chain = 0 /\ listed = 0 /\ rows = 0 /\ sess = 0 /\ latest = 0 /\ targets = 0
           /\ from = 0
NoTransfers == cursor = 0 /\ typeCache = 0 /\ skip = 0 /\ pc = 0
NoLogSync == started = 0 /\ upto = 0 /\ pass = 0 /\ done = 0 /\ steady = 0
NoBlocks == height = 0 /\ blocks = 0 /\ txs = 0 /\ number = 0 /\ next = 0 /\ last = 0
NoLists == /\ kind = 0 /\ published = 0 /\ digest = 0 /\ session = 0 /\ table = 0
           /\ publications = 0 /\ spoiled = 0
NoMail == posted = 0 /\ queue = 0 /\ batch = 0 /\ current = 0 /\ tried = 0
NoPool == /\ pool = 0 /\ mined = 0 /\ suspended = 0 /\ switches = 0 /\ step = 0 /\ index = 0
          /\ result = 0 /\ faults = 0 /\ barred = 0 /\ doubted = 0

------------------------------------------------------------------------------
(* Transfers of one token on one node; the sync may fail once. *)

Move(k, v, i) == [kind |-> k, token |-> "t1", value |-> v, selfTransfer |-> FALSE, n |-> i]
MoveContents == {{Move("Register", "ok", 1)},
                 {Move("Transfer", "ok", 1), Move("Transfer", "ok", 2), Move("Unlock", "ok", 1)},
                 {Move("Transfer", "huge", 1), Move("Unlock", "ok", 1)}}

Transfers == INSTANCE TransferIndexer WITH
    Token <- {"t1"}, Node <- {"n1"}, Event <- UNION MoveContents, Contents <- MoveContents,
    MaxBlock <- 3, ChunkSize <- 2, BlockTime <- [b \in 1..3 |-> b],
    MaxFailures <- 1, MaxCopies <- 2

TransferInit == /\ which = "transfer" /\ Transfers!Init
                /\ NoLogSync /\ NoBlocks /\ NoLists /\ NoMail /\ NoPool /\ sent = 0
TransferStep == /\ which = "transfer" /\ Transfers!Next
                /\ UNCHANGED <<logOnly, blockOnly, listOnly, mailOnly, poolOnly, sent>>
transferVars == Transfers!vars
TransferFairness == WF_transferVars(which = "transfer" /\ Transfers!SyncNewLogs)

\* EventuallyIndexed of TransferIndexer: no event of a listed token is left out for ever.
EventuallyIndexed ==
    \A b \in 1..3, e \in UNION MoveContents :
        (/\ which = "transfer" /\ b <= Len(chain) /\ e \in chain[b]
         /\ Transfers!Indexable(e) /\ e.token \in listed)
        ~> (which = "transfer" => rows[<<b, e>>] = 1 \/ e.token \notin listed)

------------------------------------------------------------------------------
(* Agreements on one node; a sync may fail once, or the process end. *)

Trade(k, o) == [kind |-> k, exchange |-> "coupon", token |-> "t1", order |-> o,
                agreement |-> 1, amount |-> 1, account |-> "a1", isBuy |-> TRUE, buyer |-> "a1", seller |-> "a2"]
DexContents == {{Trade("NewOrder", "o1"), Trade("Agree", "o1")},
                {Trade("SettlementOK", "o1"), Trade("CancelOrder", "o1")},
                {Trade("NewOrder", "o2"), Trade("Agree", "o2")}}

Dex == INSTANCE DexIndexer WITH
    Token <- {"t1"}, Node <- {"n1"}, Event <- UNION DexContents, Contents <- DexContents,
    MaxBlock <- 3, ChunkSize <- 2, MaxFailures <- 1, MaxSize <- 5,
    Kinds <- <<"NewOrder", "CancelOrder", "ForceCancelOrder", "Agree", "SettlementOK",
               "SettlementNG">>,
    NoRows <- [orders |-> {}, agreements |-> {}]

DexInit == /\ which = "dex" /\ Dex!Init
           /\ NoTransfers /\ NoBlocks /\ NoLists /\ NoMail /\ NoPool /\ sent = 0
DexStep == /\ which = "dex" /\ Dex!Next
           /\ UNCHANGED <<transferOnly, blockOnly, listOnly, mailOnly, poolOnly, sent>>
dexVars == Dex!vars
DexFairness == WF_dexVars(which = "dex" /\ Dex!Process)

\* EveryAgreementIndexed of DexIndexer: an agreement is in the table in the end.
EveryAgreementIndexed ==
    \A e \in {x \in UNION DexContents : x.kind = "Agree"} :
        (which = "dex" /\ \E b \in DOMAIN chain : e \in chain[b])
            ~> (which = "dex" => \E a \in rows.agreements : a.id = Dex!AgreementOf(e))

------------------------------------------------------------------------------
(* Blocks on two nodes. *)

Blocks == INSTANCE BlockIndexer WITH
    Node <- {"n1", "n2"}, MaxHeight <- 3, TxCount <- [b \in 0..3 |-> b % 2], MaxFailures <- 2

BlockInit == /\ which = "block" /\ Blocks!Init
             /\ NoChain /\ NoTransfers /\ NoLogSync /\ NoLists /\ NoMail /\ NoPool /\ sent = 0
BlockStep == /\ which = "block" /\ Blocks!Next
             /\ UNCHANGED <<chainOnly, transferOnly, logOnly, listOnly, mailOnly, poolOnly, sent>>
blockVars == Blocks!vars
BlockFairness == WF_blockVars(which = "block" /\ (Blocks!Start \/ Blocks!IndexBlock))

\* EveryBlockIndexed of BlockIndexer: a block all nodes have is stored in the end.
EveryBlockIndexed ==
    \A b \in 0..3 :
        (which = "block" /\ \A n \in {"n1", "n2"} : b <= head[n]) ~> (which = "block" => number >= b)

------------------------------------------------------------------------------
(* Lists with keys that occur twice, and with items that are not as they should be. *)

Item(k, c, f) == [key |-> k, content |-> c, form |-> f]
Documents == {<<Item("k1", 1, "ok"), Item("k2", 1, "invalid"), Item("k1", 2, "ok")>>,
              <<Item("k2", 1, "partial"), Item("k1", 3, "ok")>>,
              <<Item("k2", 2, "ok"), Item("k1", 3, "alien")>>}

Lists == INSTANCE ListImporter WITH Document <- Documents, MaxPublished <- 2, MaxFailures <- 2

ListsInit == /\ which = "lists" /\ Lists!Init
             /\ head = 0 /\ NoChain /\ NoTransfers /\ NoLogSync /\ NoBlocks /\ NoMail /\ NoPool
             /\ sent = 0
ListsStep == /\ which = "lists" /\ Lists!Next
             /\ UNCHANGED <<head, chainOnly, transferOnly, logOnly, blockOnly, mailOnly, poolOnly,
                            sent>>
listsVars == Lists!vars
ListsFairness == WF_listsVars(which = "lists" /\ Lists!Import)

\* ListImported of ListImporter: the published list is in the table in the end.
ListImported ==
    \A d \in Documents :
        (which = "lists" /\ published = d)
            ~> (which = "lists" => published # d \/ table = Lists!Image(d) \/ spoiled)

------------------------------------------------------------------------------
(* Two mails, one of them to an address that is not allowed, and a chat message. *)

Mails == INSTANCE MailQueue WITH Message <- {"m1", "m2", "c1"}, Chat <- {"c1"},
                                 Barred <- {"m2"}, MaxFailures <- 2

MailInit == /\ which = "mail" /\ Mails!Init
            /\ head = 0 /\ NoChain /\ NoTransfers /\ NoLogSync /\ NoBlocks /\ NoLists /\ NoPool
MailStep == /\ which = "mail" /\ Mails!Next
            /\ UNCHANGED <<head, chainOnly, transferOnly, logOnly, blockOnly, listOnly, poolOnly>>
mailVars == Mails!vars
MailFairness == \A s \in {"mail", "chat"} : WF_mailVars(which = "mail" /\ Mails!Process(s))

\* QueueDrained of MailQueue: every message is done with in the end.
QueueDrained ==
    \A m \in {"m1", "m2", "c1"} : (which = "mail" /\ m \in queue) ~> (which = "mail" => m \notin queue)

------------------------------------------------------------------------------
(* Two requests that overlap. *)

Transaction(s, n, c) ==
    [sender |-> s, nonce |-> n, to |-> c, decodes |-> TRUE, reverts |-> FALSE]
Requests == [r1 |-> <<Transaction("a", 0, "exchange"), Transaction("a", 1, "token")>>,
             r2 |-> <<Transaction("a", 1, "token"), Transaction("a", 3, "exchange")>>]

Eth == INSTANCE TransactionApi WITH
    Request <- {"r1", "r2"}, Raw <- Requests, NoWait <- {}, ListedToken <- "token",
    Executable <- {"token", "exchange"}, MaxSwitches <- 1, MaxFaults <- 1

EthInit == /\ which = "eth" /\ Eth!Init
           /\ head = 0 /\ NoChain /\ NoTransfers /\ NoLogSync /\ NoBlocks /\ NoLists /\ NoMail
           /\ failures = 0
EthStep == /\ which = "eth" /\ Eth!Next
           /\ UNCHANGED <<head, chainOnly, transferOnly, logOnly, blockOnly, listOnly, mailOnly,
                          failures>>
ethVars == Eth!vars
EthFairness == \A r \in {"r1", "r2"} : WF_ethVars(which = "eth" /\ Eth!Handler(r))

\* EveryRequestAnswered of TransactionApi: every request ends, mined or not.
EveryRequestAnswered ==
    \A r \in {"r1", "r2"} :
        (which = "eth" /\ step[r] = "check")
            ~> (which = "eth" => step[r] \in {"done", "refused", "error"})

------------------------------------------------------------------------------
liveVars == <<which, failures, head, chainOnly, transferOnly, logOnly, blockOnly, listOnly,
              mailOnly, sent, poolOnly>>
Init == TransferInit \/ DexInit \/ BlockInit \/ ListsInit \/ MailInit \/ EthInit
Next == /\ TransferStep \/ DexStep \/ BlockStep \/ ListsStep \/ MailStep \/ EthStep
        /\ UNCHANGED which

FairSpec ==
    /\ Init /\ [][Next]_liveVars
    /\ TransferFairness /\ DexFairness /\ BlockFairness
    /\ ListsFairness /\ MailFairness /\ EthFairness
==============================================================================
