-------------------------------- MODULE LogSync --------------------------------
(***************************************************************************)
(* What batch/indexer_DEX.py and batch/indexer_Consume_Coupon.py have in   *)
(* common: the number of the last block read is kept in memory only, so    *)
(* every process begins with an initial sync of the whole chain and relies *)
(* on sinks that add nothing twice.                                        *)
(*                                                                         *)
(* A sync is one session: the events of a range are read kind by kind and  *)
(* committed together at the end.                                          *)
(***************************************************************************)
EXTENDS Chain

CONSTANTS Kinds,        \* kinds of events, in the order they are read
          ChunkSize,    \* blocks per range of the initial sync, 1,000,000 in the code
          NoRows,       \* the tables at first
          MaxFailures   \* bound on exceptions and restarts

VARIABLES
    rows,       \* the committed tables
    sess,       \* the tables as the open session sees them
    latest,     \* latest_block of the process
    started,    \* initial_synced_completed
    targets,    \* tokens of the sync
    from,       \* first block of the range
    upto,       \* newest block of the sync
    pass,       \* kind being read, 0: no sync is going on
    failures,
    done,       \* history: newest block of a sync that was committed
    steady      \* history: events of tokens listed at the time and ever since

syncVars == <<rows, sess, latest, started, targets, from, upto, pass, failures, done>>
vars == <<chainVars, syncVars, steady>>

Heads == {head[n] : n \in Node}
Listed == -1     \* pass: the list of tokens has been read, the block number not yet
Reading(kind) == pass \in DOMAIN Kinds /\ Kinds[pass] = kind

\* The initial sync reads ranges, a later one all new blocks at once.
To == IF started \/ from + ChunkSize - 1 >= upto THEN upto ELSE from + ChunkSize - 1

\* The events of a kind in the range, as a node with h blocks knows them.
InRange(kind, h) ==
    {r \in Block \X Event : /\ r[1] \in from..To
                            /\ r[1] <= h /\ r[1] <= Len(chain)
                            /\ r[2] \in chain[r[1]]
                            /\ r[2].kind = kind}

SyncInit ==
    /\ ChainInit
    /\ rows = NoRows /\ sess = NoRows
    /\ latest = 0 /\ started = FALSE
    /\ targets = {} /\ from = 0 /\ upto = 0 /\ pass = 0
    /\ failures = 0 /\ done = 0 /\ steady = {}

Open(first, last) ==
    /\ from' = first /\ upto' = last
    /\ sess' = rows
    /\ pass' = 1
    /\ UNCHANGED <<chainVars, rows, latest, started, failures, done, steady>>

\* initial_sync, again and again until it succeeds.  Only the listing can change between
\* the block number and the list of tokens, as it can before.
StartInitialSync(tokens) ==
    /\ pass = 0 /\ ~started
    /\ targets' = tokens
    /\ \E h \in Heads : Open(0, h)

\* sync_new_logs reads the list of tokens before the block number, where it has one.
ListTokens(tokens) ==
    /\ pass = 0 /\ started
    /\ targets' = tokens
    /\ pass' = Listed
    /\ UNCHANGED <<chainVars, rows, sess, latest, started, from, upto, failures, done, steady>>

\* Any other block number than the last one begins a sync, a smaller one an empty sync.
StartSync(ready) ==
    /\ pass = ready /\ started
    /\ \E h \in Heads : IF h = latest
                        THEN /\ ready = Listed /\ pass' = 0
                             /\ UNCHANGED <<chainVars, rows, sess, latest, started, from, upto,
                                            failures, done, steady>>
                        ELSE Open(latest + 1, h)
    /\ UNCHANGED targets

\* The events of a kind are applied to the tables of the session; another node may
\* answer what the sink asks the exchange.
Read(kind, Sink(_, _, _)) ==
    /\ Reading(kind)
    /\ \E h, g \in Heads : sess' = Sink(sess, {r[2] : r \in InRange(kind, h)}, g)
    /\ IF pass < Len(Kinds) THEN pass' = pass + 1 /\ UNCHANGED from
       ELSE IF To < upto THEN pass' = 1 /\ from' = To + 1
       ELSE pass' = Len(Kinds) + 1 /\ UNCHANGED from
    /\ UNCHANGED <<chainVars, rows, latest, started, targets, upto, failures, done, steady>>

Commit ==
    /\ pass = Len(Kinds) + 1
    /\ rows' = sess
    /\ latest' = upto /\ started' = TRUE
    /\ pass' = 0
    /\ done' = (IF upto > done THEN upto ELSE done)
    /\ UNCHANGED <<chainVars, sess, targets, from, upto, failures, steady>>

\* Mutant: the blocks of a sync that failed are taken for read.
FailForward ==
    /\ pass # 0 /\ failures < MaxFailures
    /\ pass' = 0 /\ failures' = failures + 1
    /\ latest' = (IF started THEN upto ELSE latest)
    /\ UNCHANGED <<chainVars, rows, sess, started, targets, from, upto, done, steady>>

\* An exception rolls the session back and restores latest_block.
Fail ==
    /\ pass # 0 /\ failures < MaxFailures
    /\ pass' = 0 /\ failures' = failures + 1
    /\ UNCHANGED <<chainVars, rows, sess, latest, started, targets, from, upto, done, steady>>

\* The process ends and is started again.
Restart ==
    /\ failures < MaxFailures
    /\ pass' = 0 /\ latest' = 0 /\ started' = FALSE
    /\ failures' = failures + 1
    /\ UNCHANGED <<chainVars, rows, sess, targets, from, upto, done, steady>>

\* The chain and the listing go on.  A token that was listed after the list of a sync was
\* read and before its block number was is missing in that sync: its events do not count
\* as steady.
World ==
    /\ ChainNext
    /\ steady' = {r \in steady : r[2].token \in listed'}
                   \union {r \in Block \X Event : /\ r[1] = Len(chain') /\ r[1] > Len(chain)
                                                  /\ r[2] \in chain'[r[1]]
                                                  /\ r[2].token \in listed'
                                                  /\ pass = Listed => r[2].token \in targets}
    /\ UNCHANGED syncVars

\* The events of a kind in the committed part of the chain.
Committed(kind) == {e \in Event : e.kind = kind /\ \E b \in 1..done : e \in chain[b]}

SyncTypeOK ==
    /\ ChainTypeOK
    /\ latest \in BlockNumber /\ done \in BlockNumber /\ latest <= done
    /\ started \in BOOLEAN
    /\ from \in 0..MaxBlock + 1 /\ upto \in BlockNumber
    /\ pass \in Listed..Len(Kinds) + 1
    /\ targets \subseteq Token
    /\ failures \in 0..MaxFailures
==============================================================================
