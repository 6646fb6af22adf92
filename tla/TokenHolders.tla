----------------------------- MODULE TokenHolders -----------------------------
(***************************************************************************)
(* batch/indexer_Token_Holders.py, with the requests of                    *)
(* app/api/routers/token.py that create its jobs: who held a token at a    *)
(* given block?                                                            *)
(*                                                                         *)
(* A job adds up the events of the token in a balance book, from the       *)
(* newest finished list of the same token on, chunk by chunk.  The list    *)
(* is saved after every chunk and committed once, with the status.  The    *)
(* book lives in the process: it outlasts a job whose failure could not be *)
(* recorded.                                                               *)
(*                                                                         *)
(* Every amount is 1, and fits.                                            *)
(***************************************************************************)
EXTENDS Chain

CONSTANTS Account,      \* externally owned accounts
          Exchange,     \* contracts of exchanges
          TypeOf,       \* token template of each token
          ChunkSize,    \* blocks per chunk, 1,000,000 in the code
          MaxJobs,      \* bound on collection requests
          MaxFailures,  \* bound on exceptions and restarts
          MaxUnrecorded, \* bound on failures that cannot be recorded
          MaxChanges    \* bound on new owners and new tradable exchanges

Zero == "0x0"           \* ZERO_ADDRESS

ASSUME HoldersAssumption ==
    /\ ChunkSize \in Nat \ {0}
    /\ {MaxJobs, MaxFailures, MaxUnrecorded, MaxChanges} \subseteq Nat
    /\ TypeOf \in [Token -> {"Share", "StraightBond", "Coupon", "Membership"}]
    /\ Account \intersect Exchange = {} /\ Zero \notin Account \union Exchange
    /\ \A block \in Contents : IsFiniteSet(block)

VARIABLES
    owner,       \* the owner of each token in the TokenList contract
    owners,      \* history variable: all owners it ever had
    tradable,    \* tradableExchange of each token
    moved,       \* history variable: tokens that changed their exchange
    changes,
    jobs,        \* TokenHoldersList in the order of the ids, with their TokenHolders
    pc,          \* the next step of collect()
    target,      \* self.target, an index of jobs or 0
    book,        \* self.balance_book, zero for accounts without a page
    saved,       \* rows of TokenHolder of the target, not committed yet
    tokenOwner,  \* self.token_owner_address
    exchange,    \* self.tradable_exchange_address
    blockFrom, blockTo,
    pass,        \* the next pass of __process_all
    behind,      \* history variable: a node without all blocks of a range was asked
    failures, unrecorded

marketVars == <<owner, owners, tradable, moved, changes>>
infoVars == <<tokenOwner, exchange>>
rangeVars == <<blockFrom, blockTo, pass, behind>>
faultVars == <<failures, unrecorded>>
vars == <<chainVars, marketVars, jobs, pc, target, book, saved, infoVars, rangeVars,
          faultVars>>

------------------------------------------------------------------------------
(* The contracts. *)

\* A gain or a loss of 1 in a column of an account.
Move(from, columnFrom, to, columnTo) ==
    {<<from, columnFrom, -1>>, <<to, columnTo, 1>>}

\* What an event means for the accounts.  A deposit to an exchange or a withdrawal
\* leaves the holder as it is.
Effect(e) ==
    CASE e.kind \in {"Transfer", "HolderChanged"} ->
           IF {e.from, e.to} \subseteq Account THEN Move(e.from, "hold", e.to, "hold")
           ELSE {}
      [] e.kind = "Issue" -> {<<e.to, IF e.at = Zero THEN "hold" ELSE "locked", 1>>}
      [] e.kind = "Redeem" -> {<<e.to, IF e.at = Zero THEN "hold" ELSE "locked", -1>>}
      [] e.kind \in {"Lock", "ForceLock"} -> Move(e.from, "hold", e.from, "locked")
      [] e.kind \in {"Unlock", "ForceUnlock"} -> Move(e.from, "locked", e.to, "hold")
      [] e.kind = "ForceChangeLockedAccount" -> Move(e.from, "locked", e.to, "locked")
      [] e.kind = "Consume" -> {<<e.from, "hold", -1>>}
      [] OTHER -> {}

\* The sum of the effects of the events, given as pairs of block and event.
Sum(rows, a, column) ==
    Cardinality({r \in rows : <<a, column, 1>> \in Effect(r[2])})
      - Cardinality({r \in rows : <<a, column, -1>> \in Effect(r[2])})

\* The events of token t in the blocks up to b of chain c.
EventsOf(c, t, b) ==
    UNION {{i} \X {e \in c[i] : e.token = t} : i \in {i \in DOMAIN c : i <= b}}

\* The events the contract of a token emits, and the exchange for it.
Kinds(t) ==
    {"Register", "Transfer", "HolderChanged", "Issue", "Redeem"} \union
    (CASE TypeOf[t] \in {"Share", "StraightBond"} ->
            {"Lock", "ForceLock", "Unlock", "ForceUnlock", "ForceChangeLockedAccount"}
       [] TypeOf[t] = "Coupon" -> {"Consume"}
       [] TypeOf[t] = "Membership" -> {})

\* The contracts pay out no more than an account has; only the owner starts with
\* tokens.  Until a token moves, it is traded on its tradable exchange only.
Legal(c) ==
    /\ \A t \in Token, a \in Account, column \in {"hold", "locked"} :
          Sum(EventsOf(c, t, Len(c)), a, column) < 0 =>
              a \in owners[t] /\ column = "hold"
    /\ \A e \in c[Len(c)] :
          /\ e.kind \in Kinds(e.token)
          /\ e.kind = "HolderChanged" /\ e.token \notin moved => e.at = tradable[e.token]

------------------------------------------------------------------------------
(* The collector. *)

Nothing == [hold |-> 0, locked |-> 0]
EmptyBook == [a \in Account |-> Nothing]
NoRows == [a \in {} |-> Nothing]

\* __process_all: the passes for a token template.
Passes(t) ==
    CASE TypeOf[t] \in {"Share", "StraightBond"} ->
           <<"Transfer", "Issue", "Redeem", "Lock", "ForceLock", "Unlock", "ForceUnlock",
             "ForceChangeLockedAccount">>
      [] TypeOf[t] = "Coupon" -> <<"Transfer", "Issue", "Redeem", "Consume">>
      [] TypeOf[t] = "Membership" -> <<"Transfer", "Issue", "Redeem">>

\* BalanceBook.store for every event.
StoreAll(rows) ==
    [a \in Account |-> [hold |-> book[a].hold + Sum(rows, a, "hold"),
                        locked |-> book[a].locked + Sum(rows, a, "locked")]]

TypeOK ==
    /\ ChainTypeOK
    /\ owner \in [Token -> Account] /\ owners \in [Token -> SUBSET Account]
    /\ tradable \in [Token -> Exchange \union {Zero}] /\ moved \subseteq Token
    /\ changes \in 0..MaxChanges
    /\ Len(jobs) <= MaxJobs
    /\ \A i \in 1..Len(jobs) :
          /\ jobs[i].token \in Token /\ jobs[i].block \in Block
          /\ jobs[i].status \in {"pending", "done", "failed"}
          /\ DOMAIN jobs[i].list \subseteq Account
          /\ jobs[i].list \in [DOMAIN jobs[i].list -> [hold : Int, locked : Int]]
    /\ pc \in {"idle", "token_info", "checkpoint", "process", "save", "done"}
    /\ target \in 0..Len(jobs)
    /\ book \in [Account -> [hold : Int, locked : Int]]
    /\ DOMAIN saved \subseteq Account
    /\ saved \in [DOMAIN saved -> [hold : Int, locked : Int]]
    /\ tokenOwner \in Account \union {Zero} /\ exchange \in Exchange \union {Zero}
    /\ blockFrom \in 0..MaxBlock /\ blockTo \in BlockNumber
    /\ pass \in 1..8
    /\ behind \in BOOLEAN
    /\ failures \in 0..MaxFailures /\ unrecorded \in 0..MaxUnrecorded

\* __init__.
Clear ==
    /\ target' = 0
    /\ book' = EmptyBook
    /\ tokenOwner' = Zero /\ exchange' = Zero

\* What ends with a call of collect() in any case.
EndOfCall ==
    /\ pc' = "idle"
    /\ saved' = NoRows
    /\ blockFrom' = 0 /\ blockTo' = 0 /\ pass' = 1 /\ behind' = FALSE

Init ==
    /\ ChainInit
    /\ owner \in [Token -> Account]
    /\ owners = [t \in Token |-> {owner[t]}]
    /\ tradable \in [Token -> Exchange \union {Zero}]
    /\ moved = {}
    /\ changes = 0
    /\ jobs = <<>>
    /\ pc = "idle"
    /\ target = 0
    /\ book = EmptyBook
    /\ saved = NoRows
    /\ tokenOwner = Zero /\ exchange = Zero
    /\ blockFrom = 0 /\ blockTo = 0 /\ pass = 1 /\ behind = FALSE
    /\ failures = 0 /\ unrecorded = 0

------------------------------------------------------------------------------
(* The API. *)

\* The blocks the nodes that may answer a request have got to.
Heads == {head[n] : n \in Node}

\* create_token_holders_collection: a past block of a listed token, unless the
\* same collection is there already and did not fail.
CreateCollection ==
    /\ Len(jobs) < MaxJobs
    /\ \E t \in listed, h \in Heads, b \in Block :
          /\ b <= h
          /\ ~\E i \in 1..Len(jobs) :
                jobs[i].token = t /\ jobs[i].block = b /\ jobs[i].status # "failed"
          /\ jobs' = Append(jobs, [token |-> t, block |-> b, status |-> "pending",
                                   list |-> NoRows, behind |-> FALSE])
    /\ UNCHANGED <<chainVars, marketVars, pc, target, book, saved, infoVars, rangeVars,
                   faultVars>>

------------------------------------------------------------------------------
(* collect() *)

\* __load_target: any pending job.
LoadTarget ==
    /\ pc = "idle"
    /\ \E i \in 1..Len(jobs) : jobs[i].status = "pending" /\ target' = i
    /\ pc' = "token_info"
    /\ UNCHANGED <<chainVars, marketVars, jobs, book, saved, infoVars, rangeVars, faultVars>>

Job == jobs[target]

\* Mutant: a job of an unknown token is left as it is.
UnknownTokenIgnored ==
    /\ pc = "token_info"
    /\ \E h \in Heads : ~RegisteredAt(Job.token, h)
    /\ Clear
    /\ EndOfCall
    /\ UNCHANGED <<chainVars, marketVars, jobs, faultVars>>

\* __load_token_info finds no token: the job fails.
UnknownToken ==
    /\ pc = "token_info"
    /\ \E h \in Heads : ~RegisteredAt(Job.token, h)
    /\ jobs' = [jobs EXCEPT ![target].status = "failed"]
    /\ Clear
    /\ EndOfCall
    /\ UNCHANGED <<chainVars, marketVars, faultVars>>

LoadTokenInfo ==
    /\ pc = "token_info"
    /\ \E h \in Heads : RegisteredAt(Job.token, h)
    /\ tokenOwner' = owner[Job.token]
    /\ exchange' = tradable[Job.token]
    /\ pc' = "checkpoint"
    /\ UNCHANGED <<chainVars, marketVars, jobs, target, book, saved, rangeVars, faultVars>>

\* Mutant: the last chunk goes on after the block of the job.
ChunkEndUncapped(from) == from + ChunkSize - 1

\* The last block of the chunk that begins with block from.
ChunkEnd(from) ==
    IF Job.block > from + ChunkSize - 1 THEN from + ChunkSize - 1 ELSE Job.block

\* Mutant: any list of the token will do, finished or not.
EarlierAny ==
    {i \in 1..Len(jobs) : jobs[i].token = Job.token /\ jobs[i].block < Job.block}

\* The finished lists of the token before the target's block.
Earlier ==
    {i \in 1..Len(jobs) : /\ jobs[i].status = "done"
                          /\ jobs[i].token = Job.token
                          /\ jobs[i].block < Job.block}

\* __load_checkpoint: the newest of them goes to the book.
LoadCheckpoint ==
    /\ pc = "checkpoint"
    /\ IF Earlier = {} THEN blockFrom' = 0 /\ UNCHANGED <<book, behind>>
       ELSE \E i \in Earlier :
              /\ \A j \in Earlier : jobs[j].block <= jobs[i].block
              /\ blockFrom' = jobs[i].block + 1
              /\ behind' = jobs[i].behind
              /\ book' = [a \in Account |->
                    IF a \notin DOMAIN jobs[i].list THEN book[a]
                    ELSE [hold |-> book[a].hold + jobs[i].list[a].hold,
                          locked |-> book[a].locked + jobs[i].list[a].locked]]
    /\ blockTo' = ChunkEnd(blockFrom')
    /\ pass' = 1
    /\ pc' = "process"
    /\ UNCHANGED <<chainVars, marketVars, jobs, target, saved, infoVars, faultVars>>

\* The logs a pass asks a node with h blocks for, and the Transfer pass the exchange
\* on a node with g blocks.  Tokens issued into or redeemed out of a lock are left out.
LogsOf(k, h, g) ==
    {r \in Logs(Job.token, k, blockFrom, blockTo, h) :
        k \in {"Issue", "Redeem"} => r[2].at = Zero}
    \union {r \in Logs(Job.token, "HolderChanged", blockFrom, blockTo, g) :
               k = "Transfer" /\ r[2].at = exchange}

\* One pass of __process_all.
Process ==
    /\ pc = "process"
    /\ \E h, g \in Heads :
          /\ book' = StoreAll(LogsOf(Passes(Job.token)[pass], h, g))
          /\ behind' = (behind \/ h < blockTo \/ g < blockTo)
    /\ IF pass < Len(Passes(Job.token)) THEN pass' = pass + 1 /\ UNCHANGED pc
       ELSE pass' = 1 /\ pc' = "save"
    /\ UNCHANGED <<chainVars, marketVars, jobs, target, saved, infoVars, blockFrom, blockTo,
                   faultVars>>

\* __save_holders: not the owner, and new rows only for those who have something.
Held ==
    {a \in Account \ {tokenOwner} :
        a \in DOMAIN saved \/ book[a].hold > 0 \/ book[a].locked > 0}

\* The rows of the list are inserted or updated, and the next chunk begins.
SaveHolders ==
    /\ pc = "save"
    /\ saved' = [a \in Held \union DOMAIN saved |->
                    IF a \in Held THEN book[a] ELSE saved[a]]
    /\ IF blockTo < Job.block
       THEN /\ blockFrom' = blockFrom + ChunkSize
            /\ blockTo' = ChunkEnd(blockFrom')
            /\ pc' = "process"
       ELSE pc' = "done" /\ UNCHANGED <<blockFrom, blockTo>>
    /\ UNCHANGED <<chainVars, marketVars, jobs, target, book, infoVars, pass, behind,
                   faultVars>>

\* __update_status(DONE) and the commit: rows of non-holders are deleted.
UpdateStatus ==
    /\ pc = "done"
    /\ LET holders == {a \in DOMAIN saved : saved[a] # Nothing}
       IN  jobs' = [jobs EXCEPT ![target].status = "done",
                                ![target].list = [a \in holders |-> saved[a]],
                                ![target].behind = behind]
    /\ Clear
    /\ EndOfCall
    /\ UNCHANGED <<chainVars, marketVars, faultVars>>

\* Mutant: the rows of a failed job are not rolled back.
AbortWithoutRollback ==
    /\ target # 0
    /\ failures < MaxFailures
    /\ failures' = failures + 1
    /\ jobs' = [jobs EXCEPT ![target].status = "failed", ![target].list = saved]
    /\ Clear
    /\ EndOfCall
    /\ UNCHANGED <<chainVars, marketVars, unrecorded>>

\* An exception: rollback, and the job has failed.  When the database does not take
\* this either, __update_status stops at its merge: the job stays pending, and
\* target and book as they are.
Abort ==
    /\ target # 0
    /\ failures < MaxFailures
    /\ failures' = failures + 1
    /\ \/ /\ jobs' = [jobs EXCEPT ![target].status = "failed"]
          /\ Clear
          /\ UNCHANGED unrecorded
       \/ /\ unrecorded < MaxUnrecorded
          /\ unrecorded' = unrecorded + 1
          /\ UNCHANGED <<jobs, target, book, infoVars>>
    /\ EndOfCall
    /\ UNCHANGED <<chainVars, marketVars>>

\* The process is started again, or a commit fails after __update_status has cleared
\* everything: the job is still pending.
Restart ==
    /\ failures < MaxFailures
    /\ failures' = failures + 1
    /\ Clear
    /\ EndOfCall
    /\ UNCHANGED <<chainVars, marketVars, jobs, unrecorded>>

------------------------------------------------------------------------------
ChangeOwner ==
    /\ changes < MaxChanges
    /\ changes' = changes + 1
    /\ \E t \in Token, a \in Account :
          /\ owner[t] # a
          /\ owner' = [owner EXCEPT ![t] = a]
          /\ owners' = [owners EXCEPT ![t] = @ \union {a}]
    /\ UNCHANGED <<tradable, moved>>

SetTradableExchange ==
    /\ changes < MaxChanges
    /\ changes' = changes + 1
    /\ \E t \in Token, x \in Exchange \union {Zero} :
          /\ tradable[t] # x
          /\ tradable' = [tradable EXCEPT ![t] = x]
          /\ moved' = moved \union {t}
    /\ UNCHANGED <<owner, owners>>

Environment ==
    /\ \/ ChainNext /\ (chain' # chain => Legal(chain')) /\ UNCHANGED marketVars
       \/ (ChangeOwner \/ SetTradableExchange) /\ UNCHANGED chainVars
    /\ UNCHANGED <<jobs, pc, target, book, saved, infoVars, rangeVars, faultVars>>

Collect ==
    \/ LoadTarget \/ UnknownToken \/ LoadTokenInfo \/ LoadCheckpoint
    \/ Process \/ SaveHolders \/ UpdateStatus

Next == CreateCollection \/ Collect \/ Abort \/ Restart \/ Environment

Spec == Init /\ [][Next]_vars

\* main() calls collect() again and again.
FairSpec == Spec /\ WF_vars(Collect)

------------------------------------------------------------------------------
\* What account a has of the job's token at the job's block.
HoldingAt(i, a) ==
    LET rows == EventsOf(chain, jobs[i].token, jobs[i].block)
    IN  [hold |-> Sum(rows, a, "hold"), locked |-> Sum(rows, a, "locked")]

\* "Returns a list of token holders at specific block number": a finished list shows
\* every account that is not and never was the owner with what it had at the block,
\* whatever checkpoint, chunks, failures and restarts it came about with, as long
\* as the token is traded on one exchange and the nodes asked, for this list and for
\* its checkpoint, had the blocks.
HoldersAtBlock ==
    \A i \in 1..Len(jobs) :
        jobs[i].status = "done" /\ ~jobs[i].behind /\ jobs[i].token \notin moved =>
            \A a \in Account \ owners[jobs[i].token] :
                IF a \in DOMAIN jobs[i].list THEN jobs[i].list[a] = HoldingAt(i, a)
                ELSE HoldingAt(i, a) = Nothing

\* The API answers with the rows of a list whatever its status: one that is pending
\* or failed has none, and a finished one does not change, as others start from it.
ListsAppearOnce ==
    [][\A i \in 1..Len(jobs) :
          jobs'[i].list # jobs[i].list =>
              jobs[i].status = "pending" /\ jobs'[i].status = "done"]_vars

\* main() takes one pending job after another: each of them ends, finished or failed,
\* although a failure or a restart may leave the one in progress pending.
JobsEnd ==
    \A i \in 1..MaxJobs :
        (i <= Len(jobs) /\ jobs[i].status = "pending")
        ~> (i <= Len(jobs) /\ jobs[i].status # "pending")
==============================================================================
