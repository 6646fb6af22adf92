-------------------------- MODULE TokenHolders_proofs --------------------------
(***************************************************************************)
(* Proofs about the collector of token holders.                            *)
(*                                                                         *)
(* The inductive invariant says which events the book of balances stands   *)
(* for at every step of a job: those of the chunks done and, within the    *)
(* chunk, those of the passes done.  A list is then right because the list *)
(* it continues from was, and because an account that is not in a list had *)
(* nothing: no account goes below zero on the chain.                       *)
(***************************************************************************)
EXTENDS TokenHolders, FiniteSetTheorems, TLAPS

------------------------------------------------------------------------------
(* The invariant. *)

\* What the rows say of the account.
Balances(rows, a) == [hold |-> Sum(rows, a, "hold"), locked |-> Sum(rows, a, "locked")]

\* Kinds of events the passes done in this chunk have read.
KindsRead ==
    {Passes(Job.token)[j] : j \in 1..pass - 1}
      \union IF pass = 1 THEN {} ELSE {"HolderChanged"}

\* The events the book stands for: those of earlier chunks and checkpoints, and in the
\* chunk those of the passes done.
Read ==
    LET rows == EventsOf(chain, Job.token, blockTo)
    IN  IF pc = "process" THEN {r \in rows : r[1] < blockFrom \/ r[2].kind \in KindsRead}
        ELSE rows

\* The job in progress will be what HoldersAtBlock speaks of.
Reliable == ~behind /\ Job.token \notin moved

\* The accounts HoldersAtBlock speaks of.
Others(t) == Account \ owners[t]

Amount == [hold : Int, locked : Int]
Lists == UNION {[S -> Amount] : S \in SUBSET Account}
JobRecord == [token : Token, block : Block, status : {"pending", "done", "failed"},
              list : Lists, behind : BOOLEAN]

JobsInv == jobs \in Seq(JobRecord)

ChainInv ==
    /\ \A i \in DOMAIN chain : chain[i] \in Contents
    /\ \A t \in Token : /\ owner[t] \in owners[t]
                        /\ IsFiniteSet(EventsOf(chain, t, Len(chain)))
    /\ \A t \in Token, a \in Account, column \in {"hold", "locked"}, b \in 0..Len(chain) :
          Sum(EventsOf(chain, t, b), a, column) < 0 => a \in owners[t]
    /\ \A i \in DOMAIN chain : \A e \in chain[i] :
          /\ e.kind \in Kinds(e.token)
          /\ e.kind = "HolderChanged" /\ e.token \notin moved => e.at = tradable[e.token]

\* The target is a pending job of a block the chain has; between two jobs there is none,
\* and the book is empty.
TargetInv ==
    /\ \A i \in 1..Len(jobs) : jobs[i].block <= Len(chain)
    /\ pc # "idle" => target # 0
    /\ target # 0 => Job.status = "pending"

IdleInv ==
    /\ pc = "idle" => target = 0
    /\ pc \in {"idle", "token_info", "checkpoint"} => book = EmptyBook
    /\ pc \in {"idle", "token_info", "checkpoint"} => saved = NoRows

\* What a job reads: its chunk, and the contracts it knows.
RangeInv ==
    /\ pc \in {"checkpoint", "process", "save", "done"} =>
          /\ tokenOwner \in owners[Job.token]
          /\ Job.token \notin moved => exchange = tradable[Job.token]
    /\ pc \in {"process", "save", "done"} =>
          blockFrom <= blockTo /\ blockTo = ChunkEnd(blockFrom)
    /\ pc = "process" => pass \in 1..Len(Passes(Job.token))
    /\ pc = "done" => blockTo = Job.block
    /\ pc # "process" => pass = 1

BookInv ==
    pc \in {"process", "save", "done"} /\ Reliable =>
        \A a \in Others(Job.token) : book[a] = Balances(Read, a)

SavedInv ==
    pc = "done" /\ Reliable =>
        \A a \in Others(Job.token) :
            IF a \in DOMAIN saved THEN saved[a] = HoldingAt(target, a)
            ELSE HoldingAt(target, a) = Nothing

\* What holds for all constants, and what needs that every failure is recorded.
BaseInv == TypeOK /\ JobsInv /\ ChainInv /\ TargetInv /\ RangeInv
HoldersInv == BaseInv /\ IdleInv /\ BookInv /\ SavedInv /\ HoldersAtBlock

------------------------------------------------------------------------------
(* Events and sums. *)

\* The events of a token, one by one.
LEMMA EventsAre ==
  ASSUME NEW c, NEW t, NEW b, NEW r
  PROVE  r \in EventsOf(c, t, b) <=>
            \E i \in DOMAIN c : i <= b /\ \E e \in c[i] : e.token = t /\ r = <<i, e>>
BY DEF EventsOf

\* A new block adds its events and changes nothing before it.
Longer(c, d, block, t) ==
    /\ \A b \in 0..Len(c) : EventsOf(d, t, b) = EventsOf(c, t, b)
    /\ EventsOf(d, t, Len(c) + 1) =
          EventsOf(c, t, Len(c)) \union ({Len(c) + 1} \X {e \in block : e.token = t})

\* A new block adds its events of a token, at its end only.
LEMMA EventsOfLonger ==
  ASSUME NEW c, c \in Seq(SUBSET Event), NEW block \in SUBSET Event, NEW t
  PROVE  Longer(c, Append(c, block), block, t)
<1> DEFINE d == Append(c, block)
<1>1. /\ DOMAIN c = 1..Len(c) /\ DOMAIN d = 1..Len(c) + 1 /\ Len(c) \in Nat
      /\ \A i \in 1..Len(c) : d[i] = c[i]
      /\ d[Len(c) + 1] = block
  OBVIOUS
<1> HIDE DEF d
<1>2. ASSUME NEW b \in 0..Len(c), NEW r
      PROVE  r \in EventsOf(d, t, b) <=> r \in EventsOf(c, t, b)
  BY <1>1, EventsAre
<1>3. ASSUME NEW r
      PROVE  r \in EventsOf(d, t, Len(c) + 1) <=>
                r \in EventsOf(c, t, Len(c)) \union
                        ({Len(c) + 1} \X {e \in block : e.token = t})
  BY <1>1, EventsAre
<1>4. Longer(c, d, block, t)
  BY <1>2, <1>3 DEF Longer
<1> QED
  BY <1>4 DEF d

\* The gains and the losses of an account in a set of events.
Gains(rows, a, column) == {r \in rows : <<a, column, 1>> \in Effect(r[2])}
Losses(rows, a, column) == {r \in rows : <<a, column, -1>> \in Effect(r[2])}

\* A sum of changes is the number of gains less that of losses.
LEMMA SumIs ==
  ASSUME NEW rows, NEW a, NEW column
  PROVE  Sum(rows, a, column) =
            Cardinality(Gains(rows, a, column)) - Cardinality(Losses(rows, a, column))
BY DEF Sum, Gains, Losses

\* The sum of finitely many changes is a number.
LEMMA SumType ==
  ASSUME NEW rows, IsFiniteSet(rows), NEW a, NEW column
  PROVE  Sum(rows, a, column) \in Int
<1>1. /\ Gains(rows, a, column) \in SUBSET rows
      /\ Losses(rows, a, column) \in SUBSET rows
  BY DEF Gains, Losses
<1>2. /\ Cardinality(Gains(rows, a, column)) \in Nat
      /\ Cardinality(Losses(rows, a, column)) \in Nat
  BY <1>1, FS_Subset, FS_CardinalityType
<1> QED
  BY <1>2, SumIs

\* The parts of a finite set are counted one by one.
LEMMA CardinalityOfParts ==
  ASSUME NEW R, IsFiniteSet(R), NEW T, IsFiniteSet(T), R \intersect T = {}
  PROVE  Cardinality(R \union T) = Cardinality(R) + Cardinality(T)
<1>1. Cardinality(R) \in Nat /\ Cardinality(T) \in Nat /\ Cardinality({}) = 0
  BY FS_CardinalityType, FS_EmptySet
<1>2. Cardinality(R \union T) = Cardinality(R) + Cardinality(T) - Cardinality(R \intersect T)
  BY FS_Union
<1>3. Cardinality(R \intersect T) = 0
  BY <1>1, Zenon
<1> QED
  BY <1>1, <1>2, <1>3

\* What is read in two parts adds up.
LEMMA SumOfParts ==
  ASSUME NEW R, IsFiniteSet(R), NEW T, IsFiniteSet(T), R \intersect T = {},
         NEW a, NEW column
  PROVE  Sum(R \union T, a, column) = Sum(R, a, column) + Sum(T, a, column)
<1>1. /\ IsFiniteSet(Gains(R, a, column)) /\ IsFiniteSet(Gains(T, a, column))
      /\ IsFiniteSet(Losses(R, a, column)) /\ IsFiniteSet(Losses(T, a, column))
  <2>1. /\ Gains(R, a, column) \in SUBSET R /\ Gains(T, a, column) \in SUBSET T
        /\ Losses(R, a, column) \in SUBSET R /\ Losses(T, a, column) \in SUBSET T
    BY DEF Gains, Losses
  <2> QED
    BY <2>1, FS_Subset
<1>2. /\ Gains(R \union T, a, column) = Gains(R, a, column) \union Gains(T, a, column)
      /\ Losses(R \union T, a, column) = Losses(R, a, column) \union Losses(T, a, column)
      /\ Gains(R, a, column) \intersect Gains(T, a, column) = {}
      /\ Losses(R, a, column) \intersect Losses(T, a, column) = {}
  BY DEF Gains, Losses
<1>3. Cardinality(Gains(R \union T, a, column)) =
         Cardinality(Gains(R, a, column)) + Cardinality(Gains(T, a, column))
  BY <1>1, <1>2, CardinalityOfParts
<1>4. Cardinality(Losses(R \union T, a, column)) =
         Cardinality(Losses(R, a, column)) + Cardinality(Losses(T, a, column))
  BY <1>1, <1>2, CardinalityOfParts
<1>5. /\ Cardinality(Gains(R, a, column)) \in Nat /\ Cardinality(Gains(T, a, column)) \in Nat
      /\ Cardinality(Losses(R, a, column)) \in Nat /\ Cardinality(Losses(T, a, column)) \in Nat
  BY <1>1, FS_CardinalityType
<1> QED
  BY <1>3, <1>4, <1>5, SumIs

\* Events without an effect do not count.
LEMMA SumOfEffects ==
  ASSUME NEW R, NEW T, T \subseteq R, \A r \in R \ T : Effect(r[2]) = {}, NEW a, NEW column
  PROVE  Sum(R, a, column) = Sum(T, a, column)
<1>1. Gains(R, a, column) = Gains(T, a, column) /\ Losses(R, a, column) = Losses(T, a, column)
  BY DEF Gains, Losses
<1> QED
  BY <1>1, SumIs

\* Without events nobody holds anything.
LEMMA NoEvents ==
  ASSUME NEW a
  PROVE  Balances({}, a) = Nothing
<1>1. ASSUME NEW column
      PROVE  Sum({}, a, column) = 0
  <2>1. Gains({}, a, column) = {} /\ Losses({}, a, column) = {}
    BY DEF Gains, Losses
  <2> QED
    BY <2>1, SumIs, FS_EmptySet
<1> QED
  BY <1>1 DEF Balances, Nothing

\* The passes of a token: no kind of event is read twice, and all kinds its contract emits
\* are read, but for its registration and trades.
LEMMA PassesAre ==
  ASSUME NEW t \in Token
  PROVE  /\ Len(Passes(t)) \in 1..8
         /\ \A j, k \in 1..Len(Passes(t)) : j # k => Passes(t)[j] # Passes(t)[k]
         /\ Passes(t)[1] = "Transfer"
         /\ \A j \in 1..Len(Passes(t)) :
               Passes(t)[j] # "HolderChanged" /\ (Passes(t)[j] = "Transfer" => j = 1)
         /\ Kinds(t) \ {"Register", "HolderChanged"} \subseteq
               {Passes(t)[j] : j \in 1..Len(Passes(t))}
<1>1. TypeOf[t] \in {"Share", "StraightBond", "Coupon", "Membership"}
  BY HoldersAssumption
<1>2. CASE TypeOf[t] \in {"Share", "StraightBond"}
  <2>1. Passes(t) = <<"Transfer", "Issue", "Redeem", "Lock", "ForceLock", "Unlock",
                      "ForceUnlock", "ForceChangeLockedAccount">>
    BY <1>2, Zenon DEF Passes
  <2> QED
    BY <1>2, <2>1 DEF Kinds
<1>3. CASE TypeOf[t] = "Coupon"
  <2>1. Passes(t) = <<"Transfer", "Issue", "Redeem", "Consume">>
    BY <1>3, Zenon DEF Passes
  <2> QED
    BY <1>3, <2>1 DEF Kinds
<1>4. CASE TypeOf[t] = "Membership"
  <2>1. Passes(t) = <<"Transfer", "Issue", "Redeem">>
    BY <1>4, Zenon DEF Passes
  <2> QED
    BY <1>4, <2>1 DEF Kinds
<1> QED
  BY <1>1, <1>2, <1>3, <1>4

------------------------------------------------------------------------------
(* Types, chunks and the chain, for all constants. *)

USE ChainAssumption DEF Block, BlockNumber

\* The types of the chain, of the contracts and of the collector.
MarketTypes ==
    /\ owner \in [Token -> Account] /\ owners \in [Token -> SUBSET Account]
    /\ tradable \in [Token -> Exchange \union {Zero}] /\ moved \subseteq Token
    /\ changes \in 0..MaxChanges

CollectorTypes ==
    /\ pc \in {"idle", "token_info", "checkpoint", "process", "save", "done"}
    /\ target \in 0..Len(jobs)
    /\ book \in [Account -> Amount]
    /\ saved \in Lists
    /\ tokenOwner \in Account \union {Zero} /\ exchange \in Exchange \union {Zero}
    /\ blockFrom \in 0..MaxBlock /\ blockTo \in BlockNumber
    /\ pass \in 1..8
    /\ behind \in BOOLEAN
    /\ failures \in 0..MaxFailures /\ unrecorded \in 0..MaxUnrecorded

\* What it means to be a list of holders.
LEMMA ListsAre ==
  ASSUME NEW f
  PROVE  f \in Lists <=> DOMAIN f \subseteq Account /\ f \in [DOMAIN f -> Amount]
BY DEF Lists

\* The record of a job.
LEMMA JobFields ==
  ASSUME JobsInv, NEW i \in 1..Len(jobs)
  PROVE  /\ jobs[i] \in JobRecord
         /\ jobs[i].token \in Token /\ jobs[i].block \in 1..MaxBlock
         /\ jobs[i].status \in {"pending", "done", "failed"}
         /\ jobs[i].list \in Lists /\ jobs[i].behind \in BOOLEAN
<1>1. jobs[i] \in JobRecord
  BY DEF JobsInv
<1> QED
  BY <1>1 DEF JobRecord

\* The status of one job changes, with its list or without it.
LEMMA OneJobChanges ==
  ASSUME JobsInv, NEW r \in JobRecord, target \in 1..Len(jobs),
         jobs' = [jobs EXCEPT ![target] = r]
  PROVE  /\ JobsInv' /\ Len(jobs') = Len(jobs)
         /\ jobs'[target] = r
         /\ \A i \in 1..Len(jobs) : i # target => jobs'[i] = jobs[i]
BY DEF JobsInv

\* A job that fails changes nothing but its status.
LEMMA JobFailed ==
  ASSUME JobsInv, target \in 1..Len(jobs),
         jobs' = [jobs EXCEPT ![target].status = "failed"]
  PROVE  /\ JobsInv' /\ Len(jobs') = Len(jobs)
         /\ \A i \in 1..Len(jobs) :
               /\ jobs'[i].token = jobs[i].token /\ jobs'[i].block = jobs[i].block
               /\ jobs'[i].list = jobs[i].list /\ jobs'[i].behind = jobs[i].behind
               /\ i # target => jobs'[i] = jobs[i]
         /\ jobs'[target].status = "failed"
<1> DEFINE r == [jobs[target] EXCEPT !.status = "failed"]
<1>1. jobs[target] \in JobRecord
  BY JobFields
<1>2. /\ r \in JobRecord /\ r.status = "failed" /\ r.token = jobs[target].token
      /\ r.block = jobs[target].block /\ r.list = jobs[target].list
      /\ r.behind = jobs[target].behind
  BY <1>1 DEF JobRecord
<1>3. jobs' = [jobs EXCEPT ![target] = r]
  BY DEF JobsInv
<1> HIDE DEF r
<1> QED
  BY <1>2, <1>3, OneJobChanges

\* The types of the jobs follow from JobsInv.
LEMMA JobTypes ==
  ASSUME NEW js \in Seq(JobRecord)
  PROVE  \A i \in 1..Len(js) :
            /\ js[i].token \in Token /\ js[i].block \in Block
            /\ js[i].status \in {"pending", "done", "failed"}
            /\ DOMAIN js[i].list \subseteq Account
            /\ js[i].list \in [DOMAIN js[i].list -> [hold : Int, locked : Int]]
<1> SUFFICES ASSUME NEW i \in 1..Len(js)
             PROVE  /\ js[i].token \in Token /\ js[i].block \in Block
                    /\ js[i].status \in {"pending", "done", "failed"}
                    /\ DOMAIN js[i].list \subseteq Account
                    /\ js[i].list \in [DOMAIN js[i].list -> [hold : Int, locked : Int]]
  OBVIOUS
<1>1. js[i] \in JobRecord
  OBVIOUS
<1>2. /\ js[i].token \in Token /\ js[i].block \in Block
      /\ js[i].status \in {"pending", "done", "failed"} /\ js[i].list \in Lists
  BY <1>1 DEF JobRecord
<1> QED
  BY <1>2, ListsAre DEF Amount

\* The type invariant, split by chain, market, jobs and collector.
LEMMA TypesInParts ==
  ASSUME JobsInv
  PROVE  TypeOK <=> ChainTypeOK /\ MarketTypes /\ Len(jobs) <= MaxJobs /\ CollectorTypes
BY JobTypes, ListsAre DEF TypeOK, MarketTypes, CollectorTypes, Amount, JobsInv

\* The same after a step.
LEMMA NextTypesInParts ==
  ASSUME JobsInv'
  PROVE  TypeOK' <=> ChainTypeOK' /\ MarketTypes' /\ Len(jobs') <= MaxJobs /\ CollectorTypes'
BY JobTypes, ListsAre DEF TypeOK, MarketTypes, CollectorTypes, Amount, JobsInv

\* The empty book and the empty list.
LEMMA EmptyTypes ==
  /\ EmptyBook \in [Account -> Amount]
  /\ \A a \in Account : EmptyBook[a] = Nothing
  /\ NoRows \in Lists /\ DOMAIN NoRows = {}
  /\ Nothing \in Amount
<1>1. Nothing \in Amount
  BY DEF Nothing, Amount
<1>2. NoRows \in [{} -> Amount] /\ DOMAIN NoRows = {}
  BY DEF NoRows
<1> QED
  BY <1>1, <1>2, ListsAre DEF EmptyBook

\* The end of a chunk.
LEMMA ChunkEndType ==
  ASSUME NEW from \in Nat, Job.block \in Nat, from <= Job.block
  PROVE  /\ ChunkEnd(from) \in from..Job.block
         /\ ChunkEnd(from) < Job.block => ChunkEnd(from) + 1 = from + ChunkSize
BY HoldersAssumption DEF ChunkEnd

\* Actions that leave the chain alone.
ChainFrame == UNCHANGED <<chain, owner, owners, tradable, moved>>

\* A step that leaves the chain keeps what holds of it.
LEMMA ChainInvKept ==
  ASSUME ChainInv, ChainFrame
  PROVE  ChainInv'
BY DEF ChainInv, ChainFrame

\* A block that is mined.
LEMMA ChainInvMined ==
  ASSUME TypeOK, ChainInv, Mine, Legal(chain'), UNCHANGED marketVars
  PROVE  ChainInv'
<1>1. PICK block \in Contents : chain' = Append(chain, block)
  BY DEF Mine
<1> DEFINE n == Len(chain)
<1>2. /\ chain \in Seq(SUBSET Event) /\ n \in Nat /\ block \in SUBSET Event
      /\ IsFiniteSet(block)
  BY HoldersAssumption DEF TypeOK, ChainTypeOK
<1>3. /\ Len(chain') = n + 1 /\ DOMAIN chain' = 1..n + 1 /\ DOMAIN chain = 1..n
      /\ chain'[n + 1] = block /\ \A i \in 1..n : chain'[i] = chain[i]
  BY <1>1, <1>2
<1>4. \A t \in Token :
         /\ \A b \in 0..n : EventsOf(chain', t, b) = EventsOf(chain, t, b)
         /\ EventsOf(chain', t, n + 1) =
               EventsOf(chain, t, n) \union ({n + 1} \X {e \in block : e.token = t})
  <2>1. ASSUME NEW t PROVE Longer(chain, Append(chain, block), block, t)
    BY <1>2, EventsOfLonger
  <2>2. ASSUME NEW t PROVE Longer(chain, chain', block, t)
    BY <1>1, <2>1
  <2> QED
    BY <2>2 DEF Longer
<1> HIDE DEF n
<1>5. \A i \in DOMAIN chain' : chain'[i] \in Contents
  BY <1>2, <1>3 DEF ChainInv
<1>6. ASSUME NEW t \in Token
      PROVE  owner[t] \in owners[t] /\ IsFiniteSet(EventsOf(chain', t, n + 1))
  <2>1. IsFiniteSet(EventsOf(chain, t, n)) /\ owner[t] \in owners[t]
    BY DEF ChainInv, n
  <2>2. IsFiniteSet({n + 1}) /\ IsFiniteSet({e \in block : e.token = t})
    <3>1. {e \in block : e.token = t} \in SUBSET block
      OBVIOUS
    <3>2. IsFiniteSet({e \in block : e.token = t})
      BY <1>2, <3>1, FS_Subset
    <3> QED
      BY <3>2, FS_Singleton
  <2>3. IsFiniteSet({n + 1} \X {e \in block : e.token = t})
    BY <2>2, FS_Product
  <2>4. IsFiniteSet(EventsOf(chain, t, n) \union ({n + 1} \X {e \in block : e.token = t}))
    BY <2>1, <2>3, FS_Union
  <2>5. EventsOf(chain', t, n + 1) =
           EventsOf(chain, t, n) \union ({n + 1} \X {e \in block : e.token = t})
    BY <1>4
  <2> QED
    BY <2>1, <2>4, <2>5, Zenon
<1>7. ASSUME NEW t \in Token, NEW a \in Account, NEW column \in {"hold", "locked"},
             NEW b \in 0..n + 1, Sum(EventsOf(chain', t, b), a, column) < 0
      PROVE  a \in owners[t]
  <2>1. CASE b \in 0..n
    BY <1>4, <1>7, <2>1 DEF ChainInv, n
  <2>2. CASE b = n + 1
    BY <1>3, <1>7, <2>2 DEF Legal
  <2> QED
    BY <1>2, <2>1, <2>2 DEF n
<1>8. ASSUME NEW i \in DOMAIN chain', NEW e \in chain'[i]
      PROVE  /\ e.kind \in Kinds(e.token)
             /\ e.kind = "HolderChanged" /\ e.token \notin moved => e.at = tradable[e.token]
  <2>1. CASE i \in 1..n
    BY <1>3, <2>1 DEF ChainInv
  <2>2. CASE i = n + 1
    BY <1>3, <2>2 DEF Legal
  <2> QED
    BY <1>2, <1>3, <2>1, <2>2 DEF n
<1> QED
  BY <1>3, <1>5, <1>6, <1>7, <1>8 DEF ChainInv, marketVars

\* Nodes, market and administrator keep what holds of the chain.
LEMMA ChainInvEnvironment ==
  ASSUME TypeOK, ChainInv, Environment
  PROVE  ChainInv'
<1>1. CASE Mine /\ (chain' # chain => Legal(chain')) /\ UNCHANGED marketVars
  <2>1. chain' # chain
    <3>1. PICK block \in Contents : chain' = Append(chain, block)
      BY <1>1 DEF Mine
    <3>2. chain \in Seq(SUBSET Event)
      BY DEF TypeOK, ChainTypeOK
    <3>3. Len(Append(chain, block)) = Len(chain) + 1 /\ Len(chain) \in Nat
      BY <3>2
    <3> QED
      BY <3>1, <3>3
  <2> QED
    BY <1>1, <2>1, ChainInvMined
<1>2. CASE (CatchUp \/ RegisterAdminToken \/ DeleteToken) /\ UNCHANGED marketVars
  BY <1>2, ChainInvKept DEF ChainFrame, CatchUp, RegisterAdminToken, DeleteToken, marketVars
<1>3. CASE ChangeOwner /\ UNCHANGED chainVars
  <2>1. PICK t \in Token, a \in Account :
           /\ owner' = [owner EXCEPT ![t] = a]
           /\ owners' = [owners EXCEPT ![t] = @ \union {a}]
    BY <1>3 DEF ChangeOwner
  <2>2. \A u \in Token : owner'[u] \in owners'[u] /\ owners[u] \subseteq owners'[u]
    BY <2>1 DEF TypeOK, ChainInv
  <2>3. UNCHANGED <<chain, tradable, moved>>
    BY <1>3 DEF ChangeOwner, chainVars
  <2>4. ASSUME NEW u \in Token, NEW c \in Account, NEW column \in {"hold", "locked"},
               NEW b \in 0..Len(chain), Sum(EventsOf(chain, u, b), c, column) < 0
        PROVE  c \in owners'[u]
    <3>1. c \in owners[u]
      BY <2>4 DEF ChainInv
    <3> QED
      BY <3>1, <2>2
  <2> QED
    BY <2>2, <2>3, <2>4 DEF ChainInv
<1>4. CASE SetTradableExchange /\ UNCHANGED chainVars
  <2>1. PICK t \in Token, x \in Exchange \union {Zero} :
           /\ tradable' = [tradable EXCEPT ![t] = x]
           /\ moved' = moved \union {t}
    BY <1>4 DEF SetTradableExchange
  <2>2. UNCHANGED <<chain, owner, owners>>
    BY <1>4 DEF SetTradableExchange, chainVars
  <2>3. ASSUME NEW i \in DOMAIN chain, NEW e \in chain[i],
               e.kind = "HolderChanged", e.token \notin moved'
        PROVE  e.at = tradable'[e.token]
    <3>1. e \in Event /\ e.token \in Token
      BY DEF TypeOK, ChainTypeOK
    <3> QED
      BY <2>1, <2>3, <3>1 DEF ChainInv, TypeOK
  <2> QED
    BY <2>2, <2>3 DEF ChainInv
<1> QED
  BY <1>1, <1>2, <1>3, <1>4 DEF Environment, ChainNext

\* The environment changes no variable of the collector, and the chain and the histories
\* of the contracts only grow.
Grows ==
    /\ UNCHANGED <<jobs, pc, target, book, saved, infoVars, rangeVars, faultVars>>
    /\ Len(chain) <= Len(chain')
    /\ \A t \in Token, b \in 0..Len(chain) : EventsOf(chain', t, b) = EventsOf(chain, t, b)
    /\ \A t \in Token : /\ owners[t] \subseteq owners'[t]
                        /\ t \notin moved' => t \notin moved /\ tradable'[t] = tradable[t]

\* Nodes and listings leave the blocks.
LEMMA ChainTypesKept ==
  ASSUME ChainTypeOK, CatchUp \/ RegisterAdminToken \/ DeleteToken
  PROVE  ChainTypeOK' /\ chain' = chain
<1> USE DEF ChainTypeOK
<1>1. CASE CatchUp
  BY <1>1 DEF CatchUp
<1>2. CASE RegisterAdminToken
  BY <1>2 DEF RegisterAdminToken
<1>3. CASE DeleteToken
  BY <1>3 DEF DeleteToken
<1> QED
  BY <1>1, <1>2, <1>3

\* The environment only adds blocks and leaves the jobs.
LEMMA EnvironmentGrows ==
  ASSUME TypeOK, JobsInv, Environment
  PROVE  Grows /\ TypeOK' /\ JobsInv'
<1>0. ChainTypeOK /\ MarketTypes /\ Len(jobs) <= MaxJobs /\ CollectorTypes
  BY TypesInParts
<1>1. /\ UNCHANGED <<jobs, pc, target, book, saved, infoVars, rangeVars, faultVars>>
      /\ UNCHANGED <<tokenOwner, exchange, blockFrom, blockTo, pass, behind, failures,
                     unrecorded>>
  BY DEF Environment, infoVars, rangeVars, faultVars
<1>2. CollectorTypes' /\ JobsInv' /\ Len(jobs') <= MaxJobs
  BY <1>0, <1>1 DEF CollectorTypes, JobsInv
<1> SUFFICES /\ ChainTypeOK' /\ MarketTypes' /\ Len(chain) <= Len(chain')
             /\ \A t \in Token, b \in 0..Len(chain) :
                   EventsOf(chain', t, b) = EventsOf(chain, t, b)
             /\ \A t \in Token :
                   /\ owners[t] \subseteq owners'[t]
                   /\ t \notin moved' => t \notin moved /\ tradable'[t] = tradable[t]
  BY <1>1, <1>2, NextTypesInParts DEF Grows
<1>3. CASE Mine /\ UNCHANGED marketVars
  <2>1. PICK block \in Contents, S \in (SUBSET Node) \ {{}} :
           /\ chain' = Append(chain, block)
           /\ head' = [n \in Node |-> IF n \in S THEN Len(chain) + 1 ELSE head[n]]
    BY <1>3 DEF Mine
  <2>2. /\ chain \in Seq(SUBSET Event) /\ block \in SUBSET Event /\ Len(chain) \in Nat
        /\ Len(chain) < MaxBlock /\ listed' = listed
    BY <1>0, <1>3 DEF Mine, ChainTypeOK
  <2>3. /\ chain' \in Seq(SUBSET Event) /\ Len(chain') = Len(chain) + 1
        /\ \A t \in Token, b \in 0..Len(chain) : EventsOf(chain', t, b) = EventsOf(chain, t, b)
    <3>1. ASSUME NEW t \in Token, NEW b \in 0..Len(chain)
          PROVE  EventsOf(Append(chain, block), t, b) = EventsOf(chain, t, b)
      BY <2>2, EventsOfLonger DEF Longer
    <3> QED
      BY <2>1, <2>2, <3>1
  <2>4. ChainTypeOK'
    BY <1>0, <2>1, <2>2, <2>3 DEF ChainTypeOK
  <2>5. MarketTypes'
    BY <1>0, <1>3 DEF MarketTypes, marketVars
  <2> QED
    BY <1>3, <2>2, <2>3, <2>4, <2>5 DEF marketVars
<1>4. CASE (CatchUp \/ RegisterAdminToken \/ DeleteToken) /\ UNCHANGED marketVars
  <2>1. ChainTypeOK' /\ chain' = chain
    BY <1>0, <1>4, ChainTypesKept
  <2>2. MarketTypes'
    BY <1>0, <1>4 DEF MarketTypes, marketVars
  <2> QED
    BY <1>0, <1>4, <2>1, <2>2 DEF marketVars, ChainTypeOK
<1>5. CASE ChangeOwner /\ UNCHANGED chainVars
  <2>1. ChainTypeOK' /\ chain' = chain
    BY <1>0, <1>5 DEF ChainTypeOK, chainVars
  <2>2. PICK t \in Token, a \in Account :
           /\ owner' = [owner EXCEPT ![t] = a]
           /\ owners' = [owners EXCEPT ![t] = @ \union {a}]
           /\ UNCHANGED <<tradable, moved>>
           /\ changes < MaxChanges /\ changes' = changes + 1
    BY <1>5 DEF ChangeOwner
  <2>3. MarketTypes' /\ \A u \in Token : owners[u] \subseteq owners'[u]
    BY <1>0, <2>2, HoldersAssumption DEF MarketTypes
  <2> QED
    BY <1>0, <2>1, <2>2, <2>3 DEF ChainTypeOK
<1>6. CASE SetTradableExchange /\ UNCHANGED chainVars
  <2>1. ChainTypeOK' /\ chain' = chain
    BY <1>0, <1>6 DEF ChainTypeOK, chainVars
  <2>2. PICK t \in Token, x \in Exchange \union {Zero} :
           /\ tradable' = [tradable EXCEPT ![t] = x]
           /\ moved' = moved \union {t}
           /\ UNCHANGED <<owner, owners>>
           /\ changes < MaxChanges /\ changes' = changes + 1
    BY <1>6 DEF SetTradableExchange
  <2>3. /\ MarketTypes'
        /\ \A u \in Token : u \notin moved' => u \notin moved /\ tradable'[u] = tradable[u]
    BY <1>0, <2>2, HoldersAssumption DEF MarketTypes
  <2> QED
    BY <1>0, <2>1, <2>2, <2>3 DEF ChainTypeOK
<1> QED
  BY <1>3, <1>4, <1>5, <1>6 DEF Environment, ChainNext

------------------------------------------------------------------------------
(* The steps of the collector, for all constants. *)

\* What BaseInv says of the collector.
CollectorInv ==
    JobsInv /\ Len(jobs) <= MaxJobs /\ CollectorTypes /\ TargetInv /\ RangeInv

\* A step of the collector or of the API.
LEMMA BaseOfCollector ==
  ASSUME BaseInv, UNCHANGED <<chainVars, marketVars>>, CollectorInv'
  PROVE  BaseInv'
<1>1. UNCHANGED <<chain, head, listed, owner, owners, tradable, moved, changes>>
  BY DEF chainVars, marketVars
<1>2. ChainTypeOK /\ MarketTypes
  BY TypesInParts DEF BaseInv
<1>3. ChainTypeOK' /\ MarketTypes'
  BY <1>1, <1>2 DEF ChainTypeOK, MarketTypes
<1>4. ChainInv'
  BY <1>1, ChainInvKept DEF BaseInv, ChainFrame
<1>5. TypeOK'
  BY <1>3, NextTypesInParts DEF CollectorInv
<1> QED
  BY <1>4, <1>5 DEF BaseInv, CollectorInv

\* What the collector may rely on.
LEMMA BaseParts ==
  ASSUME BaseInv
  PROVE  /\ CollectorInv /\ ChainTypeOK /\ MarketTypes /\ ChainInv
         /\ target # 0 => target \in 1..Len(jobs) /\ Job.token \in Token /\ Job.block \in 1..MaxBlock
<1>1. CollectorInv /\ ChainTypeOK /\ MarketTypes /\ ChainInv
  BY TypesInParts DEF BaseInv, CollectorInv
<1>2. target # 0 => target \in 1..Len(jobs)
  BY <1>1 DEF CollectorInv, CollectorTypes
<1> QED
  BY <1>1, <1>2, JobFields DEF CollectorInv, Job

\* A call that ends with everything cleared.
LEMMA CallEnds ==
  ASSUME BaseInv, Clear, EndOfCall, JobsInv', Len(jobs') = Len(jobs),
         \A i \in 1..Len(jobs) : jobs'[i].block = jobs[i].block,
         failures' \in 0..MaxFailures, unrecorded' = unrecorded, chain' = chain
  PROVE  CollectorInv'
<1>1. CollectorInv
  BY BaseParts
<1>2. CollectorTypes'
  <2>1. Len(jobs') \in Nat
    BY <1>1 DEF CollectorInv, JobsInv
  <2>2. /\ target' = 0 /\ book' = EmptyBook /\ tokenOwner' = Zero /\ exchange' = Zero
        /\ pc' = "idle" /\ saved' = NoRows
        /\ blockFrom' = 0 /\ blockTo' = 0 /\ pass' = 1 /\ behind' = FALSE
    BY DEF Clear, EndOfCall
  <2>3. book' \in [Account -> Amount] /\ saved' \in Lists
    BY <2>2, EmptyTypes
  <2>4. unrecorded' \in 0..MaxUnrecorded
    BY <1>1 DEF CollectorInv, CollectorTypes
  <2>5. /\ pc' \in {"idle", "token_info", "checkpoint", "process", "save", "done"}
        /\ target' \in 0..Len(jobs')
        /\ blockFrom' \in 0..MaxBlock /\ blockTo' \in BlockNumber /\ pass' \in 1..8
        /\ tokenOwner' \in Account \union {Zero} /\ exchange' \in Exchange \union {Zero}
    BY <2>1, <2>2
  <2>6. behind' \in BOOLEAN
    BY <2>2
  <2> QED
    BY <2>3, <2>4, <2>5, <2>6 DEF CollectorTypes
<1>3. TargetInv' /\ RangeInv'
  BY <1>1 DEF CollectorInv, TargetInv, RangeInv, Clear, EndOfCall
<1> QED
  BY <1>1, <1>2, <1>3 DEF CollectorInv

\* A request adds a pending job at the end and leaves the others.
LEMMA CreateKeepsBase ==
  ASSUME BaseInv, CreateCollection
  PROVE  /\ BaseInv'
         /\ Len(jobs') = Len(jobs) + 1
         /\ \A i \in 1..Len(jobs) : jobs'[i] = jobs[i]
         /\ jobs'[Len(jobs) + 1].status = "pending"
<1>0. CollectorInv /\ ChainTypeOK
  BY BaseParts
<1>1. PICK t \in listed, h \in Heads, b \in Block :
         /\ b <= h
         /\ jobs' = Append(jobs, [token |-> t, block |-> b, status |-> "pending",
                                  list |-> NoRows, behind |-> FALSE])
  BY DEF CreateCollection
<1> DEFINE r == [token |-> t, block |-> b, status |-> "pending",
                 list |-> NoRows, behind |-> FALSE]
<1>2. r \in JobRecord
  BY <1>0, <1>1, EmptyTypes DEF JobRecord, ChainTypeOK
<1>3. r.block = b /\ r.status = "pending"
  OBVIOUS
<1>4. b <= Len(chain)
  BY <1>0, <1>1 DEF ChainTypeOK, Heads
<1>5. UNCHANGED <<chainVars, marketVars, pc, target, book, saved, infoVars, rangeVars,
                  faultVars>>
      /\ Len(jobs) < MaxJobs
  BY DEF CreateCollection
<1> HIDE DEF r
<1>6. jobs \in Seq(JobRecord) /\ jobs' = Append(jobs, r)
  BY <1>0, <1>1 DEF CollectorInv, JobsInv, r
<1>7. /\ JobsInv' /\ Len(jobs') = Len(jobs) + 1 /\ Len(jobs) \in Nat
      /\ \A i \in 1..Len(jobs) : jobs'[i] = jobs[i]
      /\ jobs'[Len(jobs) + 1] = r
  BY <1>2, <1>6 DEF JobsInv
<1>8. target \in 0..Len(jobs) /\ target' = target /\ (target # 0 => Job' = Job)
  BY <1>0, <1>5, <1>7 DEF CollectorInv, CollectorTypes, Job
<1>9. CollectorTypes'
  BY <1>0, <1>5, <1>7, HoldersAssumption
  DEF CollectorInv, CollectorTypes, infoVars, rangeVars, faultVars
<1>10. TargetInv'
  <2>1. \A i \in 1..Len(jobs') : jobs'[i].block <= Len(chain)
    BY <1>0, <1>3, <1>4, <1>7 DEF CollectorInv, TargetInv
  <2> QED
    BY <1>0, <1>5, <1>8, <2>1 DEF CollectorInv, TargetInv, chainVars
<1>11. RangeInv'
  BY <1>0, <1>5, <1>8 DEF CollectorInv, TargetInv, RangeInv, ChunkEnd, chainVars, marketVars,
     infoVars, rangeVars
<1>12. CollectorInv'
  BY <1>5, <1>7, <1>9, <1>10, <1>11, HoldersAssumption DEF CollectorInv
<1> QED
  BY <1>3, <1>5, <1>7, <1>12, BaseOfCollector

\* The collector takes a pending job.
LEMMA LoadTargetKeepsBase ==
  ASSUME BaseInv, LoadTarget
  PROVE  BaseInv'
<1>0. CollectorInv
  BY BaseParts
<1>1. PICK i \in 1..Len(jobs) : jobs[i].status = "pending" /\ target' = i
  BY DEF LoadTarget
<1>2. /\ UNCHANGED <<chainVars, marketVars, jobs, book, saved, infoVars, rangeVars, faultVars>>
      /\ pc = "idle" /\ pc' = "token_info"
  BY DEF LoadTarget
<1>3. JobsInv' /\ Len(jobs) \in Nat
  BY <1>0, <1>2 DEF CollectorInv, JobsInv
<1>4. CollectorTypes'
  BY <1>0, <1>1, <1>2, <1>3 DEF CollectorInv, CollectorTypes, infoVars, rangeVars, faultVars
<1>5. TargetInv' /\ RangeInv'
  BY <1>0, <1>1, <1>2 DEF CollectorInv, TargetInv, RangeInv, Job, chainVars, rangeVars
<1> QED
  BY <1>0, <1>2, <1>3, <1>4, <1>5, BaseOfCollector DEF CollectorInv

\* A job of an unlisted token fails, the lists stay.
LEMMA UnknownTokenKeepsBase ==
  ASSUME BaseInv, UnknownToken
  PROVE  /\ BaseInv' /\ Len(jobs') = Len(jobs)
         /\ \A i \in 1..Len(jobs) :
               /\ jobs'[i].list = jobs[i].list
               /\ jobs'[i].status = "failed" \/ jobs'[i] = jobs[i]
<1>0. CollectorInv /\ target \in 1..Len(jobs)
  BY BaseParts DEF CollectorInv, TargetInv, UnknownToken
<1>1. /\ jobs' = [jobs EXCEPT ![target].status = "failed"] /\ Clear /\ EndOfCall
      /\ UNCHANGED <<chainVars, marketVars, faultVars>>
  BY DEF UnknownToken
<1>2. /\ JobsInv' /\ Len(jobs') = Len(jobs)
      /\ \A i \in 1..Len(jobs) :
            /\ jobs'[i].block = jobs[i].block /\ jobs'[i].list = jobs[i].list
            /\ jobs'[i].status = "failed" \/ jobs'[i] = jobs[i]
  BY <1>0, <1>1, JobFailed DEF CollectorInv
<1>3. failures' \in 0..MaxFailures /\ unrecorded' = unrecorded /\ chain' = chain
  BY <1>0, <1>1 DEF CollectorInv, CollectorTypes, faultVars, chainVars
<1> QED
  BY <1>1, <1>2, <1>3, CallEnds, BaseOfCollector

\* The collector reads the token and its exchange.
LEMMA LoadTokenInfoKeepsBase ==
  ASSUME BaseInv, LoadTokenInfo
  PROVE  BaseInv'
<1>0. CollectorInv /\ target \in 1..Len(jobs) /\ Job.token \in Token /\ ChainInv /\ MarketTypes
  BY BaseParts DEF CollectorInv, TargetInv, LoadTokenInfo
<1>1. /\ tokenOwner' = owner[Job.token] /\ exchange' = tradable[Job.token]
      /\ pc = "token_info" /\ pc' = "checkpoint"
      /\ UNCHANGED <<chainVars, marketVars, jobs, target, book, saved, rangeVars, faultVars>>
  BY DEF LoadTokenInfo
<1>2. CollectorTypes' /\ JobsInv'
  BY <1>0, <1>1 DEF CollectorInv, CollectorTypes, MarketTypes, JobsInv, rangeVars, faultVars
<1>3. TargetInv'
  BY <1>0, <1>1 DEF CollectorInv, TargetInv, Job, chainVars
<1>4. RangeInv'
  BY <1>0, <1>1 DEF CollectorInv, RangeInv, ChainInv, Job, marketVars, rangeVars
<1> QED
  BY <1>0, <1>1, <1>2, <1>3, <1>4, BaseOfCollector DEF CollectorInv

\* A step that leaves the jobs, the target and what it knows of the contracts alone.
LEMMA RangeOfStep ==
  ASSUME BaseInv, UNCHANGED <<chainVars, marketVars, jobs, target, infoVars, faultVars>>,
         pc \in {"checkpoint", "process", "save", "done"},
         pc' \in {"process", "save", "done"},
         book' \in [Account -> Amount], saved' \in Lists, behind' \in BOOLEAN,
         blockFrom' \in 0..Job.block, blockTo' = ChunkEnd(blockFrom'),
         pass' \in 1..Len(Passes(Job.token)), pc' # "process" => pass' = 1,
         pc' = "done" => blockTo' = Job.block
  PROVE  BaseInv'
<1>0. CollectorInv /\ target \in 1..Len(jobs) /\ Job.token \in Token /\ Job.block \in 1..MaxBlock
  BY BaseParts DEF CollectorInv, TargetInv
<1>1. /\ Job' = Job /\ JobsInv' /\ UNCHANGED <<tokenOwner, exchange, failures, unrecorded>>
      /\ jobs' = jobs /\ target' = target /\ UNCHANGED <<owners, tradable, moved, chain>>
  BY <1>0 DEF CollectorInv, JobsInv, Job, infoVars, faultVars, marketVars, chainVars
<1>2. blockFrom' <= blockTo' /\ blockTo' \in 0..Job.block
  BY <1>0, ChunkEndType
<1>3. pass' \in 1..8
  BY <1>0, PassesAre
<1>4. CollectorTypes'
  BY <1>0, <1>1, <1>2, <1>3 DEF CollectorInv, CollectorTypes
<1>5. TargetInv'
  BY <1>0, <1>1 DEF CollectorInv, TargetInv
<1>6. blockTo' = ChunkEnd(blockFrom)' /\ Passes(Job.token)' = Passes(Job.token)
  BY <1>1 DEF ChunkEnd, Passes
<1>7. RangeInv'
  BY <1>0, <1>1, <1>2, <1>6 DEF CollectorInv, RangeInv
<1> QED
  BY <1>0, <1>1, <1>4, <1>5, <1>7, BaseOfCollector DEF CollectorInv

\* The collector starts from an older list or from nothing.
LEMMA LoadCheckpointKeepsBase ==
  ASSUME BaseInv, LoadCheckpoint
  PROVE  BaseInv'
<1>0. CollectorInv /\ target \in 1..Len(jobs) /\ Job.token \in Token /\ Job.block \in 1..MaxBlock
  BY BaseParts DEF CollectorInv, TargetInv, LoadCheckpoint
<1>1. /\ blockTo' = ChunkEnd(blockFrom') /\ pass' = 1 /\ pc = "checkpoint" /\ pc' = "process"
      /\ UNCHANGED <<chainVars, marketVars, jobs, target, saved, infoVars, faultVars>>
  BY DEF LoadCheckpoint
<1>2. /\ blockFrom' \in 0..Job.block /\ book' \in [Account -> Amount] /\ behind' \in BOOLEAN
  <2>1. CASE Earlier = {}
    <3>1. blockFrom' = 0 /\ UNCHANGED <<book, behind>>
      BY <2>1 DEF LoadCheckpoint
    <3> QED
      BY <1>0, <3>1 DEF CollectorInv, CollectorTypes
  <2>2. CASE Earlier # {}
    <3>1. PICK i \in Earlier :
             /\ blockFrom' = jobs[i].block + 1
             /\ behind' = jobs[i].behind
             /\ book' = [a \in Account |->
                   IF a \notin DOMAIN jobs[i].list THEN book[a]
                   ELSE [hold |-> book[a].hold + jobs[i].list[a].hold,
                         locked |-> book[a].locked + jobs[i].list[a].locked]]
      BY <2>2 DEF LoadCheckpoint
    <3>2. /\ i \in 1..Len(jobs) /\ jobs[i].block < Job.block /\ jobs[i].block \in 1..MaxBlock
          /\ jobs[i].list \in Lists /\ jobs[i].behind \in BOOLEAN
      BY <1>0, JobFields DEF Earlier, CollectorInv
    <3>3. jobs[i].list \in [DOMAIN jobs[i].list -> Amount]
      BY <3>2, ListsAre
    <3>4. ASSUME NEW a \in Account
          PROVE  (IF a \notin DOMAIN jobs[i].list THEN book[a]
                  ELSE [hold |-> book[a].hold + jobs[i].list[a].hold,
                        locked |-> book[a].locked + jobs[i].list[a].locked]) \in Amount
      BY <1>0, <3>3 DEF CollectorInv, CollectorTypes, Amount
    <3> QED
      BY <1>0, <3>1, <3>2, <3>4
  <2> QED
    BY <2>1, <2>2
<1>3. 1 \in 1..Len(Passes(Job.token))
  BY <1>0, PassesAre
<1> QED
  BY <1>0, <1>1, <1>2, <1>3, RangeOfStep DEF CollectorInv, CollectorTypes

\* What a pass reads are events of the token in the chunk.
LEMMA LogsAre ==
  ASSUME BaseInv, pc = "process", NEW k, NEW h \in Heads, NEW g \in Heads,
         NEW r \in LogsOf(k, h, g)
  PROVE  /\ r \in EventsOf(chain, Job.token, Len(chain))
         /\ r[1] \in blockFrom..blockTo /\ r[1] <= Len(chain)
         /\ r \in EventsOf(chain, Job.token, blockTo)
         /\ r[2].kind = k \/ (k = "Transfer" /\ r[2].kind = "HolderChanged")
<1>0. CollectorInv /\ ChainTypeOK
  BY BaseParts
<1>1. \/ r \in Logs(Job.token, k, blockFrom, blockTo, h)
      \/ k = "Transfer" /\ r \in Logs(Job.token, "HolderChanged", blockFrom, blockTo, g)
  BY DEF LogsOf
<1>2. /\ r \in Block \X Event /\ r[1] \in blockFrom..blockTo /\ r[1] <= Len(chain)
      /\ r[2] \in chain[r[1]] /\ r[2].token = Job.token
      /\ r[2].kind = k \/ (k = "Transfer" /\ r[2].kind = "HolderChanged")
  BY <1>1 DEF Logs
<1>3. r = <<r[1], r[2]>> /\ r[1] \in DOMAIN chain /\ r[1] <= blockTo
  BY <1>0, <1>2 DEF CollectorInv, CollectorTypes, ChainTypeOK
<1> QED
  BY <1>2, <1>3, EventsAre

\* There are finitely many logs up to a block.
LEMMA LogsFinite ==
  ASSUME BaseInv, pc = "process", NEW k, NEW h \in Heads, NEW g \in Heads
  PROVE  IsFiniteSet(LogsOf(k, h, g))
<1>1. IsFiniteSet(EventsOf(chain, Job.token, Len(chain)))
  BY BaseParts DEF ChainInv, CollectorInv, TargetInv
<1>2. LogsOf(k, h, g) \in SUBSET EventsOf(chain, Job.token, Len(chain))
  BY LogsAre
<1> QED
  BY <1>1, <1>2, FS_Subset

\* The logs of a range are added to the book.
LEMMA ProcessKeepsBase ==
  ASSUME BaseInv, Process
  PROVE  BaseInv'
<1>0. CollectorInv /\ target \in 1..Len(jobs) /\ Job.token \in Token /\ Job.block \in 1..MaxBlock
  BY BaseParts DEF CollectorInv, TargetInv, Process
<1>1. PICK h \in Heads, g \in Heads :
         /\ book' = StoreAll(LogsOf(Passes(Job.token)[pass], h, g))
         /\ behind' = (behind \/ h < blockTo \/ g < blockTo)
  BY DEF Process
<1>2. /\ pc = "process"
      /\ UNCHANGED <<chainVars, marketVars, jobs, target, saved, infoVars, blockFrom, blockTo,
                     faultVars>>
  BY DEF Process
<1> DEFINE rows == LogsOf(Passes(Job.token)[pass], h, g)
<1>3. IsFiniteSet(rows)
  BY <1>2, LogsFinite
<1> HIDE DEF rows
<1>4. book' \in [Account -> Amount]
  <2>1. ASSUME NEW a \in Account
        PROVE  [hold |-> book[a].hold + Sum(rows, a, "hold"),
                locked |-> book[a].locked + Sum(rows, a, "locked")] \in Amount
    <3>1. Sum(rows, a, "hold") \in Int /\ Sum(rows, a, "locked") \in Int
      BY <1>3, SumType
    <3> QED
      BY <1>0, <3>1 DEF CollectorInv, CollectorTypes, Amount
  <2> QED
    BY <1>1, <2>1 DEF StoreAll, rows
<1>5. behind' \in BOOLEAN
  BY <1>1
<1>6. /\ blockFrom' \in 0..Job.block /\ blockTo' = ChunkEnd(blockFrom')
  <2>1. /\ blockFrom \in 0..MaxBlock /\ blockTo \in 0..MaxBlock /\ blockFrom <= blockTo
        /\ blockTo = ChunkEnd(blockFrom)
    BY <1>0, <1>2 DEF CollectorInv, CollectorTypes, RangeInv
  <2>2. blockTo <= Job.block
    BY <1>0, <2>1, HoldersAssumption DEF ChunkEnd
  <2> QED
    BY <1>0, <1>2, <2>1, <2>2
<1>7. /\ pass' \in 1..Len(Passes(Job.token)) /\ pc' \in {"process", "save"}
      /\ pc' # "process" => pass' = 1
  <2>1. pass \in 1..Len(Passes(Job.token)) /\ Len(Passes(Job.token)) \in 1..8
    BY <1>0, <1>2, PassesAre DEF CollectorInv, RangeInv
  <2>2. CASE pass < Len(Passes(Job.token)) /\ pass' = pass + 1 /\ UNCHANGED pc
    BY <1>2, <2>1, <2>2
  <2>3. CASE pass' = 1 /\ pc' = "save"
    BY <2>1, <2>3
  <2> QED
    BY <2>2, <2>3 DEF Process
<1>8. saved' \in Lists
  BY <1>0, <1>2 DEF CollectorInv, CollectorTypes
<1> QED
  BY <1>2, <1>4, <1>5, <1>6, <1>7, <1>8, RangeOfStep

\* The holders of a range are written, and the next range begins.
LEMMA SaveHoldersKeepsBase ==
  ASSUME BaseInv, SaveHolders
  PROVE  BaseInv'
<1>0. CollectorInv /\ target \in 1..Len(jobs) /\ Job.token \in Token /\ Job.block \in 1..MaxBlock
  BY BaseParts DEF CollectorInv, TargetInv, SaveHolders
<1>1. /\ pc = "save"
      /\ saved' = [a \in Held \union DOMAIN saved |-> IF a \in Held THEN book[a] ELSE saved[a]]
      /\ UNCHANGED <<chainVars, marketVars, jobs, target, book, infoVars, pass, behind,
                     faultVars>>
  BY DEF SaveHolders
<1>2. saved' \in Lists
  <2>1. saved \in [DOMAIN saved -> Amount] /\ DOMAIN saved \subseteq Account /\ Held \subseteq Account
    BY <1>0, ListsAre DEF CollectorInv, CollectorTypes, Held
  <2>2. saved' \in [Held \union DOMAIN saved -> Amount]
    BY <1>0, <1>1, <2>1 DEF CollectorInv, CollectorTypes
  <2> QED
    BY <2>1, <2>2, ListsAre
<1>3. /\ blockFrom \in 0..MaxBlock /\ blockFrom <= blockTo /\ blockTo = ChunkEnd(blockFrom)
      /\ pass = 1 /\ 1 \in 1..Len(Passes(Job.token))
  BY <1>0, <1>1, PassesAre DEF CollectorInv, CollectorTypes, RangeInv
<1>4. CASE blockTo < Job.block
  <2>1. blockFrom' = blockFrom + ChunkSize /\ blockTo' = ChunkEnd(blockFrom') /\ pc' = "process"
    BY <1>4 DEF SaveHolders
  <2>2. /\ blockFrom' = blockTo + 1 /\ blockTo < Job.block
        /\ blockTo \in Int /\ 0 <= blockTo /\ Job.block \in Int
    BY <1>0, <1>3, <1>4, <2>1, HoldersAssumption DEF ChunkEnd
  <2>3. blockFrom' \in 0..Job.block
    BY <2>2
  <2> QED
    BY <1>0, <1>1, <1>2, <1>3, <2>1, <2>3, RangeOfStep DEF CollectorInv, CollectorTypes
<1>5. CASE ~(blockTo < Job.block)
  <2>1. UNCHANGED <<blockFrom, blockTo>> /\ pc' = "done"
    BY <1>5 DEF SaveHolders
  <2>2. blockTo = Job.block /\ blockFrom \in 0..Job.block
    BY <1>0, <1>3, <1>5, HoldersAssumption DEF ChunkEnd
  <2> QED
    BY <1>0, <1>1, <1>2, <1>3, <2>1, <2>2, RangeOfStep DEF CollectorInv, CollectorTypes
<1> QED
  BY <1>4, <1>5

\* What UpdateStatus makes of the target.
Finished ==
    [jobs[target] EXCEPT !.status = "done",
                         !.list = [a \in {a \in DOMAIN saved : saved[a] # Nothing} |-> saved[a]],
                         !.behind = behind]

\* The commit gives the job its list, and no other job anything.
LEMMA UpdateStatusKeepsBase ==
  ASSUME BaseInv, UpdateStatus
  PROVE  /\ BaseInv' /\ Len(jobs') = Len(jobs) /\ target \in 1..Len(jobs)
         /\ \A i \in 1..Len(jobs) : i # target => jobs'[i] = jobs[i]
         /\ jobs'[target].status = "done"
         /\ jobs'[target].list = [a \in {a \in DOMAIN saved : saved[a] # Nothing} |-> saved[a]]
         /\ jobs'[target].behind = behind
         /\ jobs'[target].token = Job.token /\ jobs'[target].block = Job.block
<1>0. CollectorInv /\ target \in 1..Len(jobs)
  BY BaseParts DEF CollectorInv, TargetInv, UpdateStatus
<1>1. jobs' = [jobs EXCEPT ![target] = Finished]
  BY <1>0 DEF UpdateStatus, Finished
<1> DEFINE list == [a \in {a \in DOMAIN saved : saved[a] # Nothing} |-> saved[a]]
<1>2. list \in Lists
  <2>1. saved \in [DOMAIN saved -> Amount] /\ DOMAIN saved \subseteq Account
    BY <1>0, ListsAre DEF CollectorInv, CollectorTypes
  <2>2. list \in [{a \in DOMAIN saved : saved[a] # Nothing} -> Amount]
    BY <2>1
  <2> QED
    BY <2>1, <2>2, ListsAre
<1>3. behind \in BOOLEAN
  BY <1>0 DEF CollectorInv, CollectorTypes
<1>4. jobs[target] \in JobRecord
  BY <1>0, JobFields DEF CollectorInv
<1>5. Finished = [jobs[target] EXCEPT !.status = "done", !.list = list, !.behind = behind]
  BY DEF Finished
<1> HIDE DEF list
<1>6. PICK b \in BOOLEAN : b = behind
  BY <1>3
<1>7. /\ Finished \in JobRecord /\ Finished.status = "done" /\ Finished.list = list
      /\ Finished.behind = behind
      /\ Finished.token = jobs[target].token /\ Finished.block = jobs[target].block
  BY <1>2, <1>4, <1>5, <1>6 DEF JobRecord
<1>8. /\ JobsInv' /\ Len(jobs') = Len(jobs) /\ jobs'[target] = Finished
      /\ \A i \in 1..Len(jobs) : i # target => jobs'[i] = jobs[i]
  BY <1>0, <1>1, <1>7, OneJobChanges DEF CollectorInv
<1>9. \A i \in 1..Len(jobs) : jobs'[i].block = jobs[i].block
  BY <1>7, <1>8
<1>10. /\ Clear /\ EndOfCall /\ UNCHANGED <<chainVars, marketVars>>
       /\ failures' \in 0..MaxFailures /\ unrecorded' = unrecorded /\ chain' = chain
  BY <1>0 DEF UpdateStatus, CollectorInv, CollectorTypes, faultVars, chainVars
<1>11. BaseInv'
  BY <1>8, <1>9, <1>10, CallEnds, BaseOfCollector
<1> QED
  BY <1>0, <1>7, <1>8, <1>11 DEF Job, list

\* A call that is broken off writes no list.
LEMMA AbortKeepsBase ==
  ASSUME BaseInv, Abort
  PROVE  /\ BaseInv' /\ Len(jobs') = Len(jobs)
         /\ \A i \in 1..Len(jobs) :
               /\ jobs'[i].list = jobs[i].list
               /\ jobs'[i].status = "failed" \/ jobs'[i] = jobs[i]
<1>0. CollectorInv /\ target \in 1..Len(jobs)
  BY BaseParts DEF CollectorInv, TargetInv, Abort
<1>1. /\ failures' \in 0..MaxFailures /\ EndOfCall /\ UNCHANGED <<chainVars, marketVars>>
      /\ chain' = chain
  BY <1>0, HoldersAssumption DEF Abort, CollectorInv, CollectorTypes, chainVars
<1>2. CASE jobs' = [jobs EXCEPT ![target].status = "failed"] /\ Clear /\ UNCHANGED unrecorded
  <2>1. /\ JobsInv' /\ Len(jobs') = Len(jobs)
        /\ \A i \in 1..Len(jobs) :
              /\ jobs'[i].block = jobs[i].block /\ jobs'[i].list = jobs[i].list
              /\ jobs'[i].status = "failed" \/ jobs'[i] = jobs[i]
    BY <1>0, <1>2, JobFailed DEF CollectorInv
  <2> QED
    BY <1>1, <1>2, <2>1, CallEnds, BaseOfCollector
<1>3. CASE /\ unrecorded < MaxUnrecorded /\ unrecorded' = unrecorded + 1
           /\ UNCHANGED <<jobs, target, book, infoVars>>
  <2>1. /\ pc' = "idle" /\ saved' = NoRows
        /\ blockFrom' = 0 /\ blockTo' = 0 /\ pass' = 1 /\ behind' = FALSE
    BY <1>1 DEF EndOfCall
  <2>2. CollectorTypes' /\ JobsInv'
    <3>1. saved' \in Lists /\ unrecorded' \in 0..MaxUnrecorded
      BY <1>0, <1>3, <2>1, EmptyTypes, HoldersAssumption DEF CollectorInv, CollectorTypes
    <3>2. JobsInv' /\ UNCHANGED <<jobs, target, book, tokenOwner, exchange>>
      BY <1>0, <1>3 DEF CollectorInv, JobsInv, infoVars
    <3>3. /\ pc' \in {"idle", "token_info", "checkpoint", "process", "save", "done"}
          /\ blockFrom' \in 0..MaxBlock /\ blockTo' \in BlockNumber /\ pass' \in 1..8
      BY <2>1
    <3>4. behind' \in BOOLEAN
      BY <2>1
    <3>5. CollectorTypes'
      BY <1>0, <1>1, <3>1, <3>2, <3>3, <3>4 DEF CollectorInv, CollectorTypes
    <3> QED
      BY <3>2, <3>5
  <2>3. TargetInv' /\ RangeInv'
    BY <1>0, <1>1, <1>3, <2>1 DEF CollectorInv, TargetInv, RangeInv, Job
  <2> QED
    BY <1>0, <1>1, <1>3, <2>2, <2>3, BaseOfCollector DEF CollectorInv
<1> QED
  BY <1>2, <1>3 DEF Abort

\* A restart leaves the jobs.
LEMMA RestartKeepsBase ==
  ASSUME BaseInv, Restart
  PROVE  BaseInv' /\ jobs' = jobs
<1>0. CollectorInv
  BY BaseParts
<1>1. /\ failures' \in 0..MaxFailures /\ Clear /\ EndOfCall /\ jobs' = jobs
      /\ unrecorded' = unrecorded /\ UNCHANGED <<chainVars, marketVars>> /\ chain' = chain
  BY <1>0, HoldersAssumption DEF Restart, CollectorInv, CollectorTypes, chainVars
<1>2. JobsInv'
  BY <1>0, <1>1 DEF CollectorInv, JobsInv
<1> QED
  BY <1>1, <1>2, CallEnds, BaseOfCollector

\* The environment keeps the common part.
LEMMA EnvironmentKeepsBase ==
  ASSUME BaseInv, Environment
  PROVE  BaseInv'
<1>0. CollectorInv /\ ChainTypeOK /\ ChainInv
  BY BaseParts
<1>1. Grows /\ TypeOK' /\ JobsInv' /\ ChainInv'
  BY EnvironmentGrows, ChainInvEnvironment DEF BaseInv
<1>2. /\ UNCHANGED <<jobs, pc, target, blockFrom, blockTo, pass, tokenOwner, exchange>>
      /\ target # 0 => Job' = Job /\ Job.token \in Token
  BY <1>1, BaseParts DEF Grows, infoVars, rangeVars, Job
<1>3. Len(chain) \in Nat /\ Len(chain') \in Nat /\ Len(chain) <= Len(chain')
  BY <1>0, <1>1 DEF Grows, ChainTypeOK, TypeOK
<1>4. \A i \in 1..Len(jobs) : jobs[i].block \in Nat
  BY <1>0, JobFields DEF CollectorInv
<1>5. TargetInv'
  <2>1. \A i \in 1..Len(jobs') : jobs'[i].block <= Len(chain')
    BY <1>0, <1>2, <1>3, <1>4 DEF CollectorInv, TargetInv
  <2> QED
    BY <1>0, <1>2, <2>1 DEF CollectorInv, TargetInv
<1>6. RangeInv'
  <2>1. CASE pc \notin {"checkpoint", "process", "save", "done"}
    BY <1>0, <1>2, <2>1 DEF CollectorInv, RangeInv
  <2>2. CASE pc \in {"checkpoint", "process", "save", "done"}
    <3>1. target # 0
      BY <1>0, <2>2 DEF CollectorInv, TargetInv
    <3>2. Job.token \in Token /\ Job' = Job
      BY <1>2, <3>1
    <3>3. /\ owners[Job.token] \subseteq owners'[Job.token]
          /\ Job.token \notin moved' =>
                Job.token \notin moved /\ tradable'[Job.token] = tradable[Job.token]
      BY <1>1, <3>2 DEF Grows
    <3>4. ChunkEnd(blockFrom)' = ChunkEnd(blockFrom) /\ Passes(Job.token)' = Passes(Job.token)
      BY <1>2, <3>2 DEF ChunkEnd, Passes
    <3> QED
      BY <1>0, <1>2, <3>2, <3>3, <3>4 DEF CollectorInv, RangeInv
  <2> QED
    BY <2>1, <2>2
<1> QED
  BY <1>1, <1>5, <1>6 DEF BaseInv

\* The common part of the invariant holds in the beginning.
LEMMA InitBase ==
  ASSUME Init
  PROVE  BaseInv
<1>1. ChainTypeOK /\ MarketTypes
  BY HoldersAssumption DEF Init, ChainInit, ChainTypeOK, MarketTypes
<1>2. JobsInv /\ Len(jobs) = 0
  BY DEF Init, JobsInv
<1>3. CollectorTypes
  <2>1. book \in [Account -> Amount] /\ saved \in Lists
    BY EmptyTypes DEF Init
  <2>2. /\ pc \in {"idle", "token_info", "checkpoint", "process", "save", "done"}
        /\ target \in 0..Len(jobs)
        /\ blockFrom \in 0..MaxBlock /\ blockTo \in BlockNumber /\ pass \in 1..8
        /\ tokenOwner \in Account \union {Zero} /\ exchange \in Exchange \union {Zero}
    BY <1>2 DEF Init
  <2>3. behind \in BOOLEAN
    BY DEF Init
  <2>4. failures \in 0..MaxFailures /\ unrecorded \in 0..MaxUnrecorded
    BY HoldersAssumption DEF Init
  <2> QED
    BY <2>1, <2>2, <2>3, <2>4 DEF CollectorTypes
<1>4. TargetInv /\ RangeInv
  BY <1>2 DEF Init, TargetInv, RangeInv
<1>5. ChainInv
  <2>1. chain = <<>> /\ DOMAIN chain = {} /\ Len(chain) = 0
    BY DEF Init, ChainInit
  <2>2. ASSUME NEW t, NEW b
        PROVE  EventsOf(chain, t, b) = {}
    BY <2>1, EventsAre
  <2>3. ASSUME NEW a, NEW column
        PROVE  Sum({}, a, column) = 0
    <3>1. Gains({}, a, column) = {} /\ Losses({}, a, column) = {}
      BY DEF Gains, Losses
    <3> QED
      BY <3>1, SumIs, FS_EmptySet
  <2>5. \A t \in Token : owner[t] \in owners[t] /\ IsFiniteSet(EventsOf(chain, t, Len(chain)))
    <3>1. IsFiniteSet({})
      BY FS_EmptySet
    <3>2. ASSUME NEW t \in Token
          PROVE  IsFiniteSet(EventsOf(chain, t, Len(chain)))
      <4>1. EventsOf(chain, t, Len(chain)) = {}
        BY <2>2
      <4> QED
        BY <3>1, <4>1, Zenon
    <3>3. \A t \in Token : owner[t] \in owners[t]
      BY DEF Init
    <3> QED
      BY <3>2, <3>3
  <2>6. ASSUME NEW t \in Token, NEW a \in Account, NEW column \in {"hold", "locked"},
               NEW b \in 0..Len(chain)
        PROVE  ~(Sum(EventsOf(chain, t, b), a, column) < 0)
    <3>1. EventsOf(chain, t, b) = {}
      BY <2>2
    <3>2. Sum(EventsOf(chain, t, b), a, column) = Sum({}, a, column)
      BY <3>1, Zenon
    <3> QED
      BY <2>3, <3>2
  <2> QED
    BY <2>1, <2>5, <2>6 DEF ChainInv
<1>6. Len(jobs) <= MaxJobs
  BY <1>2, HoldersAssumption
<1> QED
  BY <1>1, <1>2, <1>3, <1>4, <1>5, <1>6, TypesInParts DEF BaseInv

\* A step that changes nothing.
LEMMA StutterBase ==
  ASSUME BaseInv, UNCHANGED vars
  PROVE  BaseInv' /\ jobs' = jobs
<1>0. CollectorInv
  BY BaseParts
<1>1. UNCHANGED <<chainVars, marketVars, jobs, pc, target, book, saved, tokenOwner, exchange,
                  blockFrom, blockTo, pass, behind, failures, unrecorded>>
      /\ UNCHANGED <<chain, owners, tradable, moved>>
  BY DEF vars, infoVars, rangeVars, faultVars, chainVars, marketVars
<1>2. JobsInv' /\ CollectorTypes' /\ TargetInv' /\ RangeInv'
  <2>1. JobsInv' /\ CollectorTypes'
    BY <1>0, <1>1 DEF CollectorInv, JobsInv, CollectorTypes
  <2>2. TargetInv'
    BY <1>0, <1>1 DEF CollectorInv, TargetInv, Job
  <2>3. RangeInv'
    BY <1>0, <1>1 DEF CollectorInv, RangeInv, Job, ChunkEnd
  <2> QED
    BY <2>1, <2>2, <2>3
<1> QED
  BY <1>0, <1>1, <1>2, BaseOfCollector DEF CollectorInv

\* The common part is inductive.
LEMMA BaseInductive ==
  ASSUME BaseInv, [Next]_vars
  PROVE  BaseInv'
BY CreateKeepsBase, LoadTargetKeepsBase, UnknownTokenKeepsBase, LoadTokenInfoKeepsBase,
   LoadCheckpointKeepsBase, ProcessKeepsBase, SaveHoldersKeepsBase, UpdateStatusKeepsBase,
   AbortKeepsBase, RestartKeepsBase, EnvironmentKeepsBase, StutterBase
   DEF Next, Collect

\* The common part always holds.
LEMMA BaseAlways == Spec => []BaseInv
<1>1. Init => BaseInv
  BY InitBase
<1>2. BaseInv /\ [Next]_vars => BaseInv'
  BY BaseInductive
<1> QED
  BY <1>1, <1>2, PTL DEF Spec

\* Jobs, lists and the state of the collector have their types, whatever fails: in
\* particular, the target is always a job.
THEOREM TypeCorrect == Spec => []TypeOK
<1>1. BaseInv => TypeOK
  BY DEF BaseInv
<1> QED
  BY <1>1, BaseAlways, PTL

\* Once there, a list does not change, and only the commit that finishes a pending job
\* writes one: not a failure, a restart, or a failure that could not be recorded.
THEOREM ListsWrittenOnce == Spec => ListsAppearOnce
<1> DEFINE Once == \A i \in 1..Len(jobs) :
                      jobs'[i].list # jobs[i].list =>
                          jobs[i].status = "pending" /\ jobs'[i].status = "done"
<1>1. ASSUME BaseInv, [Next]_vars
      PROVE  Once
  <2>1. CASE CreateCollection
    BY <1>1, <2>1, CreateKeepsBase
  <2>2. CASE LoadTarget \/ LoadTokenInfo \/ LoadCheckpoint \/ Process \/ SaveHolders
    BY <2>2 DEF LoadTarget, LoadTokenInfo, LoadCheckpoint, Process, SaveHolders
  <2>3. CASE UnknownToken
    BY <1>1, <2>3, UnknownTokenKeepsBase
  <2>4. CASE UpdateStatus
    <3>1. jobs[target].status = "pending"
      BY <1>1, <2>4 DEF UpdateStatus, BaseInv, TargetInv, Job
    <3> QED
      BY <1>1, <2>4, <3>1, UpdateStatusKeepsBase
  <2>5. CASE Abort
    BY <1>1, <2>5, AbortKeepsBase
  <2>6. CASE Restart \/ UNCHANGED vars
    BY <1>1, <2>6, RestartKeepsBase, StutterBase
  <2>7. CASE Environment
    BY <2>7 DEF Environment
  <2> QED
    BY <1>1, <2>1, <2>2, <2>3, <2>4, <2>5, <2>6, <2>7 DEF Next, Collect
<1>2. BaseInv /\ [Next]_vars => [Once]_vars
  BY <1>1
<1>3. Spec => [][Once]_vars
  BY <1>2, BaseAlways, PTL DEF Spec
<1> QED
  BY <1>3 DEF ListsAppearOnce

------------------------------------------------------------------------------
(* Who held the token. *)

\* Every failure is recorded, and tokens are not issued into locks nor redeemed out of
\* them: what the collector does not take into account.
Recorded == MaxUnrecorded = 0
NoIssueIntoLock == \A e \in Event : e.kind \in {"Issue", "Redeem"} => e.at = Zero

\* An event of a token in a block.
LEMMA EventRows ==
  ASSUME BaseInv, NEW t, NEW b, NEW r \in EventsOf(chain, t, b)
  PROVE  /\ r[1] \in 1..Len(chain) /\ r[1] \in Block /\ r[1] <= b
         /\ r[2] \in chain[r[1]] /\ r[2] \in Event /\ r[2].token = t
         /\ r[2].kind \in Kinds(t)
         /\ r[2].kind = "HolderChanged" /\ t \notin moved => r[2].at = tradable[t]
<1>1. PICK i \in DOMAIN chain : i <= b /\ \E e \in chain[i] : e.token = t /\ r = <<i, e>>
  BY EventsAre
<1>2. PICK e \in chain[i] : e.token = t /\ r = <<i, e>>
  BY <1>1
<1>3. chain \in Seq(SUBSET Event) /\ Len(chain) <= MaxBlock
  BY BaseParts DEF ChainTypeOK
<1>4. i \in 1..Len(chain) /\ i \in Block /\ e \in Event
  BY <1>3
<1>5. /\ e.kind \in Kinds(e.token)
      /\ e.kind = "HolderChanged" /\ e.token \notin moved => e.at = tradable[e.token]
  BY BaseParts DEF ChainInv
<1>6. r[1] = i /\ r[2] = e
  BY <1>2
<1> QED
  BY <1>1, <1>2, <1>4, <1>5, <1>6

\* Events up to a block, and those of a chunk added to those before it.
LEMMA EventsUpTo ==
  ASSUME BaseInv, NEW t \in Token, NEW b \in 0..Len(chain)
  PROVE  /\ IsFiniteSet(EventsOf(chain, t, b))
         /\ \A c \in Nat : c <= b =>
               EventsOf(chain, t, c) = {r \in EventsOf(chain, t, b) : r[1] < c + 1}
<1>1. Len(chain) \in Nat /\ DOMAIN chain = 1..Len(chain)
  BY BaseParts DEF ChainTypeOK
<1>2. IsFiniteSet(EventsOf(chain, t, Len(chain)))
  BY BaseParts DEF ChainInv
<1>3. EventsOf(chain, t, b) \in SUBSET EventsOf(chain, t, Len(chain))
  BY <1>1, EventsAre
<1>4. ASSUME NEW c \in Nat, c <= b, NEW r
      PROVE  r \in EventsOf(chain, t, c) <=> r \in EventsOf(chain, t, b) /\ r[1] < c + 1
  BY <1>1, <1>4, EventsAre
<1> QED
  BY <1>2, <1>3, <1>4, FS_Subset

\* The balances after any block are amounts.
LEMMA BalancesType ==
  ASSUME BaseInv, NEW t \in Token, NEW b \in 0..Len(chain), NEW a
  PROVE  Balances(EventsOf(chain, t, b), a) \in Amount
<1>1. Sum(EventsOf(chain, t, b), a, "hold") \in Int /\ Sum(EventsOf(chain, t, b), a, "locked") \in Int
  BY EventsUpTo, SumType
<1> QED
  BY <1>1 DEF Balances, Amount

\* An account that never was the owner has a balance of its own.
LEMMA OthersPositive ==
  ASSUME BaseInv, NEW t \in Token, NEW b \in 0..Len(chain), NEW a \in Others(t)
  PROVE  /\ Balances(EventsOf(chain, t, b), a).hold \in Nat
         /\ Balances(EventsOf(chain, t, b), a).locked \in Nat
<1>1. Sum(EventsOf(chain, t, b), a, "hold") \in Int /\ Sum(EventsOf(chain, t, b), a, "locked") \in Int
  BY EventsUpTo, SumType
<1>2. /\ ~(Sum(EventsOf(chain, t, b), a, "hold") < 0)
      /\ ~(Sum(EventsOf(chain, t, b), a, "locked") < 0)
  BY BaseParts DEF ChainInv, Others
<1> QED
  BY <1>1, <1>2 DEF Balances

\* A holding, by the events up to the block of the job.
LEMMA HoldingIs ==
  ASSUME NEW i, NEW a
  PROVE  HoldingAt(i, a) = Balances(EventsOf(chain, jobs[i].token, jobs[i].block), a)
BY DEF HoldingAt, Balances

\* The target while it is processed.
LEMMA TargetParts ==
  ASSUME HoldersInv, pc # "idle"
  PROVE  /\ target \in 1..Len(jobs) /\ Job = jobs[target] /\ Job.status = "pending"
         /\ Job.token \in Token /\ Job.block \in 1..MaxBlock /\ Job.block \in 0..Len(chain)
         /\ book \in [Account -> Amount] /\ Len(jobs) \in Nat /\ Len(chain) \in Nat
         /\ saved \in [DOMAIN saved -> Amount] /\ DOMAIN saved \subseteq Account
         /\ pc \in {"process", "save", "done"} =>
               /\ blockFrom \in Nat /\ blockTo \in 0..Len(chain) /\ blockFrom <= blockTo
               /\ blockTo <= Job.block
         /\ pass \in 1..8
<1>1. BaseInv
  BY DEF HoldersInv
<1>2. CollectorInv /\ target # 0 /\ Len(chain) \in Nat
  BY <1>1, BaseParts DEF CollectorInv, TargetInv, ChainTypeOK
<1>3. target \in 1..Len(jobs) /\ Job.token \in Token /\ Job.block \in 1..MaxBlock /\ Job = jobs[target]
  BY <1>1, <1>2, BaseParts DEF Job
<1>4. Job.block <= Len(chain) /\ Job.status = "pending"
  BY <1>2, <1>3 DEF CollectorInv, TargetInv
<1>5. pc \in {"process", "save", "done"} =>
         /\ blockFrom \in Nat /\ blockTo \in Nat /\ blockFrom <= blockTo /\ blockTo <= Job.block
  BY <1>2, <1>3, HoldersAssumption DEF CollectorInv, CollectorTypes, RangeInv, ChunkEnd
<1> QED
  BY <1>2, <1>3, <1>4, <1>5, ListsAre DEF CollectorInv, CollectorTypes, JobsInv

\* No finished list changes.
LEMMA DoneListsKept ==
  ASSUME HoldersAtBlock, UNCHANGED <<chainVars, marketVars>>,
         \A i \in 1..Len(jobs') :
            jobs'[i].status = "done" => i \in 1..Len(jobs) /\ jobs'[i] = jobs[i]
  PROVE  HoldersAtBlock'
<1>1. UNCHANGED <<chain, owners, moved>>
  BY DEF chainVars, marketVars
<1> SUFFICES ASSUME NEW i \in 1..Len(jobs'), jobs'[i].status = "done", ~jobs'[i].behind,
                    jobs'[i].token \notin moved', NEW a \in Account \ owners'[jobs'[i].token]
             PROVE  IF a \in DOMAIN jobs'[i].list THEN jobs'[i].list[a] = HoldingAt(i, a)'
                    ELSE HoldingAt(i, a)' = Nothing
  BY DEF HoldersAtBlock
<1>2. i \in 1..Len(jobs) /\ jobs'[i] = jobs[i]
  OBVIOUS
<1>3. HoldingAt(i, a)' = HoldingAt(i, a)
  BY <1>1, <1>2 DEF HoldingAt, EventsOf, Sum
<1> QED
  BY <1>1, <1>2, <1>3 DEF HoldersAtBlock

\* A call that is over leaves nothing that could be wrong.
LEMMA CallEndsHolders ==
  ASSUME Clear, EndOfCall
  PROVE  IdleInv' /\ BookInv' /\ SavedInv'
BY DEF Clear, EndOfCall, IdleInv, BookInv, SavedInv

\* The invariant of the lists holds in the beginning.
LEMMA InitHolders ==
  ASSUME Init
  PROVE  HoldersInv
<1>1. Len(jobs) = 0
  BY DEF Init
<1>2. HoldersAtBlock /\ IdleInv /\ BookInv /\ SavedInv
  BY <1>1 DEF Init, HoldersAtBlock, IdleInv, BookInv, SavedInv
<1> QED
  BY <1>2, InitBase DEF HoldersInv

\* A new job has no list yet.
LEMMA CreateKeepsHolders ==
  ASSUME HoldersInv, CreateCollection
  PROVE  HoldersInv'
<1>0. BaseInv /\ CollectorInv
  BY BaseParts DEF HoldersInv
<1>1. /\ BaseInv' /\ Len(jobs') = Len(jobs) + 1 /\ Len(jobs) \in Nat
      /\ \A i \in 1..Len(jobs) : jobs'[i] = jobs[i]
      /\ jobs'[Len(jobs) + 1].status = "pending"
  BY <1>0, CreateKeepsBase DEF CollectorInv, JobsInv
<1>2. UNCHANGED <<chainVars, marketVars, pc, target, book, saved, infoVars, rangeVars, faultVars>>
  BY DEF CreateCollection
<1>3. HoldersAtBlock'
  BY <1>1, <1>2, DoneListsKept DEF HoldersInv
<1>4. UNCHANGED <<chain, owners, moved, blockFrom, blockTo, pass, behind>>
  BY <1>2 DEF chainVars, marketVars, rangeVars
<1>5. IdleInv'
  BY <1>2 DEF HoldersInv, IdleInv
<1>6. CASE pc = "idle"
  BY <1>1, <1>2, <1>3, <1>5, <1>6 DEF HoldersInv, BookInv, SavedInv
<1>7. CASE pc # "idle"
  <2>1. target \in 1..Len(jobs)
    BY <1>7, TargetParts
  <2>2. jobs'[target] = jobs[target] /\ Job' = Job /\ target' = target
    BY <1>1, <1>2, <2>1 DEF Job
  <2>3. Read' = Read /\ (Reliable' <=> Reliable) /\ Others(Job.token)' = Others(Job.token)
    BY <1>2, <1>4, <2>2 DEF Read, KindsRead, Reliable, Others, EventsOf, Passes
  <2>4. ASSUME NEW a
        PROVE  HoldingAt(target, a)' = HoldingAt(target, a)
    <3>1. jobs'[target'] = jobs[target] /\ chain' = chain
      BY <1>4, <2>2
    <3> QED
      BY <3>1 DEF HoldingAt, EventsOf, Sum
  <2>5. BookInv'
    BY <1>2, <2>3, <2>2 DEF HoldersInv, BookInv, Balances, Sum
  <2>6. SavedInv'
    BY <1>2, <2>2, <2>3, <2>4 DEF HoldersInv, SavedInv
  <2> QED
    BY <1>1, <1>3, <1>5, <2>5, <2>6 DEF HoldersInv
<1> QED
  BY <1>6, <1>7

\* A job is taken with an empty book.
LEMMA LoadTargetKeepsHolders ==
  ASSUME HoldersInv, LoadTarget
  PROVE  HoldersInv'
<1>1. /\ UNCHANGED <<chainVars, marketVars, jobs, book, saved, infoVars, rangeVars, faultVars>>
      /\ pc = "idle" /\ pc' = "token_info"
  BY DEF LoadTarget
<1>2. BaseInv' /\ HoldersAtBlock'
  BY <1>1, LoadTargetKeepsBase, DoneListsKept DEF HoldersInv
<1>3. IdleInv' /\ BookInv' /\ SavedInv'
  BY <1>1 DEF HoldersInv, IdleInv, BookInv, SavedInv
<1> QED
  BY <1>2, <1>3 DEF HoldersInv

\* Reading the token leaves the book empty.
LEMMA LoadTokenInfoKeepsHolders ==
  ASSUME HoldersInv, LoadTokenInfo
  PROVE  HoldersInv'
<1>1. /\ UNCHANGED <<chainVars, marketVars, jobs, target, book, saved, rangeVars, faultVars>>
      /\ pc = "token_info" /\ pc' = "checkpoint"
  BY DEF LoadTokenInfo
<1>2. BaseInv' /\ HoldersAtBlock'
  BY <1>1, LoadTokenInfoKeepsBase, DoneListsKept DEF HoldersInv
<1>3. IdleInv' /\ BookInv' /\ SavedInv'
  BY <1>1 DEF HoldersInv, IdleInv, BookInv, SavedInv
<1> QED
  BY <1>2, <1>3 DEF HoldersInv

\* Calls that fail: the job has failed, or is pending still.
LEMMA FailuresKeepHolders ==
  ASSUME HoldersInv, Recorded, UnknownToken \/ Abort \/ Restart
  PROVE  HoldersInv'
<1>0. BaseInv /\ CollectorInv
  BY BaseParts DEF HoldersInv
<1>1. Clear /\ EndOfCall /\ UNCHANGED <<chainVars, marketVars>>
  <2>1. CASE UnknownToken
    BY <2>1 DEF UnknownToken
  <2>2. CASE Abort
    <3>1. ~(unrecorded < MaxUnrecorded)
      BY <1>0 DEF Recorded, CollectorInv, CollectorTypes
    <3> QED
      BY <2>2, <3>1 DEF Abort
  <2>3. CASE Restart
    BY <2>3 DEF Restart
  <2> QED
    BY <2>1, <2>2, <2>3
<1>2. /\ BaseInv' /\ Len(jobs') = Len(jobs)
      /\ \A i \in 1..Len(jobs) : jobs'[i].status = "failed" \/ jobs'[i] = jobs[i]
  BY <1>0, UnknownTokenKeepsBase, AbortKeepsBase, RestartKeepsBase
<1>3. HoldersAtBlock'
  BY <1>1, <1>2, DoneListsKept DEF HoldersInv
<1> QED
  BY <1>1, <1>2, <1>3, CallEndsHolders DEF HoldersInv

\* The book begins with the checkpoint.
LEMMA LoadCheckpointKeepsHolders ==
  ASSUME HoldersInv, LoadCheckpoint
  PROVE  HoldersInv'
<1>0. BaseInv /\ CollectorInv /\ pc # "idle"
  BY BaseParts DEF HoldersInv, LoadCheckpoint
<1>1. /\ blockTo' = ChunkEnd(blockFrom') /\ pass' = 1 /\ pc = "checkpoint" /\ pc' = "process"
      /\ UNCHANGED <<chainVars, marketVars, jobs, target, saved, infoVars, faultVars>>
  BY DEF LoadCheckpoint
<1>2. BaseInv' /\ HoldersAtBlock'
  BY <1>0, <1>1, LoadCheckpointKeepsBase, DoneListsKept DEF HoldersInv
<1>3. IdleInv' /\ SavedInv'
  BY <1>1 DEF HoldersInv, IdleInv, SavedInv
<1>4. /\ target \in 1..Len(jobs) /\ Job.token \in Token /\ Job.block \in 0..Len(chain)
      /\ Len(jobs) \in Nat
  BY <1>0, TargetParts
<1>5. UNCHANGED <<chain, owners, moved>> /\ Job' = Job
  BY <1>1 DEF chainVars, marketVars, Job
<1>6. /\ blockFrom' \in Nat /\ blockFrom' <= blockTo' /\ blockTo' \in 0..Len(chain)
  <2>1. /\ blockFrom' <= blockTo' /\ blockFrom' \in Nat /\ blockTo' \in Nat
    BY <1>1, <1>2 DEF BaseInv, RangeInv, TypeOK
  <2>2. blockTo' <= Job.block /\ Len(chain) \in Nat
    BY <1>0, <1>1, <1>4, <2>1, HoldersAssumption, TargetParts DEF ChunkEnd
  <2> QED
    BY <1>4, <2>1, <2>2
<1>7. KindsRead' = {}
  BY <1>1 DEF KindsRead
<1>8. Read' = {r \in EventsOf(chain, Job.token, blockTo') : r[1] < blockFrom'}
  BY <1>1, <1>5, <1>7 DEF Read, EventsOf
<1>9. ASSUME ~behind', Job.token \notin moved, NEW a \in Others(Job.token)
      PROVE  book'[a] = Balances(Read', a)
  <2>0. a \in Account /\ book = EmptyBook /\ book[a] = Nothing
    BY <1>1, EmptyTypes DEF Others, HoldersInv, IdleInv
  <2>1. CASE Earlier = {}
    <3>1. blockFrom' = 0 /\ book' = book
      BY <2>1 DEF LoadCheckpoint
    <3>2. Read' = {}
      BY <1>0, <1>8, <3>1, EventRows
    <3>3. Balances({}, a) = Nothing
      BY NoEvents
    <3> QED
      BY <2>0, <3>1, <3>2, <3>3
  <2>2. CASE Earlier # {}
    <3>1. PICK i \in Earlier :
             /\ blockFrom' = jobs[i].block + 1
             /\ behind' = jobs[i].behind
             /\ book' = [b \in Account |->
                   IF b \notin DOMAIN jobs[i].list THEN book[b]
                   ELSE [hold |-> book[b].hold + jobs[i].list[b].hold,
                         locked |-> book[b].locked + jobs[i].list[b].locked]]
      BY <2>2 DEF LoadCheckpoint
    <3> DEFINE rows == EventsOf(chain, Job.token, jobs[i].block)
    <3>2. /\ i \in 1..Len(jobs) /\ jobs[i].status = "done" /\ jobs[i].token = Job.token
          /\ jobs[i].block \in 1..MaxBlock /\ jobs[i].list \in Lists
      BY <1>0, JobFields DEF Earlier, CollectorInv
    <3>3. jobs[i].block \in 0..Len(chain)
      BY <1>0, <1>4, <3>2 DEF CollectorInv, TargetInv
    <3>4. IF a \in DOMAIN jobs[i].list THEN jobs[i].list[a] = HoldingAt(i, a)
          ELSE HoldingAt(i, a) = Nothing
      BY <1>9, <3>1, <3>2 DEF HoldersInv, HoldersAtBlock, Others
    <3>5. HoldingAt(i, a) = Balances(rows, a) /\ Balances(rows, a) \in Amount
      BY <1>0, <1>4, <3>2, <3>3, HoldingIs, BalancesType
    <3>6. Read' = rows
      <4>1. jobs[i].block \in Nat /\ jobs[i].block <= blockTo' /\ blockTo' \in 0..Len(chain)
        BY <1>6, <3>1, <3>2
      <4>2. rows = {r \in EventsOf(chain, Job.token, blockTo') : r[1] < jobs[i].block + 1}
        BY <1>0, <1>4, <4>1, EventsUpTo
      <4> QED
        BY <1>8, <3>1, <4>2
    <3> HIDE DEF rows
    <3>7. book'[a] = Balances(rows, a)
      <4>1. CASE a \in DOMAIN jobs[i].list
        <5>1. book'[a] = [hold |-> book[a].hold + jobs[i].list[a].hold,
                          locked |-> book[a].locked + jobs[i].list[a].locked]
          BY <2>0, <3>1, <4>1
        <5>2. jobs[i].list[a] = Balances(rows, a)
          BY <3>4, <3>5, <4>1
        <5> QED
          BY <2>0, <3>5, <5>1, <5>2 DEF Nothing, Amount
      <4>2. CASE a \notin DOMAIN jobs[i].list
        BY <2>0, <3>1, <3>4, <3>5, <4>2
      <4> QED
        BY <4>1, <4>2
    <3> QED
      BY <3>6, <3>7
  <2> QED
    BY <2>1, <2>2
<1>10. BookInv'
  BY <1>5, <1>9 DEF BookInv, Reliable, Others, Balances, Sum
<1> QED
  BY <1>2, <1>3, <1>10 DEF HoldersInv

\* One pass adds what the chunk has of its kind, and the last one leaves out nothing that
\* matters.
LEMMA PassReads ==
  ASSUME HoldersInv, NoIssueIntoLock, Process, Reliable,
         NEW h \in Heads, NEW g \in Heads, ~(h < blockTo), ~(g < blockTo),
         NEW rows, rows = LogsOf(Passes(Job.token)[pass], h, g)
  PROVE  /\ IsFiniteSet(Read) /\ IsFiniteSet(rows) /\ Read \intersect rows = {}
         /\ pc' = "process" => Read' = Read \union rows
         /\ pc' = "save" => /\ Read \union rows \subseteq Read'
                            /\ \A r \in Read' \ (Read \union rows) : Effect(r[2]) = {}
<1> DEFINE K == Passes(Job.token)[pass]
           all == EventsOf(chain, Job.token, blockTo)
           n == Len(Passes(Job.token))
<1>0. BaseInv /\ pc = "process" /\ pc # "idle" /\ CollectorInv /\ ChainTypeOK
  BY BaseParts DEF HoldersInv, Process
<1>1. /\ target \in 1..Len(jobs) /\ Job.token \in Token
      /\ blockFrom \in Nat /\ blockTo \in 0..Len(chain) /\ blockTo \in Nat
  BY <1>0, TargetParts
<1>2. UNCHANGED <<chain, jobs, target, blockFrom, blockTo>> /\ Job' = Job
  BY DEF Process, chainVars, Job
<1>3. pass \in 1..n /\ n \in 1..8
  BY <1>0, <1>1, PassesAre DEF CollectorInv, RangeInv
<1>4. /\ \A j \in 1..n : j # pass => Passes(Job.token)[j] # K
      /\ K # "HolderChanged" /\ (K = "Transfer" <=> pass = 1)
  BY <1>1, <1>3, PassesAre
<1>5. Read = {r \in all : r[1] < blockFrom \/ r[2].kind \in KindsRead}
  BY <1>0 DEF Read
<1>6. IsFiniteSet(all)
  BY <1>0, <1>1, EventsUpTo
<1>7. exchange = tradable[Job.token]
  BY <1>0 DEF CollectorInv, RangeInv, Reliable
<1>8. h \in Nat /\ g \in Nat
  BY <1>0 DEF Heads, ChainTypeOK
<1>9. ASSUME NEW r
      PROVE  r \in rows <=> /\ r \in all /\ r[1] >= blockFrom
                            /\ r[2].kind = K \/ (pass = 1 /\ r[2].kind = "HolderChanged")
  <2>1. ASSUME r \in rows
        PROVE  /\ r \in all /\ r[1] >= blockFrom
               /\ r[2].kind = K \/ (pass = 1 /\ r[2].kind = "HolderChanged")
    <3>1. r \in LogsOf(K, h, g)
      BY <2>1
    <3> HIDE DEF K, all
    <3>2. /\ r[1] \in blockFrom..blockTo
          /\ r \in EventsOf(chain, Job.token, blockTo)
          /\ r[2].kind = K \/ (K = "Transfer" /\ r[2].kind = "HolderChanged")
      BY <1>0, <3>1, LogsAre
    <3> QED
      BY <1>1, <1>4, <3>2 DEF all
  <2>2. ASSUME r \in all, r[1] >= blockFrom,
               r[2].kind = K \/ (pass = 1 /\ r[2].kind = "HolderChanged")
        PROVE  r \in rows
    <3>1. /\ r[1] \in 1..Len(chain) /\ r[1] \in Block /\ r[1] <= blockTo
          /\ r[2] \in chain[r[1]] /\ r[2] \in Event /\ r[2].token = Job.token
          /\ r[2].kind = "HolderChanged" /\ Job.token \notin moved =>
                r[2].at = tradable[Job.token]
      BY <1>0, <2>2, EventRows
    <3>2. r[1] \in blockFrom..blockTo /\ r[1] <= h /\ r[1] <= g /\ r[1] <= Len(chain)
      BY <1>1, <1>8, <2>2, <3>1
    <3>3. r \in Block \X Event
      <4>1. PICK i \in DOMAIN chain : i <= blockTo /\ \E e \in chain[i] : e.token = Job.token /\ r = <<i, e>>
        BY <2>2, EventsAre
      <4>2. PICK e \in chain[i] : r = <<i, e>>
        BY <4>1
      <4> QED
        BY <3>1, <4>2
    <3> HIDE DEF K, all
    <3>4. CASE r[2].kind = K
      <4>1. r \in Logs(Job.token, K, blockFrom, blockTo, h)
        BY <3>1, <3>2, <3>3, <3>4 DEF Logs
      <4>2. K \in {"Issue", "Redeem"} => r[2].at = Zero
        BY <3>1, <3>4 DEF NoIssueIntoLock
      <4> QED
        BY <4>1, <4>2 DEF LogsOf, K
    <3>5. CASE pass = 1 /\ r[2].kind = "HolderChanged"
      <4>1. r \in Logs(Job.token, "HolderChanged", blockFrom, blockTo, g)
        BY <3>1, <3>2, <3>3, <3>5 DEF Logs
      <4>2. r[2].at = exchange /\ K = "Transfer"
        BY <1>4, <1>7, <3>1, <3>5 DEF Reliable
      <4> QED
        BY <4>1, <4>2 DEF LogsOf, K
    <3> QED
      BY <2>2, <3>4, <3>5
  <2> QED
    BY <2>1, <2>2
<1>10. IsFiniteSet(Read) /\ IsFiniteSet(rows)
  <2>1. Read \in SUBSET all /\ rows \in SUBSET all
    BY <1>5, <1>9
  <2> QED
    BY <1>6, <2>1, FS_Subset
<1>11. KindsRead = {Passes(Job.token)[j] : j \in 1..pass - 1}
                     \union IF pass = 1 THEN {} ELSE {"HolderChanged"}
  BY DEF KindsRead
<1>12. /\ \A j \in 1..pass - 1 : j \in 1..n /\ j # pass
       /\ K \notin KindsRead /\ (pass = 1 => "HolderChanged" \notin KindsRead)
  BY <1>3, <1>4, <1>11
<1>13. \A r \in all : r[1] \in Nat
  BY <1>0, EventRows
<1> HIDE DEF K, all
<1>14. Read \intersect rows = {}
  BY <1>1, <1>5, <1>9, <1>12, <1>13
<1>15. ASSUME pc' = "process"
       PROVE  Read' = Read \union rows
  <2>1. pass < n /\ pass' = pass + 1
    BY <1>3, <1>15 DEF Process
  <2>2. KindsRead' = KindsRead \union {K, "HolderChanged"}
    <3>0. Passes(Job.token)' = Passes(Job.token)
      BY <1>2 DEF Passes
    <3>1. KindsRead' = {Passes(Job.token)[j] : j \in 1..pass} \union {"HolderChanged"}
      <4>1. pass' # 1 /\ pass' - 1 = pass
        BY <1>3, <2>1
      <4>2. KindsRead' = {Passes(Job.token)[j] : j \in 1..pass' - 1}
                           \union IF pass' = 1 THEN {} ELSE {"HolderChanged"}
        BY <3>0 DEF KindsRead
      <4> QED
        BY <4>1, <4>2
    <3>2. {Passes(Job.token)[j] : j \in 1..pass} =
             {Passes(Job.token)[j] : j \in 1..pass - 1} \union {K}
      BY <1>3 DEF K
    <3> QED
      BY <1>11, <3>1, <3>2
  <2>3. Read' = {r \in all : r[1] < blockFrom \/ r[2].kind \in KindsRead'}
    BY <1>2, <1>15 DEF Read, EventsOf, all
  <2>4. ASSUME pass # 1
        PROVE  "HolderChanged" \in KindsRead
    BY <1>11, <2>4
  <2> QED
    BY <1>1, <1>5, <1>9, <1>13, <2>2, <2>3, <2>4
<1>16. ASSUME pc' = "save"
       PROVE  /\ Read \union rows \subseteq Read'
              /\ \A r \in Read' \ (Read \union rows) : Effect(r[2]) = {}
  <2>1. pass = n
    BY <1>0, <1>3, <1>16 DEF Process
  <2>2. Read' = all
    BY <1>2, <1>16 DEF Read, EventsOf, all
  <2>3. ASSUME NEW r \in Read' \ (Read \union rows)
        PROVE  Effect(r[2]) = {}
    <3>1. r \in all /\ r[1] >= blockFrom /\ r[2].kind \notin KindsRead /\ r[2].kind # K
          /\ ~(pass = 1 /\ r[2].kind = "HolderChanged")
      BY <1>1, <1>5, <1>9, <1>13, <2>2, <2>3
    <3>2. r[2].kind # "HolderChanged"
      BY <1>11, <3>1
    <3>3. r[2].kind \notin {Passes(Job.token)[j] : j \in 1..n}
      <4>1. SUFFICES ASSUME NEW j \in 1..n, r[2].kind = Passes(Job.token)[j]
                     PROVE  FALSE
        OBVIOUS
      <4>2. j = pass \/ j \in 1..pass - 1
        BY <1>3, <2>1
      <4> QED
        BY <1>11, <3>1, <4>1, <4>2 DEF K
    <3>4. r[2].kind \in Kinds(Job.token)
      BY <1>0, <3>1, EventRows DEF all
    <3>5. r[2].kind = "Register"
      BY <1>1, <3>2, <3>3, <3>4, PassesAre
    <3> QED
      BY <3>5 DEF Effect
  <2> QED
    BY <1>5, <1>9, <2>2, <2>3
<1> QED
  BY <1>10, <1>14, <1>15, <1>16

\* The book has the events of one more range.
LEMMA ProcessKeepsHolders ==
  ASSUME HoldersInv, NoIssueIntoLock, Process
  PROVE  HoldersInv'
<1>0. BaseInv /\ CollectorInv /\ pc = "process" /\ pc # "idle"
  BY BaseParts DEF HoldersInv, Process
<1>1. PICK h \in Heads, g \in Heads :
         /\ book' = StoreAll(LogsOf(Passes(Job.token)[pass], h, g))
         /\ behind' = (behind \/ h < blockTo \/ g < blockTo)
  BY DEF Process
<1>2. /\ UNCHANGED <<chainVars, marketVars, jobs, target, saved, infoVars, blockFrom, blockTo,
                     faultVars>>
      /\ pc' \in {"process", "save"}
  BY <1>0 DEF Process
<1>3. BaseInv' /\ HoldersAtBlock' /\ IdleInv' /\ SavedInv'
  BY <1>2, ProcessKeepsBase, DoneListsKept DEF HoldersInv, IdleInv, SavedInv
<1>4. UNCHANGED <<chain, owners, moved>> /\ Job' = Job
  BY <1>2 DEF chainVars, marketVars, Job
<1> DEFINE rows == LogsOf(Passes(Job.token)[pass], h, g)
<1>5. ASSUME Reliable', NEW a \in Others(Job.token)
      PROVE  book'[a] = Balances(Read', a)
  <2>1. Reliable /\ ~(h < blockTo) /\ ~(g < blockTo)
    BY <1>1, <1>4, <1>5 DEF Reliable
  <2>2. /\ IsFiniteSet(Read) /\ IsFiniteSet(rows) /\ Read \intersect rows = {}
        /\ pc' = "process" => Read' = Read \union rows
        /\ pc' = "save" => /\ Read \union rows \subseteq Read'
                           /\ \A r \in Read' \ (Read \union rows) : Effect(r[2]) = {}
    BY <2>1, PassReads
  <2>3. a \in Account /\ book[a] = Balances(Read, a)
    BY <1>0, <1>5, <2>1 DEF HoldersInv, BookInv, Others
  <2>4. book'[a] = [hold |-> book[a].hold + Sum(rows, a, "hold"),
                    locked |-> book[a].locked + Sum(rows, a, "locked")]
    BY <1>1, <2>3 DEF StoreAll
  <2> HIDE DEF rows
  <2>5. ASSUME NEW column \in {"hold", "locked"}
        PROVE  Sum(Read, a, column) + Sum(rows, a, column) = Sum(Read', a, column)
    <3>1. Sum(Read \union rows, a, column) = Sum(Read, a, column) + Sum(rows, a, column)
      BY <2>2, SumOfParts
    <3>2. CASE pc' = "process"
      BY <2>2, <3>1, <3>2
    <3>3. CASE pc' = "save"
      <4>1. Sum(Read', a, column) = Sum(Read \union rows, a, column)
        BY <2>2, <3>3, SumOfEffects
      <4> QED
        BY <3>1, <4>1
    <3> QED
      BY <1>2, <3>2, <3>3
  <2>6. Sum(Read, a, "hold") + Sum(rows, a, "hold") = Sum(Read', a, "hold")
    BY <2>5
  <2>7. Sum(Read, a, "locked") + Sum(rows, a, "locked") = Sum(Read', a, "locked")
    BY <2>5
  <2>8. book[a].hold = Sum(Read, a, "hold") /\ book[a].locked = Sum(Read, a, "locked")
    BY <2>3 DEF Balances
  <2> QED
    BY <2>4, <2>6, <2>7, <2>8 DEF Balances
<1>6. BookInv'
  BY <1>4, <1>5 DEF BookInv, Others, Balances, Sum
<1> QED
  BY <1>3, <1>6 DEF HoldersInv

\* The rows of a list are those of the book, but for the owner's.
LEMMA SaveHoldersKeepsHolders ==
  ASSUME HoldersInv, SaveHolders
  PROVE  HoldersInv'
<1>0. BaseInv /\ CollectorInv /\ pc = "save" /\ pc # "idle"
  BY BaseParts DEF HoldersInv, SaveHolders
<1>1. /\ saved' = [a \in Held \union DOMAIN saved |-> IF a \in Held THEN book[a] ELSE saved[a]]
      /\ UNCHANGED <<chainVars, marketVars, jobs, target, book, infoVars, pass, behind, faultVars>>
      /\ pc' \in {"process", "done"}
  BY DEF SaveHolders
<1>2. BaseInv' /\ HoldersAtBlock' /\ IdleInv'
  BY <1>1, SaveHoldersKeepsBase, DoneListsKept DEF HoldersInv, IdleInv
<1>3. UNCHANGED <<chain, owners, moved>> /\ Job' = Job /\ (Reliable' <=> Reliable)
  BY <1>1 DEF chainVars, marketVars, Job, Reliable
<1>4. /\ target \in 1..Len(jobs) /\ Job = jobs[target] /\ Job.token \in Token
      /\ Job.block \in 0..Len(chain) /\ Job.block \in Nat
      /\ blockFrom \in Nat /\ blockTo \in 0..Len(chain) /\ blockFrom <= blockTo
      /\ blockTo <= Job.block /\ blockTo \in Nat
      /\ book \in [Account -> Amount] /\ Len(chain) \in Nat
  BY <1>0, TargetParts
<1>5. Read' = Read
  <2>1. Read = EventsOf(chain, Job.token, blockTo)
    BY <1>0 DEF Read
  <2>2. CASE blockTo < Job.block
    <3>1. /\ blockFrom' = blockFrom + ChunkSize /\ blockTo' = ChunkEnd(blockFrom')
          /\ pc' = "process" /\ pass' = 1
      BY <1>0, <1>1, <2>2 DEF SaveHolders, CollectorInv, RangeInv
    <3>2. blockTo = ChunkEnd(blockFrom)
      BY <1>0 DEF CollectorInv, RangeInv
    <3>3. blockFrom' = blockTo + 1
      BY <1>4, <2>2, <3>1, <3>2, HoldersAssumption DEF ChunkEnd
    <3>4. blockTo' \in 0..Len(chain) /\ blockTo <= blockTo'
      BY <1>4, <2>2, <3>1, <3>3, HoldersAssumption DEF ChunkEnd
    <3>5. Read' = {r \in EventsOf(chain, Job.token, blockTo') : r[1] < blockFrom'}
      <4>1. KindsRead' = {}
        BY <3>1 DEF KindsRead
      <4> QED
        BY <1>3, <3>1, <4>1 DEF Read, EventsOf
    <3>6. EventsOf(chain, Job.token, blockTo) =
             {r \in EventsOf(chain, Job.token, blockTo') : r[1] < blockTo + 1}
      BY <1>0, <1>4, <3>4, EventsUpTo
    <3> QED
      BY <2>1, <3>3, <3>5, <3>6
  <2>3. CASE ~(blockTo < Job.block)
    BY <1>3, <2>1, <2>3 DEF SaveHolders, Read, EventsOf
  <2> QED
    BY <2>2, <2>3
<1>6. BookInv'
  BY <1>0, <1>1, <1>3, <1>5 DEF HoldersInv, BookInv, Others, Balances, Sum
<1>7. SavedInv'
  <2>0. ASSUME NEW a
        PROVE  HoldingAt(target, a)' = HoldingAt(target, a)
    <3>1. jobs'[target'] = jobs[target] /\ chain' = chain
      BY <1>1, <1>3
    <3> QED
      BY <3>1 DEF HoldingAt, EventsOf, Sum
  <2> SUFFICES ASSUME pc' = "done", Reliable, NEW a \in Others(Job.token)
               PROVE  IF a \in DOMAIN saved' THEN saved'[a] = HoldingAt(target, a)
                      ELSE HoldingAt(target, a) = Nothing
    BY <1>1, <1>3, <2>0 DEF SavedInv, Others
  <2>1. blockTo = Job.block
    BY <1>4 DEF SaveHolders
  <2>2. book[a] = HoldingAt(target, a)
    <3>1. book[a] = Balances(Read, a)
      BY <1>0 DEF HoldersInv, BookInv
    <3>2. Read = EventsOf(chain, jobs[target].token, jobs[target].block)
      BY <1>0, <1>4, <2>1 DEF Read
    <3> QED
      BY <3>1, <3>2, HoldingIs
  <2>3. a # tokenOwner /\ a \in Account
    BY <1>0 DEF CollectorInv, RangeInv, Others
  <2>4. CASE a \in Held
    <3>1. a \in DOMAIN saved' /\ saved'[a] = book[a]
      BY <1>1, <2>4
    <3> QED
      BY <2>2, <3>1
  <2>5. CASE a \notin Held
    <3>1. a \notin DOMAIN saved /\ ~(book[a].hold > 0) /\ ~(book[a].locked > 0)
      BY <2>3, <2>5 DEF Held
    <3>2. book[a].hold \in Nat /\ book[a].locked \in Nat
      <4>1. HoldingAt(target, a) = Balances(EventsOf(chain, Job.token, Job.block), a)
        BY <1>4, HoldingIs
      <4> QED
        BY <1>0, <1>4, <2>2, <4>1, OthersPositive
    <3>3. book[a] = Nothing
      <4>1. book[a] \in Amount /\ book[a].hold = 0 /\ book[a].locked = 0
        BY <1>4, <2>3, <3>1, <3>2
      <4> QED
        BY <4>1 DEF Amount, Nothing
    <3>4. a \notin DOMAIN saved'
      BY <1>1, <2>5, <3>1
    <3> QED
      BY <2>2, <3>3, <3>4
  <2> QED
    BY <2>4, <2>5
<1> QED
  BY <1>2, <1>6, <1>7 DEF HoldersInv

\* The list is finished: rows of those who have nothing are left out.
LEMMA UpdateStatusKeepsHolders ==
  ASSUME HoldersInv, UpdateStatus
  PROVE  HoldersInv'
<1> DEFINE list == [a \in {a \in DOMAIN saved : saved[a] # Nothing} |-> saved[a]]
<1>0. BaseInv /\ pc = "done" /\ pc # "idle" /\ Clear /\ EndOfCall
      /\ UNCHANGED <<chainVars, marketVars>>
  BY DEF HoldersInv, UpdateStatus
<1>1. /\ BaseInv' /\ Len(jobs') = Len(jobs) /\ target \in 1..Len(jobs)
      /\ \A i \in 1..Len(jobs) : i # target => jobs'[i] = jobs[i]
      /\ jobs'[target].list = list /\ jobs'[target].behind = behind
      /\ jobs'[target].token = Job.token /\ jobs'[target].block = Job.block
  BY <1>0, UpdateStatusKeepsBase
<1>2. UNCHANGED <<chain, owners, moved>> /\ Job = jobs[target]
  BY <1>0 DEF chainVars, marketVars, Job
<1> HIDE DEF list
<1>3. HoldersAtBlock'
  <2> SUFFICES ASSUME NEW i \in 1..Len(jobs), jobs'[i].status = "done", ~jobs'[i].behind,
                      jobs'[i].token \notin moved, NEW a \in Account \ owners[jobs'[i].token]
               PROVE  IF a \in DOMAIN jobs'[i].list THEN jobs'[i].list[a] = HoldingAt(i, a)'
                      ELSE HoldingAt(i, a)' = Nothing
    BY <1>1, <1>2 DEF HoldersAtBlock
  <2>1. CASE i # target
    <3>1. jobs'[i] = jobs[i]
      BY <1>1, <2>1
    <3>2. HoldingAt(i, a)' = HoldingAt(i, a)
      BY <1>2, <3>1 DEF HoldingAt, EventsOf, Sum
    <3> QED
      BY <3>1, <3>2 DEF HoldersInv, HoldersAtBlock
  <2>2. CASE i = target
    <3>1. HoldingAt(i, a)' = HoldingAt(target, a)
      <4>1. /\ chain' = chain /\ jobs'[i].token = jobs[target].token
            /\ jobs'[i].block = jobs[target].block
        BY <1>1, <1>2, <2>2
      <4> QED
        BY <4>1 DEF HoldingAt, EventsOf, Sum
    <3>2. Reliable /\ a \in Others(Job.token)
      BY <1>1, <2>2 DEF Reliable, Others
    <3>3. IF a \in DOMAIN saved THEN saved[a] = HoldingAt(target, a)
          ELSE HoldingAt(target, a) = Nothing
      BY <1>0, <3>2 DEF HoldersInv, SavedInv
    <3>4. CASE a \in DOMAIN saved /\ saved[a] # Nothing
      <4>1. a \in DOMAIN list /\ list[a] = saved[a]
        BY <3>4 DEF list
      <4> QED
        BY <1>1, <2>2, <3>1, <3>3, <3>4, <4>1
    <3>5. CASE ~(a \in DOMAIN saved /\ saved[a] # Nothing)
      <4>1. a \notin DOMAIN list
        BY <3>5 DEF list
      <4> QED
        BY <1>1, <2>2, <3>1, <3>3, <3>5, <4>1
    <3> QED
      BY <3>4, <3>5
  <2> QED
    BY <2>1, <2>2
<1> QED
  BY <1>0, <1>1, <1>3, CallEndsHolders DEF HoldersInv

\* Blocks that are mined, nodes that catch up, owners and exchanges that change.
LEMMA EnvironmentKeepsHolders ==
  ASSUME HoldersInv, Environment
  PROVE  HoldersInv'
<1>0. BaseInv /\ CollectorInv
  BY BaseParts DEF HoldersInv
<1>1. Grows /\ BaseInv'
  BY <1>0, EnvironmentGrows, EnvironmentKeepsBase DEF BaseInv
<1>2. UNCHANGED <<jobs, pc, target, book, saved, blockFrom, blockTo, pass, behind>>
  BY <1>1 DEF Grows, rangeVars
<1>3. IdleInv'
  BY <1>2 DEF HoldersInv, IdleInv
<1>4. ASSUME NEW i \in 1..Len(jobs)
      PROVE  /\ jobs[i].token \in Token
             /\ owners[jobs[i].token] \subseteq owners'[jobs[i].token]
             /\ jobs[i].token \notin moved' => jobs[i].token \notin moved
             /\ \A a : HoldingAt(i, a)' = HoldingAt(i, a)
  <2>1. jobs[i].token \in Token /\ jobs[i].block \in 0..Len(chain)
    <3>1. jobs[i].token \in Token /\ jobs[i].block \in 1..MaxBlock /\ jobs[i].block <= Len(chain)
      BY <1>0, JobFields DEF CollectorInv, TargetInv
    <3>2. Len(chain) \in Nat
      BY <1>0, BaseParts DEF ChainTypeOK
    <3> QED
      BY <3>1, <3>2
  <2>2. EventsOf(chain', jobs[i].token, jobs[i].block) = EventsOf(chain, jobs[i].token, jobs[i].block)
    BY <1>1, <2>1 DEF Grows
  <2>3. ASSUME NEW a
        PROVE  HoldingAt(i, a)' = HoldingAt(i, a)
    BY <1>2, <2>2 DEF HoldingAt, Sum
  <2> QED
    BY <1>1, <2>1, <2>3 DEF Grows
<1>5. HoldersAtBlock'
  <2> SUFFICES ASSUME NEW i \in 1..Len(jobs), jobs[i].status = "done", ~jobs[i].behind,
                      jobs[i].token \notin moved', NEW a \in Account \ owners'[jobs[i].token]
               PROVE  IF a \in DOMAIN jobs[i].list THEN jobs[i].list[a] = HoldingAt(i, a)'
                      ELSE HoldingAt(i, a)' = Nothing
    BY <1>2 DEF HoldersAtBlock
  <2>1. /\ owners[jobs[i].token] \subseteq owners'[jobs[i].token]
        /\ jobs[i].token \notin moved
        /\ HoldingAt(i, a)' = HoldingAt(i, a)
    BY <1>4
  <2> QED
    BY <2>1 DEF HoldersInv, HoldersAtBlock
<1>6. BookInv' /\ SavedInv'
  <2>1. CASE pc = "idle"
    BY <1>2, <2>1 DEF BookInv, SavedInv
  <2>2. CASE pc # "idle"
    <3>1. target \in 1..Len(jobs) /\ Job = jobs[target] /\ Job' = Job
      BY <1>2, <2>2, TargetParts DEF Job
    <3>2. (Reliable' => Reliable) /\ Others(Job.token)' \subseteq Others(Job.token)
      BY <1>2, <1>4, <3>1 DEF Reliable, Others
    <3>3. pc \in {"process", "save", "done"} => Read' = Read
      <4>1. pc \in {"process", "save", "done"} =>
              EventsOf(chain', Job.token, blockTo) = EventsOf(chain, Job.token, blockTo)
        BY <1>1, <2>2, TargetParts DEF Grows
      <4>2. KindsRead' = KindsRead
        BY <1>2, <3>1 DEF KindsRead, Passes
      <4> QED
        BY <1>2, <3>1, <4>1, <4>2 DEF Read
    <3>4. BookInv'
      BY <1>2, <3>1, <3>2, <3>3 DEF HoldersInv, BookInv, Balances, Sum
    <3>5. SavedInv'
      <4>1. ASSUME NEW a
            PROVE  HoldingAt(target, a)' = HoldingAt(target, a)
        BY <1>2, <1>4, <3>1
      <4> QED
        BY <1>2, <3>1, <3>2, <4>1 DEF HoldersInv, SavedInv
    <3> QED
      BY <3>4, <3>5
  <2> QED
    BY <2>1, <2>2
<1> QED
  BY <1>1, <1>3, <1>5, <1>6 DEF HoldersInv

\* A step that changes nothing.
LEMMA StutterHolders ==
  ASSUME HoldersInv, UNCHANGED vars
  PROVE  HoldersInv'
<1>1. BaseInv' /\ BaseInv
  BY StutterBase DEF HoldersInv
<1>2. UNCHANGED <<chainVars, marketVars, jobs, pc, target, book, saved, tokenOwner, exchange,
                  blockFrom, blockTo, pass, behind>>
      /\ UNCHANGED <<chain, owners, moved>> /\ Job' = Job
  BY DEF vars, infoVars, rangeVars, faultVars, chainVars, marketVars, Job
<1>3. HoldersAtBlock' /\ IdleInv'
  BY <1>2, DoneListsKept DEF HoldersInv, IdleInv
<1>4. Read' = Read /\ (Reliable' <=> Reliable) /\ Others(Job.token)' = Others(Job.token)
  BY <1>2 DEF Read, KindsRead, Reliable, Others, EventsOf, Passes
<1>5. ASSUME NEW a
      PROVE  HoldingAt(target, a)' = HoldingAt(target, a)
  <2>1. jobs'[target'] = jobs[target]
    BY <1>2
  <2> QED
    BY <1>2, <2>1 DEF HoldingAt, EventsOf, Sum
<1>6. BookInv' /\ SavedInv'
  BY <1>2, <1>4, <1>5 DEF HoldersInv, BookInv, SavedInv, Balances, Sum
<1> QED
  BY <1>1, <1>3, <1>6 DEF HoldersInv

\* A list a job finishes says what everybody but the owners had at its block, for any
\* checkpoints, chunks, failures and restarts, and any number of jobs, tokens and nodes,
\* provided that no failure goes unrecorded and no token is issued into a lock.
THEOREM ListsRight ==
  ASSUME Recorded, NoIssueIntoLock
  PROVE  Spec => []HoldersAtBlock
<1>1. Init => HoldersInv
  BY InitHolders
<1>2. HoldersInv /\ [Next]_vars => HoldersInv'
  BY CreateKeepsHolders, LoadTargetKeepsHolders, LoadTokenInfoKeepsHolders,
     FailuresKeepHolders, LoadCheckpointKeepsHolders, ProcessKeepsHolders,
     SaveHoldersKeepsHolders, UpdateStatusKeepsHolders, EnvironmentKeepsHolders, StutterHolders
     DEF Next, Collect
<1>3. HoldersInv => HoldersAtBlock
  BY DEF HoldersInv
<1> QED
  BY <1>1, <1>2, <1>3, PTL DEF Spec
==============================================================================
