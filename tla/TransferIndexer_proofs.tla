------------------------ MODULE TransferIndexer_proofs ------------------------
(***************************************************************************)
(* Proofs about TransferIndexer.  TypeOK holds for every set of nodes.     *)
(* ExactlyOnce holds when all requests are answered by one node; with      *)
(* several nodes it does not (see the run transfer_reindex), and what is   *)
(* kept then is proved at the end.                                         *)
(*                                                                         *)
(* The inductive invariant says what the open session contains at every    *)
(* position of sync_new_logs: the events up to the token's block number    *)
(* and, for the target tokens, those up to the last chunk that the pass    *)
(* for their kind has finished.                                            *)
(***************************************************************************)
EXTENDS TransferIndexer, TLAPS, WellFoundedInduction

OnChain(r) ==
    /\ r[1] <= Len(chain)
    /\ r[2] \in chain[r[1]]
    /\ Indexable(r[2])

Rank == [p \in Phases |->
            CASE p = "idle" -> 0
              [] p = "Transfer" -> 1
              [] p = "Unlock" -> 2
              [] p = "ForceUnlock" -> 3
              [] p = "ForceChangeLockedAccount" -> 4
              [] p = "update_skip" -> 5
              [] p = "update_block" -> 6]

\* The last block up to which the pass for kind k has read the chain.
DoneTo(k) == IF Rank[k] < Rank[pc] THEN ChunkTo ELSE from - 1

InSession(r) ==
    /\ OnChain(r)
    /\ \/ r[1] <= cursor[r[2].token]
       \/ r[2].token \in targets /\ r[1] <= DoneTo(r[2].kind)

HeadsCurrent == \A n \in Node : head[n] = Len(chain)

CursorWithinChain == \A t \in Token : cursor[t] <= Len(chain)

SessionMatches ==
    IF pc = "idle" THEN sess = rows
    ELSE \A r \in Row : sess[r] = IF InSession(r) THEN 1 ELSE 0

CallLocals ==
    pc # "idle" =>
        /\ latest <= Len(chain)
        /\ from <= latest
        /\ pc = "update_block" => latest <= from + ChunkSize - 1
        /\ \A t \in targets : cursor[t] <= latest

SkipMatches ==
    pc \in Kinds =>
        \A t \in targets :
            /\ skip[t].block = cursor[t]
            /\ \A b \in Block : b > cursor[t] /\ b >= from => BlockTime[b] > skip[t].time

\* The inductive invariant.
IInv ==
    /\ TypeOK
    /\ ExactlyOnce
    /\ HeadsCurrent
    /\ CursorWithinChain
    /\ SessionMatches
    /\ CallLocals
    /\ SkipMatches

------------------------------------------------------------------------------
(* The newest created time of a token's rows.                                *)

\* A set of natural numbers up to N that is not empty has a greatest element.
LEMMA BoundedSetHasMax ==
    ASSUME NEW N \in Nat, NEW B \in SUBSET (0..N), B # {}
    PROVE  \E m \in B : \A b \in B : b <= m
<1> DEFINE T == {N - b : b \in B}
<1>1. T \subseteq Nat /\ T # {}
  <2>1. \A b \in B : b \in 0..N
    OBVIOUS
  <2>2. \A b \in B : N - b \in Nat
    BY <2>1
  <2>3. PICK b \in B : TRUE
    OBVIOUS
  <2> QED BY <2>2, <2>3
<1>2. \E x \in T : \A y \in T : ~ (<<y, x>> \in OpToRel(<, Nat))
  BY <1>1, WFMin, NatLessThanWellFounded
<1>3. PICK m \in B : \A y \in T : ~ (<<y, N - m>> \in OpToRel(<, Nat))
  BY <1>2
<1>4. ASSUME NEW b \in B PROVE b <= m
  <2>1. ~ (<<N - b, N - m>> \in OpToRel(<, Nat))
    BY <1>3
  <2>2. N - b \in Nat /\ N - m \in Nat
    BY <1>1
  <2>3. ~ (N - b < N - m)
    BY <2>1, <2>2 DEF OpToRel
  <2> QED BY <2>3
<1> QED BY <1>4

\* The newest created time is an upper bound of the times of the token's rows
\* and is itself one of them, or NoTime when there is no row.
LEMMA LatestCreatedIsNewest ==
    ASSUME NEW t \in Token, NEW count \in [Row -> Nat]
    PROVE  /\ LatestCreated(t, count) \in Nat
           /\ \A r \in Row : count[r] > 0 /\ r[2].token = t
                              => BlockTime[r[1]] <= LatestCreated(t, count)
           /\ \/ LatestCreated(t, count) = NoTime
              \/ \E r \in Row : /\ count[r] > 0
                                /\ r[2].token = t
                                /\ LatestCreated(t, count) = BlockTime[r[1]]
<1> DEFINE times == CreatedTimes(t, count)
           blocks == {r[1] : r \in {x \in Row : count[x] > 0 /\ x[2].token = t}}
<1>1. times = {BlockTime[b] : b \in blocks}
  BY DEF CreatedTimes
<1>2. blocks \subseteq Block
  BY DEF Row
<1>3. CASE times = {}
  <2>1. LatestCreated(t, count) = NoTime
    BY <1>3 DEF LatestCreated
  <2>2. \A r \in Row : ~ (count[r] > 0 /\ r[2].token = t)
    BY <1>3 DEF CreatedTimes
  <2> QED BY <2>1, <2>2 DEF NoTime
<1>4. CASE times # {}
  <2>1. blocks # {} /\ blocks \in SUBSET (0..MaxBlock)
    BY <1>1, <1>2, <1>4, ChainAssumption DEF Block
  <2>2. PICK m \in blocks : \A b \in blocks : b <= m
    <3>1. MaxBlock \in Nat
      BY ChainAssumption
    <3> HIDE DEF blocks
    <3> QED BY <2>1, <3>1, BoundedSetHasMax
  <2>3. \A b \in blocks : BlockTime[b] <= BlockTime[m]
    <3> TAKE b \in blocks
    <3>1. b \in Block /\ m \in Block /\ b <= m
      BY <1>2, <2>2
    <3>2. b = m \/ b < m
      BY <3>1, ChainAssumption DEF Block
    <3>3. BlockTime[b] \in Nat /\ BlockTime[m] \in Nat
      BY <3>1, TransferAssumption
    <3>4. b < m => BlockTime[b] < BlockTime[m]
      BY <3>1, TransferAssumption
    <3> QED BY <3>2, <3>3, <3>4
  <2>4. \E x \in times : \A c \in times : c <= x
    BY <1>1, <2>3
  <2>5. /\ LatestCreated(t, count) \in times
        /\ \A c \in times : c <= LatestCreated(t, count)
    BY <1>4, <2>4 DEF LatestCreated
  <2>6. times \subseteq Nat
    BY <1>1, <1>2, TransferAssumption
  <2>7. \A r \in Row : count[r] > 0 /\ r[2].token = t => BlockTime[r[1]] \in times
    BY DEF CreatedTimes
  <2>8. \E r \in Row : /\ count[r] > 0
                       /\ r[2].token = t
                       /\ LatestCreated(t, count) = BlockTime[r[1]]
    BY <2>5 DEF CreatedTimes
  <2> QED BY <2>5, <2>6, <2>7, <2>8
<1> QED BY <1>3, <1>4

------------------------------------------------------------------------------
(* Type correctness.                                                         *)

\* The environment keeps the types of its variables.
LEMMA ChainTyped == ChainTypeOK /\ ChainNext => ChainTypeOK'
<1> SUFFICES ASSUME ChainTypeOK, ChainNext PROVE ChainTypeOK'
  OBVIOUS
<1> USE ChainAssumption DEF ChainTypeOK, BlockNumber
<1>1. CASE Mine
  <2>1. PICK block \in Contents, S \in (SUBSET Node) \ {{}} :
           /\ Len(chain) < MaxBlock
           /\ chain' = Append(chain, block)
           /\ head' = [n \in Node |-> IF n \in S THEN Len(chain) + 1 ELSE head[n]]
    BY <1>1 DEF Mine
  <2>2. Len(chain') = Len(chain) + 1 /\ chain' \in Seq(SUBSET Event)
    BY <2>1
  <2>3. \A n \in Node : head'[n] \in BlockNumber /\ head'[n] <= Len(chain')
    BY <2>1, <2>2
  <2>4. head' \in [Node -> BlockNumber]
    BY <2>1, <2>3
  <2>5. listed' = listed
    BY <1>1 DEF Mine
  <2> QED BY <2>1, <2>2, <2>3, <2>4, <2>5
<1>2. CASE CatchUp
  BY <1>2 DEF CatchUp
<1>3. CASE RegisterAdminToken
  BY <1>3 DEF RegisterAdminToken
<1>4. CASE DeleteToken
  BY <1>4 DEF DeleteToken
<1> QED BY <1>1, <1>2, <1>3, <1>4 DEF ChainNext

\* The skip values of a target list are well typed.
LEMMA SkipTyped ==
    ASSUME TypeOK, NEW S \in SUBSET Token
    PROVE  [t \in Token |-> IF t \in S THEN LatestSynchronized(t, sess) ELSE NoSkip[t]]
              \in [Token -> [time : Nat, block : BlockNumber \union {NoBlock}]]
<1>1. \A t \in Token : LatestSynchronized(t, sess)
                           \in [time : Nat, block : BlockNumber \union {NoBlock}]
  BY LatestCreatedIsNewest DEF TypeOK, LatestSynchronized
<1>2. \A t \in Token : NoSkip[t] \in [time : Nat, block : BlockNumber \union {NoBlock}]
  BY DEF NoSkip, NoTime
<1> QED BY <1>1, <1>2

\* A pass only counts rows up, so the session stays a bag of rows.
LEMMA PassTyped ==
    ASSUME TypeOK, NEW k \in Kinds, NEW next \in Phases, SyncEvents(k, next)
    PROVE  TypeOK'
<1>1. PICK server \in [targets -> Node] :
         sess' = [r \in Row |->
                     IF \E t \in targets : r \in NewRows(t, k, head[server[t]])
                     THEN sess[r] + 1 ELSE sess[r]]
  BY DEF SyncEvents
<1>2. sess' \in [Row -> Nat]
  BY <1>1 DEF TypeOK
<1> QED BY <1>2 DEF SyncEvents, TypeOK, ChainTypeOK, chainVars, indexVars

\* TypeOK is inductive.
LEMMA TypeInvariant == TypeOK /\ [Next]_vars => TypeOK'
<1> SUFFICES ASSUME TypeOK, [Next]_vars PROVE TypeOK'
  OBVIOUS
<1> USE ChainAssumption, TransferAssumption
<1>1. CASE GetTokenList
  <2>1. latest' \in BlockNumber
    BY <1>1 DEF GetTokenList, TypeOK, ChainTypeOK
  <2>2. typeCache' \in [Token -> {"absent", "unlisted", "known"}]
    BY <1>1 DEF GetTokenList, FetchTypes, TypeOK
  <2>3. targets' \in SUBSET Token
    BY <1>1 DEF GetTokenList, TypeOK, ChainTypeOK
  <2>4. skip' \in [Token -> [time : Nat, block : BlockNumber \union {NoBlock}]]
    BY <1>1, <2>3, SkipTyped DEF GetTokenList
  <2> QED BY <1>1, <2>1, <2>2, <2>3, <2>4
          DEF GetTokenList, TypeOK, ChainTypeOK, chainVars, indexVars, Phases, Kinds
<1>2. CASE SyncTransfer
  BY <1>2, PassTyped DEF SyncTransfer, Phases, Kinds
<1>3. CASE SyncUnlock
  BY <1>3, PassTyped DEF SyncUnlock, Phases, Kinds
<1>4. CASE SyncForceUnlock
  BY <1>4, PassTyped DEF SyncForceUnlock, Phases, Kinds
<1>5. CASE SyncForceChangeLockedAccount
  BY <1>5, PassTyped DEF SyncForceChangeLockedAccount, Phases, Kinds
<1>6. CASE UpdateSkipBlock
  <2>1. skip' \in [Token -> [time : Nat, block : BlockNumber \union {NoBlock}]]
    BY <1>6, SkipTyped DEF UpdateSkipBlock, TypeOK
  <2>2. from' \in Nat /\ pc' \in Phases
    BY <1>6 DEF UpdateSkipBlock, TypeOK, Phases, Kinds
  <2> QED BY <1>6, <2>1, <2>2
          DEF UpdateSkipBlock, TypeOK, ChainTypeOK, chainVars, indexVars
<1>7. CASE UpdateIdxLatestBlock
  BY <1>7 DEF UpdateIdxLatestBlock, EndOfCall, TypeOK, ChainTypeOK, chainVars, Phases,
              NoSkip, NoTime, BlockNumber
<1>8. CASE Rollback
  BY <1>8 DEF Rollback, EndOfCall, TypeOK, ChainTypeOK, chainVars, indexVars, Phases,
              NoSkip, NoTime, BlockNumber
<1>9. CASE Restart
  BY <1>9 DEF Restart, EndOfCall, TypeOK, ChainTypeOK, chainVars, indexVars, Phases,
              NoSkip, NoTime, BlockNumber
<1>10. CASE Environment
  BY <1>10, ChainTyped DEF Environment, TypeOK, indexVars, syncVars
<1>11. CASE UNCHANGED vars
  BY <1>11 DEF vars, TypeOK, ChainTypeOK, chainVars, indexVars, syncVars
<1> QED BY <1>1, <1>2, <1>3, <1>4, <1>5, <1>6, <1>7, <1>8, <1>9, <1>10, <1>11
        DEF Next, SyncNewLogs

\* The types hold in the initial states.
LEMMA InitTyped == Init => TypeOK
BY ChainAssumption, TransferAssumption
   DEF Init, ChainInit, TypeOK, ChainTypeOK, Phases, NoSkip, NoTime, NoBlock, BlockNumber

\* Every reachable state is well typed, whatever the number of nodes.
THEOREM TypeCorrect == Spec => []TypeOK
BY InitTyped, TypeInvariant, PTL DEF Spec

------------------------------------------------------------------------------
(* Exactly-once indexing with one node.                                      *)

\* Every row of the session is known to be one of the events the block numbers
\* and the passes account for, so its block bounds what skip_timestamp can be.
LEMMA SkipAhead ==
    ASSUME TypeOK,
           NEW t \in Token, NEW b \in Block,
           \A r \in Row : sess[r] > 0 /\ r[2].token = t => r[1] < b
    PROVE  BlockTime[b] > LatestCreated(t, sess)
<1>1. LatestCreated(t, sess) = NoTime
      \/ \E r \in Row : /\ sess[r] > 0
                        /\ r[2].token = t
                        /\ LatestCreated(t, sess) = BlockTime[r[1]]
  BY LatestCreatedIsNewest DEF TypeOK
<1>2. BlockTime[b] \in Nat /\ BlockTime[b] > 0
  BY TransferAssumption
<1>3. CASE LatestCreated(t, sess) = NoTime
  BY <1>2, <1>3 DEF NoTime
<1>4. ASSUME NEW r \in Row,
             sess[r] > 0, r[2].token = t, LatestCreated(t, sess) = BlockTime[r[1]]
      PROVE  BlockTime[b] > LatestCreated(t, sess)
  <2>1. r[1] \in Block /\ r[1] < b
    BY <1>4 DEF Row
  <2>2. BlockTime[r[1]] < BlockTime[b]
    BY <2>1, TransferAssumption
  <2> QED BY <1>4, <2>2
<1> QED BY <1>1, <1>3, <1>4

\* What a pass reads and what was read before it make up, without overlap, the
\* blocks up to the end of the chunk.
LEMMA PassReadsTheRest ==
    ASSUME IInv, pc \in Kinds, NEW t \in targets, NEW r \in Row
    PROVE  r \in NewRows(t, pc, Len(chain)) <=>
              /\ OnChain(r)
              /\ r[2].token = t
              /\ r[2].kind = pc
              /\ r[1] > cursor[t]
              /\ r[1] >= from
              /\ r[1] <= ChunkTo
<1>1. /\ t \in Token
      /\ skip[t].block = cursor[t]
      /\ cursor[t] \in Int
      /\ r[1] \in Block /\ r[1] \in Nat
      /\ from \in Nat /\ latest \in Nat /\ ChunkTo \in Int
      /\ Len(chain) \in Nat
  BY ChainAssumption, TransferAssumption
     DEF IInv, TypeOK, ChainTypeOK, SkipMatches, ChunkTo, Row, Block, BlockNumber, NoBlock
<1>2. r[1] > cursor[t] /\ r[1] >= from => BlockTime[r[1]] > skip[t].time
  BY <1>1 DEF IInv, SkipMatches
<1>3. BlockTime[r[1]] \in Nat /\ skip[t].time \in Nat
  BY <1>1, TransferAssumption DEF IInv, TypeOK
<1>4. r \in Logs(t, pc, ReadFrom(t), ChunkTo, Len(chain)) <=>
         /\ ReadFrom(t) <= r[1] /\ r[1] <= ChunkTo
         /\ r[1] <= Len(chain)
         /\ r[2] \in chain[r[1]]
         /\ r[2].token = t
         /\ r[2].kind = pc
  <2>1. ReadFrom(t) \in Int
    BY <1>1 DEF ReadFrom
  <2> QED BY <1>1, <2>1 DEF Logs, Row
<1>5. ~AlreadySynchronized(t) =>
        (ReadFrom(t) <= r[1] /\ r[1] <= ChunkTo
         <=> r[1] > cursor[t] /\ r[1] >= from /\ r[1] <= ChunkTo)
  BY <1>1 DEF AlreadySynchronized, ReadFrom
<1>6. AlreadySynchronized(t) => ~(r[1] > cursor[t] /\ r[1] <= ChunkTo)
  BY <1>1 DEF AlreadySynchronized
<1>7. r[1] > cursor[t] /\ r[1] >= from => ~SkippedByTime(t, r)
  BY <1>2, <1>3 DEF SkippedByTime
<1> QED BY <1>4, <1>5, <1>6, <1>7 DEF NewRows, OnChain

\* The initial states satisfy the invariant.
LEMMA InitInvariant == Init => IInv
<1> SUFFICES ASSUME Init PROVE IInv
  OBVIOUS
<1>1. TypeOK
  BY InitTyped
<1>2. chain = <<>> /\ Len(chain) = 0 /\ pc = "idle"
  BY DEF Init, ChainInit
<1>3. ExactlyOnce
  BY <1>2, ChainAssumption DEF Init, ExactlyOnce, Covered, Row, Block
<1> QED BY <1>1, <1>2, <1>3
        DEF Init, ChainInit, IInv, HeadsCurrent, CursorWithinChain, SessionMatches,
            CallLocals, SkipMatches, Kinds, NoBlock

\* A pass adds the events of its kind in the current chunk.
LEMMA PassInvariant ==
    ASSUME IInv, NEW next \in Phases,
           pc \in Kinds, Rank[next] = Rank[pc] + 1, next # "update_block",
           SyncEvents(pc, next)
    PROVE  IInv'
<1>1. TypeOK'
  BY PassTyped DEF IInv
<1>2. PICK server \in [targets -> Node] :
         sess' = [r \in Row |->
                     IF \E t \in targets : r \in NewRows(t, pc, head[server[t]])
                     THEN sess[r] + 1 ELSE sess[r]]
  BY DEF SyncEvents
<1>3. /\ pc' = next
      /\ UNCHANGED <<chain, head, listed, rows, cursor, targets, skip, latest, from>>
  BY DEF SyncEvents, chainVars, indexVars
<1>4. \A t \in targets : head[server[t]] = Len(chain)
  BY <1>2 DEF IInv, HeadsCurrent
<1>5. next # "idle" /\ pc # "idle" /\ pc # "update_block"
  BY DEF Rank, Phases, Kinds
<1>6. SessionMatches'
  <2>1. SUFFICES ASSUME NEW r \in Row
                 PROVE  sess'[r] = IF InSession(r)' THEN 1 ELSE 0
    BY <1>3, <1>5 DEF SessionMatches
  <2>2. sess[r] = IF InSession(r) THEN 1 ELSE 0
    BY <1>5 DEF IInv, SessionMatches
  <2>3. /\ r[1] \in Nat /\ r[2].token \in Token
        /\ cursor[r[2].token] \in Int
        /\ from \in Nat /\ latest \in Nat /\ ChunkTo \in Int
        /\ from - 1 <= ChunkTo
    BY <1>5, ChainAssumption, TransferAssumption
       DEF IInv, TypeOK, CallLocals, ChunkTo, Row, Block, BlockNumber, NoBlock
  <2>4. ChunkTo' = ChunkTo /\ OnChain(r)' = OnChain(r)
    BY <1>3 DEF ChunkTo, OnChain
  <2>5. (\E t \in targets : r \in NewRows(t, pc, head[server[t]])) <=>
          /\ r[2].token \in targets
          /\ OnChain(r)
          /\ r[2].kind = pc
          /\ r[1] > cursor[r[2].token]
          /\ r[1] >= from
          /\ r[1] <= ChunkTo
    BY <1>4, PassReadsTheRest
  <2>6. OnChain(r) => r[2].kind \in Kinds
    BY DEF OnChain, Indexable
  <2>7. OnChain(r) /\ r[2].kind = pc =>
          DoneTo(r[2].kind) = from - 1 /\ DoneTo(r[2].kind)' = ChunkTo
    BY <1>3, <2>4 DEF DoneTo, Rank, Phases, Kinds
  <2>8. OnChain(r) /\ r[2].kind # pc => DoneTo(r[2].kind)' = DoneTo(r[2].kind)
    BY <1>3, <2>4, <2>6 DEF DoneTo, Rank, Phases, Kinds
  <2>9. sess'[r] = IF \E t \in targets : r \in NewRows(t, pc, head[server[t]])
                   THEN sess[r] + 1 ELSE sess[r]
    BY <1>2
  <2>10. CASE OnChain(r) /\ r[2].kind = pc
    <3>1. InSession(r) <=> r[1] <= cursor[r[2].token]
                           \/ (r[2].token \in targets /\ r[1] <= from - 1)
      BY <2>7, <2>10 DEF InSession
    <3>2. InSession(r)' <=> r[1] <= cursor[r[2].token]
                            \/ (r[2].token \in targets /\ r[1] <= ChunkTo)
      BY <1>3, <2>4, <2>7, <2>10 DEF InSession
    <3> QED BY <2>2, <2>3, <2>5, <2>9, <2>10, <3>1, <3>2
  <2>11. CASE ~(OnChain(r) /\ r[2].kind = pc)
    <3>1. InSession(r)' <=> InSession(r)
      BY <1>3, <2>4, <2>8, <2>11 DEF InSession
    <3> QED BY <2>2, <2>5, <2>9, <2>11, <3>1
  <2> QED BY <2>10, <2>11
<1>7. CallLocals'
  BY <1>3, <1>5 DEF IInv, CallLocals
<1>8. SkipMatches'
  BY <1>3 DEF IInv, SkipMatches
<1>9. ExactlyOnce' /\ HeadsCurrent' /\ CursorWithinChain'
  BY <1>3 DEF IInv, ExactlyOnce, Covered, HeadsCurrent, CursorWithinChain
<1> QED BY <1>1, <1>6, <1>7, <1>8, <1>9 DEF IInv

\* The target list, the skip values and the first chunk agree with the tables.
LEMMA GetTokenListInvariant == IInv /\ GetTokenList => IInv'
<1> SUFFICES ASSUME IInv, GetTokenList PROVE IInv'
  OBVIOUS
<1> USE ChainAssumption, TransferAssumption
<1>1. TypeOK'
  BY TypeInvariant DEF IInv, Next, SyncNewLogs
<1>2. /\ pc = "idle" /\ pc' = "Transfer" /\ from' = 0
      /\ latest' = Len(chain)
      /\ UNCHANGED <<chain, head, listed, rows, cursor, sess>>
  BY DEF GetTokenList, IInv, HeadsCurrent, chainVars, indexVars
<1>3. \A t \in targets' : /\ t \in Token
                          /\ skip'[t].time = LatestCreated(t, sess)
                          /\ skip'[t].block = cursor[t]
  BY <1>1 DEF GetTokenList, TypeOK, LatestSynchronized
<1>4. \A r \in Row : sess[r] = IF Covered(r) THEN 1 ELSE 0
  BY <1>2 DEF IInv, SessionMatches, ExactlyOnce
<1>5. SessionMatches'
  <2>1. SUFFICES ASSUME NEW r \in Row
                 PROVE  sess'[r] = IF InSession(r)' THEN 1 ELSE 0
    BY <1>2 DEF SessionMatches
  <2>2. OnChain(r) => r[1] \in Nat /\ r[1] > 0 /\ r[2].kind \in Kinds
    BY DEF OnChain, Indexable, Row, Block
  <2>3. OnChain(r) => DoneTo(r[2].kind)' = -1
    BY <1>2, <2>2 DEF DoneTo, Rank, Phases, Kinds
  <2>4. OnChain(r)' = OnChain(r)
    BY <1>2 DEF OnChain
  <2>5. InSession(r)' <=> OnChain(r) /\ r[1] <= cursor[r[2].token]
    BY <1>2, <2>2, <2>3, <2>4 DEF InSession
  <2>6. Covered(r) <=> OnChain(r) /\ r[1] <= cursor[r[2].token]
    BY DEF Covered, OnChain
  <2> QED BY <1>2, <1>4, <2>5, <2>6
<1>6. CallLocals'
  <2>1. \A t \in targets' : cursor[t] <= Len(chain)
    BY <1>3 DEF IInv, CursorWithinChain
  <2>2. Len(chain) \in Nat
    BY DEF IInv, TypeOK, ChainTypeOK
  <2> QED BY <1>2, <2>1, <2>2 DEF CallLocals
<1>7. SkipMatches'
  <2>1. SUFFICES ASSUME NEW t \in targets', NEW b \in Block, b > cursor[t]
                 PROVE  BlockTime[b] > skip'[t].time
    BY <1>2, <1>3 DEF SkipMatches
  <2>2. \A r \in Row : sess[r] > 0 /\ r[2].token = t => r[1] < b
    <3> TAKE r \in Row
    <3> HAVE sess[r] > 0 /\ r[2].token = t
    <3>1. r[1] <= cursor[t]
      BY <1>4 DEF Covered
    <3>2. r[1] \in Int /\ b \in Int /\ cursor[t] \in Int
      BY <1>3 DEF Row, Block, IInv, TypeOK, BlockNumber, NoBlock
    <3> QED BY <2>1, <3>1, <3>2
  <2>3. BlockTime[b] > LatestCreated(t, sess)
    BY <1>3, <2>2, SkipAhead DEF IInv
  <2> QED BY <1>3, <2>3
<1>8. ExactlyOnce' /\ HeadsCurrent' /\ CursorWithinChain'
  BY <1>2 DEF IInv, ExactlyOnce, Covered, HeadsCurrent, CursorWithinChain
<1> QED BY <1>1, <1>5, <1>6, <1>7, <1>8 DEF IInv

\* The skip values are read again for the next chunk.
LEMMA UpdateSkipInvariant == IInv /\ UpdateSkipBlock => IInv'
<1> SUFFICES ASSUME IInv, UpdateSkipBlock PROVE IInv'
  OBVIOUS
<1> USE ChainAssumption, TransferAssumption
<1>1. TypeOK'
  BY TypeInvariant DEF IInv, Next, SyncNewLogs
<1>2. /\ pc = "update_skip"
      /\ UNCHANGED <<chain, head, listed, rows, cursor, sess, targets, latest>>
      /\ \A t \in targets : /\ t \in Token
                           /\ skip'[t].time = LatestCreated(t, sess)
                           /\ skip'[t].block = cursor[t]
  BY DEF UpdateSkipBlock, chainVars, indexVars, IInv, TypeOK, LatestSynchronized
<1>3. /\ from \in Nat /\ latest \in Nat /\ ChunkTo \in Int /\ ChunkSize \in Nat \ {0}
      /\ Len(chain) \in Nat
  BY <1>2 DEF IInv, TypeOK, ChainTypeOK, BlockNumber, ChunkTo
<1>4. \/ /\ from + ChunkSize - 1 < latest
         /\ from' = from + ChunkSize
         /\ pc' = "Transfer"
      \/ /\ ~(from + ChunkSize - 1 < latest)
         /\ from' = from
         /\ pc' = "update_block"
  BY DEF UpdateSkipBlock
<1>5. \A r \in Row : OnChain(r) =>
         /\ r[2].kind \in Kinds
         /\ DoneTo(r[2].kind) = ChunkTo
         /\ DoneTo(r[2].kind)' = ChunkTo
  <2> TAKE r \in Row
  <2> HAVE OnChain(r)
  <2>1. r[2].kind \in Kinds
    BY DEF OnChain, Indexable
  <2>2. DoneTo(r[2].kind) = ChunkTo
    BY <1>2, <2>1 DEF DoneTo, Rank, Phases, Kinds
  <2>3. DoneTo(r[2].kind)' = ChunkTo
    <3>1. CASE pc' = "Transfer" /\ from' = from + ChunkSize
                 /\ from + ChunkSize - 1 < latest
      <4>1. ChunkTo = from + ChunkSize - 1
        BY <3>1 DEF ChunkTo
      <4>2. DoneTo(r[2].kind)' = from + ChunkSize - 1
        BY <2>1, <3>1, <1>3 DEF DoneTo, Rank, Phases, Kinds
      <4> QED BY <4>1, <4>2
    <3>2. CASE pc' = "update_block" /\ from' = from
      <4>1. ChunkTo' = ChunkTo
        BY <1>2, <3>2 DEF ChunkTo
      <4>2. DoneTo(r[2].kind)' = ChunkTo'
        BY <2>1, <3>2 DEF DoneTo, Rank, Phases, Kinds
      <4> QED BY <4>1, <4>2
    <3> QED BY <1>4, <3>1, <3>2
  <2> QED BY <2>1, <2>2, <2>3
<1>6. SessionMatches'
  <2>1. SUFFICES ASSUME NEW r \in Row
                 PROVE  sess'[r] = IF InSession(r)' THEN 1 ELSE 0
    BY <1>4 DEF SessionMatches
  <2>2. OnChain(r)' = OnChain(r)
    BY <1>2 DEF OnChain
  <2>3. InSession(r)' <=> InSession(r)
    BY <1>2, <1>5, <2>2 DEF InSession
  <2> QED BY <1>2, <2>3 DEF IInv, SessionMatches
<1>7. CallLocals'
  BY <1>2, <1>3, <1>4 DEF IInv, CallLocals
<1>8. SkipMatches'
  <2>1. SUFFICES ASSUME pc' = "Transfer", NEW t \in targets, NEW b \in Block,
                        b > cursor[t], b >= from'
                 PROVE  BlockTime[b] > skip'[t].time
    BY <1>2, <1>4 DEF SkipMatches, Kinds
  <2>2. from' = from + ChunkSize /\ ChunkTo = from + ChunkSize - 1
    BY <1>4, <2>1 DEF ChunkTo
  <2>3. \A r \in Row : sess[r] > 0 /\ r[2].token = t => r[1] < b
    <3> TAKE r \in Row
    <3> HAVE sess[r] > 0 /\ r[2].token = t
    <3>1. InSession(r)
      BY <1>2 DEF IInv, SessionMatches
    <3>2. r[1] <= cursor[t] \/ r[1] <= ChunkTo
      BY <1>5, <3>1 DEF InSession
    <3>3. r[1] \in Int /\ b \in Int /\ cursor[t] \in Int
      BY <1>2 DEF Row, Block, IInv, TypeOK, BlockNumber, NoBlock
    <3> QED BY <1>3, <2>1, <2>2, <3>2, <3>3
  <2>4. BlockTime[b] > LatestCreated(t, sess)
    BY <1>2, <2>3, SkipAhead DEF IInv
  <2> QED BY <1>2, <2>4
<1>9. ExactlyOnce' /\ HeadsCurrent' /\ CursorWithinChain'
  BY <1>2 DEF IInv, ExactlyOnce, Covered, HeadsCurrent, CursorWithinChain
<1> QED BY <1>1, <1>6, <1>7, <1>8, <1>9 DEF IInv

\* The commit moves the block numbers exactly as far as the passes have read.
LEMMA CommitInvariant == IInv /\ UpdateIdxLatestBlock => IInv'
<1> SUFFICES ASSUME IInv, UpdateIdxLatestBlock PROVE IInv'
  OBVIOUS
<1> USE ChainAssumption, TransferAssumption
<1>1. TypeOK'
  BY TypeInvariant DEF IInv, Next, SyncNewLogs
<1>2. /\ pc = "update_block" /\ pc' = "idle"
      /\ rows' = sess /\ sess' = sess
      /\ cursor' = [t \in Token |-> IF t \in targets THEN latest ELSE cursor[t]]
      /\ UNCHANGED <<chain, head, listed>>
  BY DEF UpdateIdxLatestBlock, EndOfCall, chainVars
<1>3. /\ from \in Nat /\ latest \in Nat /\ ChunkSize \in Nat \ {0}
      /\ latest <= Len(chain) /\ latest <= from + ChunkSize - 1
  BY <1>2 DEF IInv, TypeOK, BlockNumber, CallLocals
<1>4. ChunkTo = latest
  BY <1>3 DEF ChunkTo
<1>5. ExactlyOnce'
  <2>1. SUFFICES ASSUME NEW r \in Row
                 PROVE  rows'[r] = IF Covered(r)' THEN 1 ELSE 0
    BY DEF ExactlyOnce
  <2>2. sess[r] = IF InSession(r) THEN 1 ELSE 0
    BY <1>2 DEF IInv, SessionMatches
  <2>3. /\ r[1] \in Nat /\ r[2].token \in Token /\ cursor[r[2].token] \in Int
        /\ r[2].token \in targets => cursor[r[2].token] <= latest
    BY <1>2 DEF IInv, TypeOK, Row, Block, BlockNumber, NoBlock, CallLocals
  <2>4. OnChain(r) => DoneTo(r[2].kind) = latest
    BY <1>2, <1>4 DEF OnChain, Indexable, DoneTo, Rank, Phases, Kinds
  <2>5. Covered(r)' <=> OnChain(r) /\ r[1] <= cursor'[r[2].token]
    BY <1>2 DEF Covered, OnChain
  <2>6. InSession(r) <=> OnChain(r) /\ r[1] <= cursor'[r[2].token]
    BY <1>2, <1>3, <2>3, <2>4 DEF InSession
  <2> QED BY <1>2, <2>2, <2>5, <2>6
<1>6. CursorWithinChain'
  BY <1>2, <1>3 DEF IInv, CursorWithinChain
<1>7. HeadsCurrent' /\ SessionMatches' /\ CallLocals' /\ SkipMatches'
  BY <1>2 DEF IInv, HeadsCurrent, SessionMatches, CallLocals, SkipMatches, Kinds
<1> QED BY <1>1, <1>5, <1>6, <1>7 DEF IInv

\* Losing the session leaves the committed tables as they were.
LEMMA AbortInvariant == IInv /\ (Rollback \/ Restart) => IInv'
<1> SUFFICES ASSUME IInv, Rollback \/ Restart PROVE IInv'
  OBVIOUS
<1>1. TypeOK'
  BY TypeInvariant DEF IInv, Next
<1>2. /\ pc' = "idle" /\ sess' = rows
      /\ UNCHANGED <<chain, head, listed, rows, cursor>>
  BY DEF Rollback, Restart, EndOfCall, chainVars, indexVars
<1>3. /\ ExactlyOnce' /\ HeadsCurrent' /\ CursorWithinChain'
      /\ SessionMatches' /\ CallLocals' /\ SkipMatches'
  BY <1>2 DEF IInv, ExactlyOnce, Covered, HeadsCurrent, CursorWithinChain,
              SessionMatches, CallLocals, SkipMatches, Kinds
<1> QED BY <1>1, <1>3 DEF IInv

\* A new block is beyond everything that has been read.
LEMMA EnvironmentInvariant ==
    ASSUME NEW n, Node = {n}, IInv, Environment
    PROVE  IInv'
<1> USE ChainAssumption, TransferAssumption
<1>1. TypeOK'
  BY TypeInvariant DEF IInv, Next
<1>2. /\ UNCHANGED <<rows, cursor, sess, typeCache, targets, skip, latest, from, pc>>
      /\ ChunkTo' = ChunkTo
      /\ \A k : DoneTo(k)' = DoneTo(k)
  BY DEF Environment, indexVars, syncVars, ChunkTo, DoneTo
<1>3. CASE UNCHANGED <<chain, head>>
  <2>1. \A r : OnChain(r)' = OnChain(r)
    BY <1>3 DEF OnChain
  <2>2. \A r : InSession(r)' = InSession(r)
    BY <1>2, <2>1 DEF InSession
  <2>3. SessionMatches'
    BY <1>2, <2>2 DEF IInv, SessionMatches
  <2> QED BY <1>1, <1>2, <1>3, <2>3
          DEF IInv, ExactlyOnce, Covered, HeadsCurrent, CursorWithinChain, CallLocals,
              SkipMatches
<1>4. CASE Mine
  <2>1. PICK block \in Contents, S \in (SUBSET Node) \ {{}} :
           /\ chain' = Append(chain, block)
           /\ head' = [m \in Node |-> IF m \in S THEN Len(chain) + 1 ELSE head[m]]
    BY <1>4 DEF Mine
  <2>2. /\ Len(chain) \in Nat
        /\ Len(chain') = Len(chain) + 1
        /\ \A b \in Nat \ {0} : b <= Len(chain) => chain'[b] = chain[b]
    BY <2>1 DEF IInv, TypeOK, ChainTypeOK
  <2>3. HeadsCurrent'
    BY <2>1, <2>2 DEF HeadsCurrent
  <2>4. CursorWithinChain'
    <3>1. ASSUME NEW t \in Token PROVE cursor'[t] <= Len(chain')
      <4>1. cursor[t] \in Int /\ cursor[t] <= Len(chain)
        BY DEF IInv, CursorWithinChain, TypeOK, BlockNumber, NoBlock
      <4>2. cursor'[t] = cursor[t]
        BY <1>2
      <4> QED BY <2>2, <4>1, <4>2
    <3> QED BY <3>1 DEF CursorWithinChain
  <2>5. ASSUME NEW r \in Row, r[1] <= Len(chain)
        PROVE  OnChain(r)' <=> OnChain(r)
    BY <2>2, <2>5 DEF OnChain, Row, Block
  <2>6. \A r \in Row : r[1] \in Nat /\ r[2].token \in Token /\ cursor[r[2].token] \in Int
    BY DEF Row, Block, IInv, TypeOK, BlockNumber, NoBlock
  <2>7. ExactlyOnce'
    <3>1. SUFFICES ASSUME NEW r \in Row PROVE Covered(r)' <=> Covered(r)
      BY <1>2 DEF IInv, ExactlyOnce
    <3>2. \A s : Covered(s) <=> OnChain(s) /\ s[1] <= cursor[s[2].token]
      BY DEF Covered, OnChain
    <3>3. Covered(r)' <=> OnChain(r)' /\ r[1] <= cursor[r[2].token]
      BY <1>2 DEF Covered, OnChain
    <3>4. r[1] <= cursor[r[2].token] => r[1] <= Len(chain)
      BY <2>2, <2>6 DEF IInv, CursorWithinChain
    <3> QED BY <2>5, <3>2, <3>3, <3>4
  <2>8. SessionMatches'
    <3>1. CASE pc = "idle"
      BY <1>2, <3>1 DEF IInv, SessionMatches
    <3>2. CASE pc # "idle"
      <4>1. SUFFICES ASSUME NEW r \in Row PROVE InSession(r)' <=> InSession(r)
        BY <1>2, <3>2 DEF IInv, SessionMatches
      <4>2. /\ from \in Nat /\ latest \in Nat /\ latest <= Len(chain) /\ from <= latest
            /\ ChunkTo \in Int /\ ChunkTo <= latest
        BY <3>2 DEF IInv, TypeOK, BlockNumber, CallLocals, ChunkTo
      <4>3. DoneTo(r[2].kind) \in Int /\ DoneTo(r[2].kind) <= Len(chain)
        BY <2>2, <4>2 DEF DoneTo
      <4>4. r[1] <= cursor[r[2].token] \/ r[1] <= DoneTo(r[2].kind) => r[1] <= Len(chain)
        BY <2>2, <2>6, <4>3 DEF IInv, CursorWithinChain
      <4>5. InSession(r)' <=> /\ OnChain(r)'
                              /\ \/ r[1] <= cursor[r[2].token]
                                 \/ r[2].token \in targets /\ r[1] <= DoneTo(r[2].kind)
        BY <1>2 DEF InSession
      <4> QED BY <2>5, <4>4, <4>5 DEF InSession
    <3> QED BY <3>1, <3>2
  <2>9. CallLocals'
    BY <1>2, <2>2 DEF IInv, CallLocals, TypeOK, BlockNumber
  <2>10. SkipMatches'
    BY <1>2 DEF IInv, SkipMatches
  <2> QED BY <1>1, <2>3, <2>4, <2>7, <2>8, <2>9, <2>10 DEF IInv
<1>5. CASE CatchUp
  BY <1>5 DEF CatchUp, IInv, HeadsCurrent, TypeOK, ChainTypeOK
<1> QED BY <1>3, <1>4, <1>5
        DEF Environment, ChainNext, RegisterAdminToken, DeleteToken

\* IInv is inductive when one node answers all requests.
LEMMA Invariance ==
    ASSUME NEW n, Node = {n}
    PROVE  IInv /\ [Next]_vars => IInv'
<1> SUFFICES ASSUME IInv, [Next]_vars PROVE IInv'
  OBVIOUS
<1>1. CASE GetTokenList
  BY <1>1, GetTokenListInvariant
<1>2. CASE SyncTransfer
  <2>1. pc = "Transfer"
    BY <1>2 DEF SyncTransfer, SyncEvents
  <2> QED BY <1>2, <2>1, PassInvariant DEF SyncTransfer, Rank, Phases, Kinds
<1>3. CASE SyncUnlock
  <2>1. pc = "Unlock"
    BY <1>3 DEF SyncUnlock, SyncEvents
  <2> QED BY <1>3, <2>1, PassInvariant DEF SyncUnlock, Rank, Phases, Kinds
<1>4. CASE SyncForceUnlock
  <2>1. pc = "ForceUnlock"
    BY <1>4 DEF SyncForceUnlock, SyncEvents
  <2> QED BY <1>4, <2>1, PassInvariant DEF SyncForceUnlock, Rank, Phases, Kinds
<1>5. CASE SyncForceChangeLockedAccount
  <2>1. pc = "ForceChangeLockedAccount"
    BY <1>5 DEF SyncForceChangeLockedAccount, SyncEvents
  <2> QED BY <1>5, <2>1, PassInvariant
          DEF SyncForceChangeLockedAccount, Rank, Phases, Kinds
<1>6. CASE UpdateSkipBlock
  BY <1>6, UpdateSkipInvariant
<1>7. CASE UpdateIdxLatestBlock
  BY <1>7, CommitInvariant
<1>8. CASE Rollback \/ Restart
  BY <1>8, AbortInvariant
<1>9. CASE Environment
  BY <1>9, EnvironmentInvariant
<1>10. CASE UNCHANGED vars
  <2>1. UNCHANGED <<chain, head, listed, rows, cursor, sess, typeCache, targets, skip,
                    latest, from, pc, failures>>
    BY <1>10 DEF vars, chainVars, indexVars, syncVars
  <2>2. TypeOK'
    BY <1>10, TypeInvariant DEF IInv
  <2>3. SessionMatches'
    BY <2>1 DEF IInv, SessionMatches, InSession, OnChain, DoneTo, ChunkTo
  <2> QED BY <2>1, <2>2, <2>3
          DEF IInv, ExactlyOnce, Covered, HeadsCurrent, CursorWithinChain, CallLocals,
              SkipMatches
<1> QED BY <1>1, <1>2, <1>3, <1>4, <1>5, <1>6, <1>7, <1>8, <1>9, <1>10
        DEF Next, SyncNewLogs

\* With one node the committed table of transfers holds exactly one row for every
\* indexable event up to each token's block number, for every chunk size, every
\* set of tokens and events, and any number of failures.
THEOREM ExactlyOnceWithOneNode ==
    ASSUME NEW n, Node = {n}
    PROVE  Spec => []ExactlyOnce
<1>1. Init => IInv
  BY InitInvariant
<1>2. IInv /\ [Next]_vars => IInv'
  BY Invariance
<1>3. IInv => ExactlyOnce
  BY DEF IInv
<1> QED BY <1>1, <1>2, <1>3, PTL DEF Spec

\* With one node the block number of a token never moves backwards: the commit
\* stores the head of the chain, which no block number exceeds.
THEOREM CursorMonotone ==
    ASSUME NEW n, Node = {n}
    PROVE  Spec => CursorNeverRegresses
<1>1. Init => IInv
  BY InitInvariant
<1>2. IInv /\ [Next]_vars => IInv'
  BY Invariance
<1>3. IInv /\ [Next]_vars => [\A t \in Token : cursor'[t] >= cursor[t]]_vars
  <2> SUFFICES ASSUME IInv, Next, NEW t \in Token PROVE cursor'[t] >= cursor[t]
    BY DEF vars
  <2>1. cursor[t] \in Int
    BY DEF IInv, TypeOK, BlockNumber, NoBlock
  <2>2. CASE UpdateIdxLatestBlock
    <3>1. t \in targets => cursor[t] <= latest
      BY <2>2 DEF UpdateIdxLatestBlock, IInv, CallLocals
    <3>2. latest \in Int
      BY DEF IInv, TypeOK, BlockNumber
    <3> QED BY <2>1, <2>2, <3>1, <3>2 DEF UpdateIdxLatestBlock
  <2>3. CASE ~UpdateIdxLatestBlock
    <3>1. cursor' = cursor
      BY <2>3 DEF Next, SyncNewLogs, GetTokenList, SyncTransfer, SyncUnlock,
                  SyncForceUnlock, SyncForceChangeLockedAccount, SyncEvents,
                  UpdateSkipBlock, Rollback, Restart, Environment, indexVars
    <3> QED BY <2>1, <3>1
  <2> QED BY <2>2, <2>3
<1> QED BY <1>1, <1>2, <1>3, PTL DEF Spec, CursorNeverRegresses

\* The commit is the step of the abstract index that reads the target tokens up
\* to latest_block.
LEMMA CommitAdvances == IInv /\ UpdateIdxLatestBlock => Index!Advance
<1> SUFFICES ASSUME IInv, UpdateIdxLatestBlock PROVE Index!Advance
  OBVIOUS
<1> USE ChainAssumption, TransferAssumption
<1>1. IInv'
  BY CommitInvariant
<1>2. /\ pc = "update_block" /\ chain' = chain
      /\ cursor' = [t \in Token |-> IF t \in targets THEN latest ELSE cursor[t]]
      /\ rows' \in [Row -> Nat]
  BY <1>1 DEF UpdateIdxLatestBlock, chainVars, IInv, TypeOK
<1>3. /\ latest \in 0..Len(chain) /\ targets \subseteq Token
      /\ \A t \in targets : cursor[t] <= latest
  BY <1>2 DEF IInv, TypeOK, ChainTypeOK, BlockNumber, CallLocals
<1>4. Row = (1..MaxBlock) \X Event
  BY DEF Row, Block
<1>5. ASSUME NEW r \in Row
      PROVE  rows'[r] = IF r \in Index!Unread(targets, latest) THEN rows[r] + 1 ELSE rows[r]
  <2>1. /\ r[1] \in Nat /\ r[2].token \in Token /\ cursor[r[2].token] \in Int
        /\ Len(chain) \in Nat
    BY DEF Row, Block, IInv, TypeOK, ChainTypeOK, BlockNumber, NoBlock
  <2>2. rows[r] = IF OnChain(r) /\ r[1] <= cursor[r[2].token] THEN 1 ELSE 0
    BY DEF IInv, ExactlyOnce, Covered, OnChain
  <2>3. rows'[r] = IF OnChain(r) /\ r[1] <= cursor'[r[2].token] THEN 1 ELSE 0
    BY <1>1, <1>2 DEF IInv, ExactlyOnce, Covered, OnChain
  <2>4. r \in Index!Unread(targets, latest) <=>
          /\ OnChain(r)
          /\ r[2].token \in targets
          /\ r[1] <= latest
          /\ r[1] > cursor[r[2].token]
    BY <1>3, <1>4, <2>1 DEF Index!Unread, OnChain
  <2> QED BY <1>2, <1>3, <2>1, <2>2, <2>3, <2>4
<1>6. rows' = [r \in (1..MaxBlock) \X Event |->
                 IF r \in Index!Unread(targets, latest) THEN rows[r] + 1 ELSE rows[r]]
  BY <1>2, <1>4, <1>5
<1> QED BY <1>2, <1>3, <1>6 DEF Index!Advance

\* With one node the indexer implements the abstract event index.
THEOREM Refinement ==
    ASSUME NEW n, Node = {n}
    PROVE  Spec => ImplementsEventIndex
<1>1. Init => IInv
  BY InitInvariant
<1>2. IInv /\ [Next]_vars => IInv'
  BY Invariance
<1>3. Init => Index!Init
  BY DEF Init, ChainInit, Index!Init, Row, Block, NoBlock
<1>4. IInv /\ [Next]_vars => [Index!Next]_(Index!vars)
  <2> SUFFICES ASSUME IInv, [Next]_vars
               PROVE  Index!Next \/ UNCHANGED <<chain, rows, cursor>>
    BY DEF Index!vars
  <2>1. CASE UpdateIdxLatestBlock
    BY <2>1, CommitAdvances DEF Index!Next
  <2>2. CASE Environment
    <3>1. CASE Mine
      <4>1. PICK block \in Contents : chain' = Append(chain, block)
        BY <3>1 DEF Mine
      <4>2. block \in SUBSET Event
        BY <4>1, ChainAssumption
      <4> QED BY <2>2, <4>1, <4>2 DEF Environment, indexVars, Index!Next, Index!Grow
    <3>2. CASE ~Mine
      BY <2>2, <3>2 DEF Environment, ChainNext, CatchUp, RegisterAdminToken, DeleteToken,
                        indexVars
    <3> QED BY <3>1, <3>2
  <2>3. CASE ~UpdateIdxLatestBlock /\ ~Environment
    BY <2>3 DEF Next, SyncNewLogs, GetTokenList, SyncTransfer, SyncUnlock,
                SyncForceUnlock, SyncForceChangeLockedAccount, SyncEvents,
                UpdateSkipBlock, Rollback, Restart, vars, chainVars, indexVars
  <2> QED BY <2>1, <2>2, <2>3
<1> QED BY <1>1, <1>2, <1>3, <1>4, PTL DEF Spec, ImplementsEventIndex, Index!Spec

------------------------------------------------------------------------------
(* What the indexer keeps when its requests are answered by any number of nodes, which   *)
(* may lag behind the chain and let block numbers move backwards: no row is made up, and *)
(* no Transfer event has two rows.  NoDuplicateTransfer is inductive with SkipCurrent:   *)
(* when the Transfer pass begins, skip_timestamp is the newest time among the rows of    *)
(* the session, so an event that has a row is not newer than it.                         *)

Sound(count) == \A r \in Row : count[r] > 0 => OnChain(r)
OneTransfer(count) == \A r \in Row : r[2].kind = "Transfer" => count[r] <= 1

SkipCurrent ==
    pc = "Transfer" => \A t \in targets : skip[t].time = LatestCreated(t, sess)

\* The inductive invariant with nodes that lag.
NodesInv ==
    /\ TypeOK
    /\ Sound(rows) /\ Sound(sess)
    /\ OneTransfer(rows) /\ OneTransfer(sess)
    /\ SkipCurrent

\* The chain only grows, so what is on it stays.
LEMMA StaysOnChain ==
    ASSUME TypeOK, [Next]_vars, NEW r \in Row, OnChain(r)
    PROVE  OnChain(r)'
<1>1. CASE Environment /\ Mine
  <2>1. PICK block \in Contents : chain' = Append(chain, block)
    BY <1>1 DEF Mine
  <2>2. block \in SUBSET Event /\ chain \in Seq(SUBSET Event) /\ r[1] \in Nat \ {0}
    BY ChainAssumption DEF TypeOK, ChainTypeOK, Row, Block
  <2>3. Len(chain') = Len(chain) + 1 /\ chain'[r[1]] = chain[r[1]]
    BY <2>1, <2>2 DEF OnChain
  <2>4. Len(chain) \in Nat
    BY <2>2
  <2> QED BY <2>2, <2>3, <2>4 DEF OnChain
<1>2. CASE ~(Environment /\ Mine)
  <2>1. UNCHANGED chain
    BY <1>2 DEF Next, Environment, ChainNext, CatchUp, RegisterAdminToken, DeleteToken,
                SyncNewLogs, GetTokenList, SyncTransfer, SyncUnlock, SyncForceUnlock,
                SyncForceChangeLockedAccount, SyncEvents, UpdateSkipBlock,
                UpdateIdxLatestBlock, Rollback, Restart, vars, chainVars
  <2> QED BY <2>1 DEF OnChain
<1> QED BY <1>1, <1>2

\* An event that the Transfer pass reads has no row yet.
LEMMA ReadIsNew ==
    ASSUME NodesInv, pc = "Transfer", NEW t \in targets, NEW h,
           NEW r \in NewRows(t, "Transfer", h)
    PROVE  r \in Row /\ sess[r] = 0
<1>1. /\ r \in Row /\ r[2].token = t /\ r[2].kind = "Transfer"
      /\ BlockTime[r[1]] > skip[t].time
  <2>1. /\ r \in Row /\ r[2].token = t /\ r[2].kind = "Transfer"
        /\ ~SkippedByTime(t, r)
    BY DEF NewRows, Logs, Row
  <2>2. ~(BlockTime[r[1]] <= skip[t].time)
    BY <2>1 DEF SkippedByTime
  <2>3. BlockTime[r[1]] \in Nat /\ skip[t].time \in Nat
    BY <2>1, TransferAssumption DEF Row, NodesInv, TypeOK
  <2> QED BY <2>1, <2>2, <2>3
<1>2. t \in Token /\ sess \in [Row -> Nat]
  BY DEF NodesInv, TypeOK
<1>3. skip[t].time = LatestCreated(t, sess) /\ LatestCreated(t, sess) \in Nat
  BY <1>2, LatestCreatedIsNewest DEF NodesInv, SkipCurrent
<1>4. sess[r] > 0 => BlockTime[r[1]] <= LatestCreated(t, sess)
  BY <1>1, <1>2, LatestCreatedIsNewest
<1>5. BlockTime[r[1]] \in Nat /\ sess[r] \in Nat
  BY <1>1, <1>2, TransferAssumption DEF Row
<1> QED BY <1>1, <1>3, <1>4, <1>5

\* A pass adds events of the chain, and Transfer events only once.
LEMMA PassKeepsNodesInv ==
    ASSUME NodesInv, [Next]_vars, NEW k \in Kinds, NEW next \in Phases \ {"Transfer"},
           SyncEvents(k, next)
    PROVE  NodesInv'
<1>1. TypeOK'
  BY PassTyped DEF NodesInv
<1>2. PICK server \in [targets -> Node] :
         sess' = [r \in Row |->
                     IF \E t \in targets : r \in NewRows(t, k, head[server[t]])
                     THEN sess[r] + 1 ELSE sess[r]]
  BY DEF SyncEvents
<1>3. pc = k /\ pc' = next /\ UNCHANGED <<chain, rows>>
  BY DEF SyncEvents, chainVars, indexVars
<1>4. \A r \in Row : OnChain(r)' <=> OnChain(r)
  BY <1>3 DEF OnChain
<1>5. ASSUME NEW r \in Row, NEW t \in targets, r \in NewRows(t, k, head[server[t]])
      PROVE  OnChain(r)
  BY <1>5 DEF NewRows, Logs, OnChain
<1>6. Sound(rows)' /\ Sound(sess)'
  <2>1. \A r \in Row : sess'[r] > 0 =>
           sess[r] > 0 \/ \E t \in targets : r \in NewRows(t, k, head[server[t]])
    BY <1>2
  <2> QED BY <1>3, <1>4, <1>5, <2>1 DEF Sound, NodesInv
<1>7. OneTransfer(rows)'
  BY <1>3 DEF OneTransfer, NodesInv
<1>8. OneTransfer(sess)'
  <2> SUFFICES ASSUME NEW r \in Row, r[2].kind = "Transfer" PROVE sess'[r] <= 1
    BY DEF OneTransfer
  <2>1. sess[r] \in Nat /\ sess[r] <= 1
    BY DEF NodesInv, OneTransfer, TypeOK
  <2>2. CASE \E t \in targets : r \in NewRows(t, k, head[server[t]])
    <3>1. PICK t \in targets : r \in NewRows(t, k, head[server[t]])
      BY <2>2
    <3>2. k = "Transfer"
      BY <3>1 DEF NewRows, Logs
    <3>3. sess[r] = 0
      BY <1>3, <3>1, <3>2, ReadIsNew
    <3> QED BY <1>2, <2>2, <3>3
  <2>3. CASE ~ \E t \in targets : r \in NewRows(t, k, head[server[t]])
    BY <1>2, <2>1, <2>3
  <2> QED BY <2>2, <2>3
<1>9. SkipCurrent'
  BY <1>3 DEF SkipCurrent
<1> QED BY <1>1, <1>6, <1>7, <1>8, <1>9 DEF NodesInv

\* The skip values that are read from an unchanged session are current.
LEMMA SkipReadAnew ==
    ASSUME sess' = sess, \A t \in targets' : skip'[t] = LatestSynchronized(t, sess)
    PROVE  SkipCurrent'
<1>1. \A t \in targets' : skip'[t].time = LatestCreated(t, sess)
  <2>1. \A t : LatestSynchronized(t, sess).time = LatestCreated(t, sess)
    BY DEF LatestSynchronized
  <2> QED BY <2>1
<1>2. \A t : LatestCreated(t, sess') = LatestCreated(t, sess)
  OBVIOUS
<1>3. \A t \in targets' : skip'[t].time = LatestCreated(t, sess')
  BY <1>1, <1>2
<1> QED BY <1>3 DEF SkipCurrent, LatestCreated, CreatedTimes

\* NodesInv is inductive.
LEMMA NodesInvariant == NodesInv /\ [Next]_vars => NodesInv'
<1> SUFFICES ASSUME NodesInv, [Next]_vars PROVE NodesInv'
  OBVIOUS
<1>1. CASE SyncTransfer
  BY <1>1, PassKeepsNodesInv DEF SyncTransfer, Phases, Kinds
<1>2. CASE SyncUnlock
  BY <1>2, PassKeepsNodesInv DEF SyncUnlock, Phases, Kinds
<1>3. CASE SyncForceUnlock
  BY <1>3, PassKeepsNodesInv DEF SyncForceUnlock, Phases, Kinds
<1>4. CASE SyncForceChangeLockedAccount
  BY <1>4, PassKeepsNodesInv DEF SyncForceChangeLockedAccount, Phases, Kinds
<1>5. ASSUME rows' \in {rows, sess}, sess' \in {rows, sess}, SkipCurrent'
      PROVE  NodesInv'
  <2>1. TypeOK'
    BY TypeInvariant DEF NodesInv
  <2>2. \A r \in Row : OnChain(r) => OnChain(r)'
    BY StaysOnChain DEF NodesInv
  <2>3. Sound(rows)' /\ Sound(sess)'
    BY <1>5, <2>2 DEF NodesInv, Sound
  <2>4. OneTransfer(rows)' /\ OneTransfer(sess)'
    BY <1>5 DEF NodesInv, OneTransfer
  <2> QED BY <1>5, <2>1, <2>3, <2>4 DEF NodesInv
<1>6. CASE GetTokenList
  <2>1. UNCHANGED <<rows, sess>>
    BY <1>6 DEF GetTokenList, indexVars
  <2>2. targets' \subseteq Token
    BY <1>6 DEF GetTokenList, NodesInv, TypeOK, ChainTypeOK
  <2>3. \A t \in targets' : skip'[t] = LatestSynchronized(t, sess)
    BY <1>6, <2>2 DEF GetTokenList
  <2>4. SkipCurrent'
    BY <2>1, <2>3, SkipReadAnew
  <2> QED BY <1>5, <2>1, <2>4
<1>7. CASE UpdateSkipBlock
  <2>1. UNCHANGED <<rows, sess, targets>>
    BY <1>7 DEF UpdateSkipBlock, indexVars
  <2>2. targets \subseteq Token
    BY DEF NodesInv, TypeOK
  <2>3. \A t \in targets' : skip'[t] = LatestSynchronized(t, sess)
    BY <1>7, <2>1, <2>2 DEF UpdateSkipBlock
  <2>4. SkipCurrent'
    BY <2>1, <2>3, SkipReadAnew
  <2> QED BY <1>5, <2>1, <2>4
<1>8. CASE UpdateIdxLatestBlock \/ Rollback \/ Restart
  <2>1. pc' = "idle" /\ rows' \in {rows, sess} /\ sess' \in {rows, sess}
    BY <1>8 DEF UpdateIdxLatestBlock, Rollback, Restart, EndOfCall, indexVars
  <2> QED BY <1>5, <2>1 DEF SkipCurrent
<1>9. CASE Environment \/ UNCHANGED vars
  <2>1. UNCHANGED <<rows, sess, pc, targets, skip>>
    BY <1>9 DEF Environment, vars, indexVars, syncVars
  <2>2. SkipCurrent'
    <3>1. \A t : LatestCreated(t, sess') = LatestCreated(t, sess)
      BY <2>1
    <3>2. pc' = "Transfer" => \A t \in targets' : skip'[t].time = LatestCreated(t, sess')
      BY <2>1, <3>1 DEF NodesInv, SkipCurrent
    <3> QED BY <3>2 DEF SkipCurrent, LatestCreated, CreatedTimes
  <2> QED BY <1>5, <2>1, <2>2
<1> QED BY <1>1, <1>2, <1>3, <1>4, <1>6, <1>7, <1>8, <1>9 DEF Next, SyncNewLogs

\* The initial states have no rows.
LEMMA InitNodesInv == Init => NodesInv
<1> SUFFICES ASSUME Init PROVE NodesInv
  OBVIOUS
<1>1. TypeOK
  BY InitTyped
<1>2. \A r \in Row : rows[r] = 0 /\ sess[r] = 0
  BY DEF Init
<1>3. SkipCurrent
  BY DEF Init, SkipCurrent
<1> QED BY <1>1, <1>2, <1>3 DEF NodesInv, Sound, OneTransfer

\* Whichever nodes answer, every row stands for an event of the chain.
THEOREM NothingMadeUp == Spec => []NoPhantomRow
<1>1. NodesInv => NoPhantomRow
  BY DEF NodesInv, Sound, NoPhantomRow, OnChain
<1> QED BY <1>1, InitNodesInv, NodesInvariant, PTL DEF Spec

\* Whichever nodes answer, and however far back they make the block number go, a
\* Transfer event has one row at most.
THEOREM TransferOnce == Spec => []NoDuplicateTransfer
<1>1. NodesInv => NoDuplicateTransfer
  BY DEF NodesInv, OneTransfer, NoDuplicateTransfer
<1> QED BY <1>1, InitNodesInv, NodesInvariant, PTL DEF Spec
==============================================================================
