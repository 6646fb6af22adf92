-------------------- MODULE TransferApprovalIndexer_proofs --------------------
(***************************************************************************)
(* Proofs about TransferApprovalIndexer.                                   *)
(*                                                                         *)
(* Rows are sound whichever nodes answer.  That no event is missing needs  *)
(* a single node, for a node that lags withholds events of blocks that are *)
(* then taken for read; for the events of exchanges it needs a single      *)
(* token too.  The invariant says what a sync has read: for each target    *)
(* all blocks below its cursor, and up to the end of the chunk the kinds   *)
(* of event whose pass is over.                                            *)
(***************************************************************************)
EXTENDS TransferApprovalIndexer, TLAPS, WellFoundedInduction

Sound(state) ==
    \A k \in Key : \A f \in state[k] :
        /\ "ApplyForTransfer" \in state[k]
        /\ \E b \in Block, e \in Event : Happened(e, b) /\ KeyOf(e) = k /\ e.kind = f

\* The inductive invariant of the rows.
SoundInv == TypeOK /\ Sound(approvals) /\ Sound(sess)

------------------------------------------------------------------------------
(* What has been read, with one node.                                        *)

OneNode == \A m, n \in Node : m = n
OneToken == \A s, t \in Token : s = t

HeadsCurrent == \A n \in Node : head[n] = Len(chain)

\* The pass that reads a kind of event, of a token or of an exchange.
PassOf(x) ==
    IF x = NoExchange
    THEN [ApplyForTransfer |-> 1, CancelTransfer |-> 2, ApproveTransfer |-> 3]
    ELSE [ApplyForTransfer |-> 4, CancelTransfer |-> 5, EscrowFinished |-> 6,
          ApproveTransfer |-> 7]

CursorOf(t, x) == IF x = NoExchange THEN tokenCursor[t] ELSE exchangeCursor[x]

\* The events of block b to record, of token t and made on the token or on an exchange x.
EventsOf(t, x, b) ==
    {e \in Event : e.token = t /\ e.exchange = x /\ Recordable(e) /\ Happened(e, b)}

\* The committed rows are complete up to block n.
Complete(t, x, n) ==
    \A b \in Block : \A e \in EventsOf(t, x, b) : b <= n => e.kind \in approvals[KeyOf(e)]

\* The session has what is below the cursor and, in the chunk, of the passes that are over.
ReadUpTo(t, x) ==
    \A b \in Block : \A e \in EventsOf(t, x, b) :
        b < CursorOf(t, x) \/ (b <= blockTo /\ PassOf(x)[e.kind] < pc)
            => e.kind \in sess[KeyOf(e)]

\* Between two syncs the session is the tables; during one, flags are only added.
SessionAhead ==
    /\ pc = 0 => sess = approvals
    /\ \A k \in Key : approvals[k] \subseteq sess[k]

\* The targets of a sync, and the blocks that are taken for read, which the chain has.
SyncTargets ==
    /\ \A p \in Token \X Venue : syncedNumber[p] <= Len(chain)
    /\ pc # 0 =>
          /\ blockTo <= latest /\ latest <= Len(chain)
          /\ exchanges = {exchangeCache[t] : t \in tokens} \ {NoExchange}
          /\ \A t \in tokens : tokenCursor[t] <= Len(chain) + 1
          /\ \A x \in exchanges : exchangeCursor[x] <= Len(chain) + 1

\* The events made on the venues X are complete.
Read(X) ==
    /\ \A t \in Token, y \in Venue, x \in X :
           x \in {NoExchange, y} => Complete(t, x, syncedNumber[<<t, y>>])
    /\ pc # 0 => \A t \in tokens, x \in X : x \in exchanges \union {NoExchange} => ReadUpTo(t, x)

ReadInv(X) == HeadsCurrent /\ SessionAhead /\ SyncTargets /\ Read(X)

------------------------------------------------------------------------------
(* Type correctness.                                                         *)

\* What is assumed of the constants, as ApprovalAssumption is a definition only.
Assumptions == ChainAssumption /\ ApprovalAssumption

\* A set of natural numbers that is not empty has a least element.
LEMMA LeastExists ==
    ASSUME NEW T \in SUBSET Nat, T # {}
    PROVE  \E x \in T : \A y \in T : x <= y
<1>1. \E x \in T : \A y \in T : ~ (<<y, x>> \in OpToRel(<, Nat))
  BY WFMin, NatLessThanWellFounded
<1>2. PICK x \in T : \A y \in T : ~ (<<y, x>> \in OpToRel(<, Nat))
  BY <1>1
<1>3. ASSUME NEW y \in T PROVE x <= y
  <2>1. x \in Nat /\ y \in Nat
    OBVIOUS
  <2>2. ~ (y < x)
    BY <1>2, <2>1 DEF OpToRel
  <2> QED BY <2>1, <2>2
<1> QED BY <1>3

\* The oldest cursor is a number up to the end of the sync, and no target is behind it.
LEMMA OldestCursorIsOldest ==
    ASSUME NEW S, NEW cursor, \A t \in S : cursor[t] \in Nat, NEW to \in Nat
    PROVE  OldestCursor(S, cursor, to) \in Nat
<1> DEFINE T == {to} \union {cursor[t] : t \in S}
<1>1. T \in SUBSET Nat /\ T # {}
  OBVIOUS
<1>2. PICK x \in T : \A y \in T : x <= y
  BY <1>1, LeastExists
<1>3. x <= to /\ \A t \in S : x <= cursor[t]
  BY <1>2
<1>4. \E c \in T : c <= to /\ \A t \in S : c <= cursor[t]
  BY <1>2, <1>3
<1>5. (CHOOSE c \in T : c <= to /\ \A t \in S : c <= cursor[t]) \in T
  BY <1>4
<1> QED BY <1>1, <1>5 DEF OldestCursor

\* The end of a chunk is not behind the end of the sync.
LEMMA ChunkEnd ==
    ASSUME Assumptions, NEW b \in Nat, NEW to \in Nat
    PROVE  NextChunkEnd(b, to) \in Nat /\ NextChunkEnd(b, to) <= to
BY DEF NextChunkEnd, Assumptions, ApprovalAssumption

\* The environment keeps the types of its variables.
LEMMA ChainTyped == ChainAssumption /\ ChainTypeOK /\ ChainNext => ChainTypeOK'
<1> SUFFICES ASSUME ChainAssumption, ChainTypeOK, ChainNext PROVE ChainTypeOK'
  OBVIOUS
<1> USE DEF ChainAssumption, ChainTypeOK, BlockNumber
<1>1. CASE Mine
  <2>1. PICK block \in Contents, S \in (SUBSET Node) \ {{}} :
           /\ Len(chain) < MaxBlock
           /\ chain' = Append(chain, block)
           /\ head' = [n \in Node |-> IF n \in S THEN Len(chain) + 1 ELSE head[n]]
    BY <1>1 DEF Mine
  <2>2. Len(chain') = Len(chain) + 1 /\ chain' \in Seq(SUBSET Event)
    BY <2>1
  <2>3. \A n \in Node : head'[n] \in BlockNumber /\ head'[n] <= Len(chain')
    BY <2>1, <2>2
  <2> QED BY <1>1, <2>1, <2>2, <2>3 DEF Mine
<1>2. CASE CatchUp
  BY <1>2 DEF CatchUp
<1>3. CASE RegisterAdminToken \/ DeleteToken
  BY <1>3 DEF RegisterAdminToken, DeleteToken
<1> QED BY <1>1, <1>2, <1>3 DEF ChainNext

\* The parts of TypeOK that change together.
TablesTyped ==
    /\ tradable \in [Token -> Venue]
    /\ changes \in 0..MaxExchangeChanges
    /\ approvals \in [Key -> SUBSET Flags]
    /\ syncedNumber \in [Token \X Venue -> BlockNumber \union {-1}]
    /\ failures \in 0..MaxFailures

TargetsTyped ==
    /\ tokens \subseteq Token /\ exchanges \subseteq Exchange
    /\ tokenStart \in [Token -> Nat] /\ tokenCursor \in [Token -> Nat]
    /\ exchangeStart \in [Exchange -> Nat] /\ exchangeCursor \in [Exchange -> Nat]

CallTyped == latest \in BlockNumber /\ blockTo \in Nat /\ pc \in 0..8

SessTyped == sess \in [Key -> SUBSET Flags]
CacheTyped == exchangeCache \in [Token -> Venue \union {NotCached}]

\* The parts of TypeOK that the proofs use.
LEMMA TypeParts ==
    /\ TypeOK <=> ChainTypeOK /\ TablesTyped /\ SessTyped /\ CacheTyped /\ TargetsTyped /\ CallTyped
    /\ TypeOK' <=> ChainTypeOK' /\ TablesTyped' /\ SessTyped' /\ CacheTyped' /\ TargetsTyped'
                   /\ CallTyped'
BY DEF TypeOK, TablesTyped, SessTyped, CacheTyped, TargetsTyped, CallTyped

\* After a call nothing is left that is not typed.
LEMMA EndTyped ==
    ASSUME Assumptions, EndOfCall
    PROVE  TargetsTyped' /\ CallTyped'
BY DEF Assumptions, ChainAssumption, EndOfCall, TargetsTyped, CallTyped, BlockNumber

\* A pass adds flags of its kind, or undoes the sync.
LEMMA SinkTyped ==
    ASSUME Assumptions, TypeOK, NEW k \in Flags, NEW logs, Sink(k, logs), pc \in 1..7,
           UNCHANGED <<chainVars, marketVars, tableVars, exchangeCache, failures>>
    PROVE  TypeOK'
<1> USE TypeParts
<1>1. ChainTypeOK' /\ TablesTyped' /\ CacheTyped'
  BY DEF ChainTypeOK, TablesTyped, CacheTyped, chainVars, marketVars, tableVars
<1>2. CASE k # "ApplyForTransfer" /\ \E r \in logs : sess[KeyOf(r[2])] = {}
  <2>1. sess' = approvals /\ EndOfCall
    BY <1>2 DEF Sink
  <2> QED BY <1>1, <2>1, EndTyped DEF TablesTyped, SessTyped
<1>3. CASE ~(k # "ApplyForTransfer" /\ \E r \in logs : sess[KeyOf(r[2])] = {})
  <2>1. /\ sess' = [key \in Key |-> IF \E r \in logs : KeyOf(r[2]) = key
                                    THEN sess[key] \union {k} ELSE sess[key]]
        /\ pc' = pc + 1
        /\ UNCHANGED <<listVars, latest, blockTo>>
    BY <1>3 DEF Sink
  <2>2. SessTyped'
    BY <2>1 DEF SessTyped
  <2>3. TargetsTyped' /\ CallTyped'
    BY <2>1 DEF TargetsTyped, CallTyped, listVars
  <2> QED BY <1>1, <2>2, <2>3
<1> QED BY <1>2, <1>3

\* A sync begins with typed targets.
LEMMA TargetsOfSyncTyped ==
    ASSUME Assumptions, TypeOK, GetContractList
    PROVE  TypeOK'
<1> USE TypeParts
<1>1. ChainTypeOK' /\ TablesTyped' /\ SessTyped'
  BY DEF GetContractList, ChainTypeOK, TablesTyped, SessTyped, chainVars, marketVars, tableVars
<1>2. CacheTyped'
  BY DEF GetContractList, CacheTyped, TablesTyped
<1>3. listed \subseteq Token
  BY DEF ChainTypeOK
<1>4. \A t \in listed : exchangeCache'[t] \in Venue
  BY <1>3 DEF GetContractList, CacheTyped, TablesTyped
<1>5. tokenStart' \in [Token -> Nat] /\ tokenCursor' = tokenStart'
  <2>1. \A p \in Token \X Venue : syncedNumber[p] + 1 \in Nat
    BY DEF TablesTyped, BlockNumber, Assumptions, ChainAssumption
  <2>2. \A t \in listed : syncedNumber[<<t, exchangeCache'[t]>>] + 1 \in Nat
    BY <1>3, <1>4, <2>1
  <2>3. tokenStart' = [t \in Token |->
           IF t \in listed THEN syncedNumber[<<t, exchangeCache'[t]>>] + 1 ELSE 0]
    BY DEF GetContractList
  <2>4. tokenCursor' = tokenStart'
    BY DEF GetContractList
  <2> QED BY <2>2, <2>3, <2>4
<1>6. exchanges' \subseteq Exchange
  <2>1. exchanges' = {exchangeCache'[t] : t \in listed} \ {NoExchange}
    BY DEF GetContractList
  <2> QED BY <1>4, <2>1 DEF Venue
<1>7. exchangeStart' \in [Exchange -> Nat] /\ exchangeCursor' = exchangeStart'
  <2>1. PICK first \in [exchanges' -> listed] :
          exchangeStart' = [x \in Exchange |->
                IF x \in exchanges' THEN tokenStart'[first[x]] ELSE 0]
    BY DEF GetContractList
  <2>2. \A x \in exchanges' : tokenStart'[first[x]] \in Nat
    BY <1>3, <1>5
  <2> QED BY <2>1, <2>2 DEF GetContractList
<1>8. TargetsTyped'
  BY <1>3, <1>5, <1>6, <1>7 DEF GetContractList, TargetsTyped
<1>9. latest' \in BlockNumber
  BY DEF GetContractList, ChainTypeOK
<1>10. blockTo' \in Nat
  <2>1. latest' \in Nat
    BY <1>9 DEF BlockNumber, Assumptions, ChainAssumption
  <2>2. OldestCursor(listed, tokenStart', latest') \in Nat
    BY <1>3, <1>5, <2>1, OldestCursorIsOldest
  <2>3. blockTo' = NextChunkEnd(OldestCursor(listed, tokenStart', latest'), latest')
    BY DEF GetContractList
  <2> QED BY <2>1, <2>2, <2>3, ChunkEnd
<1> QED BY <1>1, <1>2, <1>8, <1>9, <1>10 DEF GetContractList, CallTyped

\* TypeOK is inductive.
LEMMA TypeInvariant == Assumptions /\ TypeOK /\ [Next]_vars => TypeOK'
<1> SUFFICES ASSUME Assumptions, TypeOK, [Next]_vars PROVE TypeOK'
  OBVIOUS
<1> USE TypeParts
<1>1. CASE GetContractList
  BY <1>1, TargetsOfSyncTyped
<1>2. ASSUME NEW position \in 1..7, NEW k \in Flags,
             SyncToken(position, k) \/ SyncExchange(position, k)
      PROVE  TypeOK'
  BY <1>2, SinkTyped DEF SyncToken, SyncExchange
<1>3. CASE \/ SyncTokenApplyForTransfer \/ SyncTokenCancelTransfer \/ SyncTokenApproveTransfer
           \/ SyncExchangeApplyForTransfer \/ SyncExchangeCancelTransfer
           \/ SyncExchangeEscrowFinished \/ SyncExchangeApproveTransfer
  BY <1>2, <1>3
     DEF SyncTokenApplyForTransfer, SyncTokenCancelTransfer, SyncTokenApproveTransfer,
         SyncExchangeApplyForTransfer, SyncExchangeCancelTransfer,
         SyncExchangeEscrowFinished, SyncExchangeApproveTransfer, Flags
<1>4. CASE UpdateCursor
  <2>1. ChainTypeOK' /\ TablesTyped' /\ SessTyped' /\ CacheTyped'
    BY <1>4 DEF UpdateCursor, ChainTypeOK, TablesTyped, SessTyped, CacheTyped, chainVars,
                marketVars, tableVars
  <2>2. blockTo + 1 \in Nat /\ latest \in Nat
    BY DEF CallTyped, BlockNumber, Assumptions, ChainAssumption
  <2>3. TargetsTyped'
    BY <1>4, <2>2 DEF UpdateCursor, TargetsTyped, Moved
  <2>4. CallTyped'
    BY <1>4, <2>2, ChunkEnd DEF UpdateCursor, CallTyped
  <2> QED BY <2>1, <2>3, <2>4
<1>5. CASE SetBlockNumber
  <2>1. ChainTypeOK' /\ SessTyped' /\ CacheTyped'
    BY <1>5 DEF SetBlockNumber, ChainTypeOK, SessTyped, CacheTyped, chainVars
  <2>2. TablesTyped'
    BY <1>5 DEF SetBlockNumber, TablesTyped, SessTyped, CallTyped, marketVars
  <2> QED BY <1>5, <2>1, <2>2, EndTyped DEF SetBlockNumber
<1>6. CASE Rollback \/ Restart
  <2>1. ChainTypeOK' /\ SessTyped' /\ CacheTyped'
    BY <1>6 DEF Rollback, Restart, ChainTypeOK, SessTyped, CacheTyped, TablesTyped, chainVars
  <2>2. TablesTyped'
    BY <1>6 DEF Rollback, Restart, TablesTyped, marketVars, tableVars, Assumptions,
                ApprovalAssumption
  <2> QED BY <1>6, <2>1, <2>2, EndTyped DEF Rollback, Restart
<1>7. CASE SetTradableExchange
  <2>1. ChainTypeOK' /\ SessTyped' /\ CacheTyped' /\ TargetsTyped' /\ CallTyped'
    BY <1>7 DEF SetTradableExchange, ChainTypeOK, SessTyped, CacheTyped, TargetsTyped,
                CallTyped, chainVars, indexerVars, listVars
  <2>2. TablesTyped'
    BY <1>7 DEF SetTradableExchange, TablesTyped, indexerVars, tableVars, Assumptions,
                ApprovalAssumption
  <2> QED BY <2>1, <2>2
<1>8. CASE Environment
  <2>1. ChainTypeOK'
    BY <1>8, ChainTyped DEF Environment, Assumptions
  <2>2. TablesTyped' /\ SessTyped' /\ CacheTyped' /\ TargetsTyped' /\ CallTyped'
    BY <1>8 DEF Environment, TablesTyped, SessTyped, CacheTyped, TargetsTyped, CallTyped,
                marketVars, indexerVars, tableVars, listVars
  <2> QED BY <2>1, <2>2
<1>9. CASE UNCHANGED vars
  BY <1>9 DEF vars, chainVars, marketVars, tableVars, listVars, ChainTypeOK, TablesTyped,
              SessTyped, CacheTyped, TargetsTyped, CallTyped
<1> QED BY <1>1, <1>3, <1>4, <1>5, <1>6, <1>7, <1>8, <1>9 DEF Next, SyncNewLogs

\* The types hold in the initial states.
LEMMA InitTyped == Assumptions /\ Init => TypeOK
BY DEF Assumptions, ChainAssumption, ApprovalAssumption, Init, ChainInit, NoTargets, TypeOK,
       ChainTypeOK, BlockNumber, Venue

------------------------------------------------------------------------------
(* The rows are sound, whichever nodes answer.                               *)

\* The chain only grows.
LEMMA ChainGrows ==
    ASSUME Assumptions, TypeOK, [Next]_vars
    PROVE  /\ Len(chain) \in Nat /\ Len(chain) <= Len(chain')
           /\ \A b \in Block : b <= Len(chain) => chain'[b] = chain[b]
<1>1. chain \in Seq(SUBSET Event)
  BY DEF TypeOK, ChainTypeOK
<1>2. CASE Environment /\ Mine
  <2>1. PICK block \in Contents : chain' = Append(chain, block)
    BY <1>2 DEF Mine
  <2>2. block \in SUBSET Event
    BY DEF Assumptions, ChainAssumption
  <2> QED BY <1>1, <2>1, <2>2 DEF Block
<1>3. CASE ~(Environment /\ Mine)
  <2>1. UNCHANGED chain
    BY <1>3 DEF Next, Environment, ChainNext, CatchUp, RegisterAdminToken, DeleteToken,
                SyncNewLogs, GetContractList, SyncTokenApplyForTransfer,
                SyncTokenCancelTransfer, SyncTokenApproveTransfer, SyncExchangeApplyForTransfer,
                SyncExchangeCancelTransfer, SyncExchangeEscrowFinished,
                SyncExchangeApproveTransfer, SyncToken, SyncExchange, UpdateCursor,
                SetBlockNumber, Rollback, Restart, SetTradableExchange, vars, chainVars
  <2> QED BY <1>1, <2>1
<1> QED BY <1>2, <1>3

\* What happened stays so, and what happens is in a new block.
LEMMA HappenedStays ==
    ASSUME Assumptions, TypeOK, [Next]_vars, NEW b \in Block, NEW e
    PROVE  /\ Happened(e, b) => Happened(e, b)'
           /\ Happened(e, b)' => Happened(e, b) \/ b > Len(chain)
<1>1. Len(chain) \in Nat /\ Len(chain') \in Nat /\ b \in Nat
  BY TypeInvariant DEF TypeOK, ChainTypeOK, Block
<1> QED BY <1>1, ChainGrows DEF Happened

\* A pass adds flags of one kind to applications of which its events are read, or ends the
\* call; it adds no flag but ApplyForTransfer to an application without a row.
PassOver(k, logs) ==
    /\ \A r \in logs : r \in Block \X Event /\ Happened(r[2], r[1]) /\ r[2].kind = k
    /\ k # "ApplyForTransfer" => \A r \in logs : sess[KeyOf(r[2])] # {}
    /\ sess' = [key \in Key |-> IF \E r \in logs : KeyOf(r[2]) = key
                                THEN sess[key] \union {k} ELSE sess[key]]
    /\ pc' = pc + 1
    /\ UNCHANGED <<chainVars, marketVars, tableVars, exchangeCache, failures, listVars, latest,
                   blockTo>>

Aborted == sess' = approvals /\ EndOfCall /\ UNCHANGED <<chainVars, marketVars, tableVars>>

\* A pass over the tokens sinks every event the nodes answer, or undoes the sync.
LEMMA TokenPassEnds ==
    ASSUME NEW position \in 1..7, NEW k \in Flags, SyncToken(position, k)
    PROVE  \/ Aborted
           \/ \E server \in [tokens -> Node] : PassOver(k, Kept(k, TokenLogs(k, server)))
<1>1. PICK server \in [tokens -> Node] : Sink(k, Kept(k, TokenLogs(k, server)))
  BY DEF SyncToken
<1>2. \A r \in Kept(k, TokenLogs(k, server)) :
          r \in Block \X Event /\ Happened(r[2], r[1]) /\ r[2].kind = k
  BY DEF Kept, TokenLogs, ContractLogs, Happened
<1>3. CASE k # "ApplyForTransfer" /\ \E r \in Kept(k, TokenLogs(k, server)) : sess[KeyOf(r[2])] = {}
  BY <1>1, <1>3 DEF Sink, SyncToken, Aborted
<1>4. CASE ~(k # "ApplyForTransfer"
             /\ \E r \in Kept(k, TokenLogs(k, server)) : sess[KeyOf(r[2])] = {})
  <2> DEFINE logs == Kept(k, TokenLogs(k, server))
  <2> HIDE DEF logs
  <2>1. k # "ApplyForTransfer" => \A r \in logs : sess[KeyOf(r[2])] # {}
    BY <1>4 DEF logs
  <2>2. /\ sess' = [key \in Key |-> IF \E r \in logs : KeyOf(r[2]) = key
                                    THEN sess[key] \union {k} ELSE sess[key]]
        /\ pc' = pc + 1 /\ UNCHANGED <<listVars, latest, blockTo>>
    BY <1>1, <1>4 DEF Sink, logs
  <2>3. PassOver(k, logs)
    BY <1>2, <2>1, <2>2 DEF PassOver, SyncToken, logs
  <2> QED BY <2>3 DEF logs
<1> QED BY <1>3, <1>4

\* So does a pass over the exchanges.
LEMMA ExchangePassEnds ==
    ASSUME NEW position \in 1..7, NEW k \in Flags, SyncExchange(position, k)
    PROVE  \/ Aborted
           \/ \E server \in [exchanges -> Node] : PassOver(k, Kept(k, ExchangeLogs(k, server)))
<1>1. PICK server \in [exchanges -> Node] : Sink(k, Kept(k, ExchangeLogs(k, server)))
  BY DEF SyncExchange
<1>2. \A r \in Kept(k, ExchangeLogs(k, server)) :
          r \in Block \X Event /\ Happened(r[2], r[1]) /\ r[2].kind = k
  BY DEF Kept, ExchangeLogs, ContractLogs, Happened
<1>3. CASE k # "ApplyForTransfer"
           /\ \E r \in Kept(k, ExchangeLogs(k, server)) : sess[KeyOf(r[2])] = {}
  BY <1>1, <1>3 DEF Sink, SyncExchange, Aborted
<1>4. CASE ~(k # "ApplyForTransfer"
             /\ \E r \in Kept(k, ExchangeLogs(k, server)) : sess[KeyOf(r[2])] = {})
  <2> DEFINE logs == Kept(k, ExchangeLogs(k, server))
  <2> HIDE DEF logs
  <2>1. k # "ApplyForTransfer" => \A r \in logs : sess[KeyOf(r[2])] # {}
    BY <1>4 DEF logs
  <2>2. /\ sess' = [key \in Key |-> IF \E r \in logs : KeyOf(r[2]) = key
                                    THEN sess[key] \union {k} ELSE sess[key]]
        /\ pc' = pc + 1 /\ UNCHANGED <<listVars, latest, blockTo>>
    BY <1>1, <1>4 DEF Sink, logs
  <2>3. PassOver(k, logs)
    BY <1>2, <2>1, <2>2 DEF PassOver, SyncExchange, logs
  <2> QED BY <2>3 DEF logs
<1> QED BY <1>3, <1>4

\* A pass adds flags of events of the chain to rows that have the application.
LEMMA PassSound ==
    ASSUME Assumptions, SoundInv, NEW k \in Flags, NEW logs, PassOver(k, logs)
    PROVE  Sound(sess')
<1> SUFFICES ASSUME NEW key \in Key, NEW f \in sess'[key]
             PROVE  /\ "ApplyForTransfer" \in sess'[key]
                    /\ \E b \in Block, e \in Event : Happened(e, b) /\ KeyOf(e) = key /\ e.kind = f
  BY DEF Sound
<1>1. Sound(sess)
  BY DEF SoundInv
<1>2. sess'[key] = IF \E r \in logs : KeyOf(r[2]) = key THEN sess[key] \union {k} ELSE sess[key]
  BY DEF PassOver
<1>3. CASE f \in sess[key]
  BY <1>1, <1>2, <1>3 DEF Sound
<1>4. CASE f \notin sess[key]
  <2>1. PICK r \in logs : KeyOf(r[2]) = key /\ f = k
    BY <1>2, <1>4
  <2>2. r[1] \in Block /\ r[2] \in Event /\ Happened(r[2], r[1]) /\ r[2].kind = k
    BY DEF PassOver
  <2>3. k # "ApplyForTransfer" => sess[key] # {}
    BY <2>1 DEF PassOver
  <2>4. "ApplyForTransfer" \in sess'[key]
    BY <1>1, <1>2, <2>1, <2>3 DEF Sound
  <2> QED BY <2>1, <2>2, <2>4
<1> QED BY <1>3, <1>4

\* SoundInv is inductive.
LEMMA SoundInvariant == Assumptions /\ SoundInv /\ [Next]_vars => SoundInv'
<1> SUFFICES ASSUME Assumptions, SoundInv, [Next]_vars PROVE SoundInv'
  OBVIOUS
<1>1. TypeOK /\ TypeOK'
  BY TypeInvariant DEF SoundInv
<1>2. ASSUME NEW state, Sound(state) PROVE Sound(state)'
  BY <1>1, <1>2, HappenedStays DEF Sound
<1>3. ASSUME approvals' \in {approvals, sess}, sess' \in {approvals, sess} PROVE SoundInv'
  BY <1>1, <1>2, <1>3 DEF SoundInv, Sound
<1>4. ASSUME NEW position \in 1..7, NEW k \in Flags,
             SyncToken(position, k) \/ SyncExchange(position, k)
      PROVE  SoundInv'
  <2>1. Aborted \/ \E logs : PassOver(k, logs)
    BY <1>4, TokenPassEnds, ExchangePassEnds
  <2>2. CASE Aborted
    BY <1>3, <2>2 DEF Aborted, tableVars
  <2>3. CASE \E logs : PassOver(k, logs)
    <3>1. PICK logs : PassOver(k, logs)
      BY <2>3
    <3>2. Sound(sess') /\ UNCHANGED <<chain, approvals>>
      BY <3>1, PassSound DEF PassOver, chainVars, tableVars
    <3> QED BY <1>1, <3>2 DEF SoundInv, Sound, Happened
  <2> QED BY <2>1, <2>2, <2>3
<1>5. CASE \/ SyncTokenApplyForTransfer \/ SyncTokenCancelTransfer \/ SyncTokenApproveTransfer
           \/ SyncExchangeApplyForTransfer \/ SyncExchangeCancelTransfer
           \/ SyncExchangeEscrowFinished \/ SyncExchangeApproveTransfer
  BY <1>4, <1>5
     DEF SyncTokenApplyForTransfer, SyncTokenCancelTransfer, SyncTokenApproveTransfer,
         SyncExchangeApplyForTransfer, SyncExchangeCancelTransfer,
         SyncExchangeEscrowFinished, SyncExchangeApproveTransfer, Flags
<1>6. CASE GetContractList \/ UpdateCursor \/ SetBlockNumber
  BY <1>3, <1>6 DEF GetContractList, UpdateCursor, SetBlockNumber, tableVars
<1>7. CASE Rollback \/ Restart \/ SetTradableExchange
  BY <1>3, <1>7 DEF Rollback, Restart, SetTradableExchange, tableVars, indexerVars
<1>8. CASE Environment \/ UNCHANGED vars
  BY <1>3, <1>8 DEF Environment, vars, indexerVars, tableVars
<1> QED BY <1>5, <1>6, <1>7, <1>8 DEF Next, SyncNewLogs

\* At first there is no row.
LEMMA InitSound == Assumptions /\ Init => SoundInv
BY InitTyped DEF Init, SoundInv, Sound

------------------------------------------------------------------------------
(* The rows are complete, with one node.                                     *)

\* The venues of the events looked at: the tokens themselves, or all where there is one token.
Scope(X) == X \subseteq Venue /\ (X = {NoExchange} \/ OneToken)

\* The passes of tokens come before those of exchanges.
LEMMA PassOfEvent ==
    ASSUME Assumptions, NEW t, NEW x, NEW b, NEW e \in EventsOf(t, x, b)
    PROVE  /\ e \in Event /\ e.token = t /\ e.exchange = x /\ e.kind \in Flags
           /\ x = NoExchange => PassOf(x)[e.kind] \in 1..3
           /\ x # NoExchange => PassOf(x)[e.kind] \in 4..7
<1>1. e \in Event /\ e.token = t /\ e.exchange = x /\ e.kind \in Flags
  BY DEF EventsOf, Recordable
<1>2. x = NoExchange => e.kind # "EscrowFinished"
  BY <1>1 DEF Assumptions, ApprovalAssumption
<1> QED BY <1>1, <1>2 DEF PassOf, Flags

\* The application of an event.
LEMMA KeyOfEvent ==
    ASSUME Assumptions, NEW e \in Event
    PROVE  KeyOf(e) \in Key
BY DEF Assumptions, ChainAssumption, ApprovalAssumption, KeyOf, Key

\* The rows of a session that is ahead show all that the committed ones do.
LEMMA AheadShowsMore ==
    ASSUME Assumptions, SessionAhead, NEW e \in Event, e.kind \in approvals[KeyOf(e)]
    PROVE  e.kind \in sess[KeyOf(e)]
BY KeyOfEvent DEF SessionAhead

\* With one node, requests are answered from the newest block.
LEMMA HeadsStayCurrent ==
    ASSUME Assumptions, OneNode, TypeOK, HeadsCurrent, [Next]_vars
    PROVE  HeadsCurrent'
<1>1. CASE Environment /\ Mine
  <2>1. PICK block \in Contents, S \in (SUBSET Node) \ {{}} :
           /\ chain' = Append(chain, block)
           /\ head' = [n \in Node |-> IF n \in S THEN Len(chain) + 1 ELSE head[n]]
    BY <1>1 DEF Mine
  <2>2. \A n \in Node : n \in S
    BY <2>1 DEF OneNode
  <2>3. Len(chain') = Len(chain) + 1
    BY <2>1 DEF TypeOK, ChainTypeOK
  <2> QED BY <2>1, <2>2, <2>3 DEF HeadsCurrent
<1>2. CASE Environment /\ CatchUp
  BY <1>2 DEF CatchUp, HeadsCurrent, TypeOK, ChainTypeOK
<1>3. CASE ~(Environment /\ (Mine \/ CatchUp))
  <2>1. UNCHANGED <<chain, head>>
    BY <1>3 DEF Next, Environment, ChainNext, RegisterAdminToken, DeleteToken,
                SyncNewLogs, GetContractList, SyncTokenApplyForTransfer,
                SyncTokenCancelTransfer, SyncTokenApproveTransfer, SyncExchangeApplyForTransfer,
                SyncExchangeCancelTransfer, SyncExchangeEscrowFinished,
                SyncExchangeApproveTransfer, SyncToken, SyncExchange, UpdateCursor,
                SetBlockNumber, Rollback, Restart, SetTradableExchange, vars, chainVars
  <2> QED BY <2>1 DEF HeadsCurrent
<1> QED BY <1>1, <1>2, <1>3

\* A call that ends without a commit leaves the tables as they were.
LEMMA AbortRead ==
    ASSUME NEW X, ReadInv(X), Aborted
    PROVE  SessionAhead' /\ SyncTargets' /\ Read(X)'
<1>1. UNCHANGED <<chain, approvals, syncedNumber>> /\ sess' = approvals /\ pc' = 0
  BY DEF Aborted, EndOfCall, chainVars, tableVars
<1>2. \A t, x, b : EventsOf(t, x, b)' = EventsOf(t, x, b)
  BY <1>1 DEF EventsOf, Happened
<1>3. SessionAhead' /\ SyncTargets'
  BY <1>1 DEF SessionAhead, SyncTargets, ReadInv
<1>4. Read(X)'
  BY <1>1, <1>2 DEF Read, ReadInv, Complete
<1> QED BY <1>3, <1>4

\* The events of a chain that has grown, up to its former end, are those it had.
LEMMA OldEvents ==
    ASSUME Assumptions, TypeOK, [Next]_vars, NEW t, NEW x, NEW b \in Block,
           NEW e \in EventsOf(t, x, b)'
    PROVE  e \in EventsOf(t, x, b) \/ b > Len(chain)
BY HappenedStays DEF EventsOf, Recordable

\* While the tables and the sync stay as they are, the chain may grow.
LEMMA GrowthRead ==
    ASSUME Assumptions, TypeOK, [Next]_vars, NEW X \in SUBSET Venue, ReadInv(X),
           UNCHANGED <<indexerVars>>
    PROVE  SessionAhead' /\ SyncTargets' /\ Read(X)'
<1>1. UNCHANGED <<approvals, syncedNumber, sess, exchangeCache, tokens, tokenCursor, exchanges,
                  exchangeCursor, latest, blockTo, pc>>
  BY DEF indexerVars, tableVars, listVars
<1>2. Len(chain) \in Nat /\ Len(chain') \in Nat /\ Len(chain) <= Len(chain')
  <2>1. chain' \in Seq(SUBSET Event)
    BY TypeInvariant DEF TypeOK, ChainTypeOK
  <2> QED BY <2>1, ChainGrows
<1>3. SessionAhead'
  BY <1>1 DEF SessionAhead, ReadInv
<1>4. SyncTargets'
  <2>1. \A p \in Token \X Venue : syncedNumber[p] \in Int
    BY DEF TypeOK, BlockNumber
  <2>2. latest \in Int
    BY DEF TypeOK, BlockNumber
  <2>3. \A t \in tokens : tokenCursor[t] \in Int
    BY DEF TypeOK
  <2>4. \A x \in exchanges : exchangeCursor[x] \in Int
    BY DEF TypeOK
  <2> QED BY <1>1, <1>2, <2>1, <2>2, <2>3, <2>4 DEF SyncTargets, ReadInv
<1>5. ASSUME NEW t \in Token, NEW x, NEW n \in Int, n <= Len(chain), Complete(t, x, n)
      PROVE  Complete(t, x, n)'
  <2> SUFFICES ASSUME NEW b \in Block, NEW e \in EventsOf(t, x, b)', b <= n
               PROVE  e.kind \in approvals'[KeyOf(e)]
    BY DEF Complete
  <2>1. ~(b > Len(chain))
    BY <1>2, <1>5 DEF Block
  <2>2. e \in EventsOf(t, x, b)
    BY <2>1, OldEvents
  <2> QED BY <1>1, <1>5, <2>2 DEF Complete
<1>6. ASSUME pc # 0, NEW t \in tokens, NEW x \in exchanges \union {NoExchange}, ReadUpTo(t, x)
      PROVE  ReadUpTo(t, x)'
  <2> SUFFICES ASSUME NEW b \in Block, NEW e \in EventsOf(t, x, b)',
                      \/ b < CursorOf(t, x)
                      \/ b <= blockTo /\ PassOf(x)[e.kind] < pc
               PROVE  e.kind \in sess[KeyOf(e)]
    BY <1>1 DEF ReadUpTo, CursorOf
  <2>1. CursorOf(t, x) \in Int /\ CursorOf(t, x) <= Len(chain) + 1
    BY <1>6 DEF TypeOK, CursorOf, ReadInv, SyncTargets
  <2>2. blockTo \in Int /\ blockTo <= Len(chain) /\ b \in Int
    BY <1>2, <1>6 DEF TypeOK, ReadInv, SyncTargets, BlockNumber, Block
  <2>3. ~(b > Len(chain))
    BY <1>2, <2>1, <2>2
  <2>4. e \in EventsOf(t, x, b)
    BY <2>3, OldEvents
  <2> QED BY <1>6, <2>4 DEF ReadUpTo
<1>7. Read(X)'
  <2>1. ASSUME NEW t \in Token, NEW y \in Venue, NEW x \in X, x \in {NoExchange, y}
        PROVE  Complete(t, x, syncedNumber[<<t, y>>])'
    <3>1. Complete(t, x, syncedNumber[<<t, y>>])
      BY <2>1 DEF ReadInv, Read
    <3>2. syncedNumber[<<t, y>>] \in Int /\ syncedNumber[<<t, y>>] <= Len(chain)
      BY DEF TypeOK, BlockNumber, ReadInv, SyncTargets
    <3>3. PICK n \in Int : n = syncedNumber[<<t, y>>]
      BY <3>2
    <3>4. Complete(t, x, n)'
      BY <1>5, <3>1, <3>2, <3>3
    <3>5. n = syncedNumber'[<<t, y>>]
      BY <1>1, <3>3
    <3> QED BY <3>4, <3>5 DEF Complete
  <2>2. ASSUME pc' # 0, NEW t \in tokens', NEW x \in X, x \in exchanges' \union {NoExchange}
        PROVE  ReadUpTo(t, x)'
    BY <1>1, <1>6, <2>2 DEF ReadInv, Read
  <2> QED BY <2>1, <2>2 DEF Read
<1> QED BY <1>3, <1>4, <1>7

\* A pass reads the events of its kind that are due in the chunk.
PassReads ==
    \A t \in tokens, x \in exchanges \union {NoExchange}, b \in Block :
        \A e \in EventsOf(t, x, b) :
            CursorOf(t, x) <= b /\ b <= blockTo /\ PassOf(x)[e.kind] = pc
                => e.kind \in sess'[KeyOf(e)]

\* What a pass has read is in the session.
LEMMA PassRead ==
    ASSUME Assumptions, TypeOK, NEW X \in SUBSET Venue, ReadInv(X), NEW k \in Flags, NEW logs,
           PassOver(k, logs), PassReads, pc \in 1..7
    PROVE  SessionAhead' /\ SyncTargets' /\ Read(X)'
<1>1. /\ UNCHANGED <<chain, approvals, syncedNumber, exchangeCache, tokens, tokenCursor, exchanges,
                     exchangeCursor, latest, blockTo>>
      /\ pc' = pc + 1 /\ pc' # 0
  BY DEF PassOver, chainVars, tableVars, listVars
<1>2. \A t, x, b : EventsOf(t, x, b)' = EventsOf(t, x, b)
  BY <1>1 DEF EventsOf, Happened
<1>3. \A key \in Key : sess[key] \subseteq sess'[key]
  BY DEF PassOver
<1>4. SessionAhead'
  BY <1>1, <1>3 DEF SessionAhead, ReadInv
<1>5. SyncTargets'
  BY <1>1 DEF SyncTargets, ReadInv
<1>6. ASSUME NEW t \in tokens, NEW x \in X, x \in exchanges \union {NoExchange}
      PROVE  ReadUpTo(t, x)'
  <2> SUFFICES ASSUME NEW b \in Block, NEW e \in EventsOf(t, x, b),
                      \/ b < CursorOf(t, x)
                      \/ b <= blockTo /\ PassOf(x)[e.kind] < pc + 1
               PROVE  e.kind \in sess'[KeyOf(e)]
    BY <1>1, <1>2 DEF ReadUpTo, CursorOf
  <2>1. ReadUpTo(t, x)
    BY <1>6 DEF ReadInv, Read
  <2>2. e \in Event /\ KeyOf(e) \in Key
    BY PassOfEvent, KeyOfEvent
  <2>3. CASE b < CursorOf(t, x) \/ (b <= blockTo /\ PassOf(x)[e.kind] < pc)
    BY <1>3, <2>1, <2>2, <2>3 DEF ReadUpTo
  <2>4. CASE ~(b < CursorOf(t, x) \/ (b <= blockTo /\ PassOf(x)[e.kind] < pc))
    <3>1. PassOf(x)[e.kind] \in Int /\ pc \in Int
      BY PassOfEvent
    <3>2. CursorOf(t, x) \in Int /\ b \in Int
      BY <1>6 DEF TypeOK, CursorOf, Block
    <3>3. CursorOf(t, x) <= b /\ b <= blockTo /\ PassOf(x)[e.kind] = pc
      BY <2>4, <3>1, <3>2
    <3> QED BY <1>6, <3>3 DEF PassReads
  <2> QED BY <2>3, <2>4
<1>7. Read(X)'
  <2>1. \A t, x, n : Complete(t, x, n)' <=> Complete(t, x, n)
    BY <1>1, <1>2 DEF Complete
  <2> QED BY <1>1, <1>6, <2>1 DEF ReadInv, Read, Complete
<1> QED BY <1>4, <1>5, <1>7

\* The passes over the target tokens.
LEMMA TokenPassReads ==
    ASSUME Assumptions, OneNode, TypeOK, HeadsCurrent, NEW k \in Flags \ {"EscrowFinished"},
           PassOf(NoExchange)[k] = pc, pc \in 1..3,
           NEW server \in [tokens -> Node], PassOver(k, Kept(k, TokenLogs(k, server)))
    PROVE  PassReads
<1> SUFFICES ASSUME NEW t \in tokens, NEW x \in exchanges \union {NoExchange}, NEW b \in Block,
                    NEW e \in EventsOf(t, x, b), CursorOf(t, x) <= b, b <= blockTo,
                    PassOf(x)[e.kind] = pc
             PROVE  e.kind \in sess'[KeyOf(e)]
  BY DEF PassReads
<1>1. /\ e \in Event /\ e.token = t /\ e.exchange = x /\ e.kind \in Flags
      /\ x = NoExchange
  BY PassOfEvent
<1>2. e.kind = k
  <2>1. e.kind # "EscrowFinished"
    BY <1>1 DEF Assumptions, ApprovalAssumption
  <2>2. PassOf(NoExchange)[e.kind] = PassOf(NoExchange)[k]
    BY <1>1
  <2> QED BY <1>1, <2>1, <2>2 DEF PassOf, Flags
<1>3. Recordable(e) /\ Happened(e, b) /\ b <= Len(chain)
  BY DEF EventsOf, Happened
<1>4. head[server[t]] = Len(chain)
  BY DEF HeadsCurrent
<1>5. tokenCursor[t] <= b
  BY <1>1 DEF CursorOf
<1>6. b \in tokenCursor[t]..blockTo
  BY <1>5 DEF TypeOK, Block
<1>7. <<b, e>> \in ContractLogs({t}, NoExchange, k, tokenCursor[t], head[server[t]])
  BY <1>1, <1>2, <1>3, <1>4, <1>6 DEF ContractLogs, Happened
<1>8. <<b, e>> \in Kept(k, TokenLogs(k, server))
  BY <1>2, <1>3, <1>7 DEF Kept, TokenLogs, Recordable
<1>9. KeyOf(e) \in Key
  BY <1>1, KeyOfEvent
<1> QED BY <1>2, <1>8, <1>9 DEF PassOver

\* The passes over the target exchanges.
LEMMA ExchangePassReads ==
    ASSUME Assumptions, OneNode, TypeOK, HeadsCurrent, NEW k \in Flags,
           \A x \in Exchange : PassOf(x)[k] = pc, pc \in 4..7,
           NEW server \in [exchanges -> Node], PassOver(k, Kept(k, ExchangeLogs(k, server)))
    PROVE  PassReads
<1> SUFFICES ASSUME NEW t \in tokens, NEW x \in exchanges \union {NoExchange}, NEW b \in Block,
                    NEW e \in EventsOf(t, x, b), CursorOf(t, x) <= b, b <= blockTo,
                    PassOf(x)[e.kind] = pc
             PROVE  e.kind \in sess'[KeyOf(e)]
  BY DEF PassReads
<1>1. /\ e \in Event /\ e.token = t /\ e.exchange = x /\ e.kind \in Flags
      /\ x # NoExchange
  BY PassOfEvent
<1>2. x \in exchanges /\ x \in Exchange
  BY <1>1 DEF TypeOK
<1>3. e.kind = k
  <2>1. PassOf(x)[k] = pc /\ PassOf(x)[e.kind] = pc
    BY <1>2
  <2> QED BY <1>1, <2>1 DEF PassOf, Flags
<1>4. Recordable(e) /\ Happened(e, b) /\ b <= Len(chain)
  BY DEF EventsOf, Happened
<1>5. head[server[x]] = Len(chain)
  BY <1>2 DEF HeadsCurrent
<1>6. exchangeCursor[x] <= b
  BY <1>1 DEF CursorOf
<1>7. b \in exchangeCursor[x]..blockTo
  BY <1>2, <1>6 DEF TypeOK, Block
<1>8. <<b, e>> \in ContractLogs(tokens, x, k, exchangeCursor[x], head[server[x]])
  BY <1>1, <1>3, <1>4, <1>5, <1>7 DEF ContractLogs, Happened
<1>9. <<b, e>> \in Kept(k, ExchangeLogs(k, server))
  BY <1>2, <1>3, <1>4, <1>8 DEF Kept, ExchangeLogs, Recordable
<1>10. KeyOf(e) \in Key
  BY <1>1, KeyOfEvent
<1> QED BY <1>3, <1>9, <1>10 DEF PassOver

\* Each pass keeps what has been read.
LEMMA SyncRead ==
    ASSUME Assumptions, OneNode, TypeOK, NEW X \in SUBSET Venue, ReadInv(X),
           \/ SyncTokenApplyForTransfer \/ SyncTokenCancelTransfer \/ SyncTokenApproveTransfer
           \/ SyncExchangeApplyForTransfer \/ SyncExchangeCancelTransfer
           \/ SyncExchangeEscrowFinished \/ SyncExchangeApproveTransfer
    PROVE  SessionAhead' /\ SyncTargets' /\ Read(X)'
<1>0. HeadsCurrent
  BY DEF ReadInv
<1>1. ASSUME NEW position \in 1..3, NEW k \in Flags \ {"EscrowFinished"},
             PassOf(NoExchange)[k] = position, SyncToken(position, k)
      PROVE  SessionAhead' /\ SyncTargets' /\ Read(X)'
  <2>1. pc = position
    BY <1>1 DEF SyncToken
  <2>2. CASE Aborted
    BY <2>2, AbortRead
  <2>3. ASSUME NEW server \in [tokens -> Node], PassOver(k, Kept(k, TokenLogs(k, server)))
        PROVE  SessionAhead' /\ SyncTargets' /\ Read(X)'
    <3>1. PassReads
      BY <1>0, <1>1, <2>1, <2>3, TokenPassReads
    <3> QED BY <2>1, <2>3, <3>1, PassRead
  <2> QED BY <1>1, <2>2, <2>3, TokenPassEnds
<1>2. ASSUME NEW position \in 4..7, NEW k \in Flags, \A x \in Exchange : PassOf(x)[k] = position,
             SyncExchange(position, k)
      PROVE  SessionAhead' /\ SyncTargets' /\ Read(X)'
  <2>1. pc = position
    BY <1>2 DEF SyncExchange
  <2>2. CASE Aborted
    BY <2>2, AbortRead
  <2>3. ASSUME NEW server \in [exchanges -> Node], PassOver(k, Kept(k, ExchangeLogs(k, server)))
        PROVE  SessionAhead' /\ SyncTargets' /\ Read(X)'
    <3>1. PassReads
      BY <1>0, <1>2, <2>1, <2>3, ExchangePassReads
    <3> QED BY <2>1, <2>3, <3>1, PassRead
  <2> QED BY <1>2, <2>2, <2>3, ExchangePassEnds
<1>3. \A x \in Exchange : x # NoExchange
  BY DEF Assumptions, ApprovalAssumption
<1>4. CASE SyncTokenApplyForTransfer \/ SyncTokenCancelTransfer \/ SyncTokenApproveTransfer
  BY <1>1, <1>4 DEF SyncTokenApplyForTransfer, SyncTokenCancelTransfer,
                    SyncTokenApproveTransfer, PassOf, Flags
<1>5. CASE \/ SyncExchangeApplyForTransfer \/ SyncExchangeCancelTransfer
           \/ SyncExchangeEscrowFinished \/ SyncExchangeApproveTransfer
  BY <1>2, <1>3, <1>5 DEF SyncExchangeApplyForTransfer, SyncExchangeCancelTransfer,
                    SyncExchangeEscrowFinished, SyncExchangeApproveTransfer, PassOf, Flags
<1> QED BY <1>4, <1>5

\* A sync begins with the next block of each target, so nothing is skipped.
LEMMA BeginRead ==
    ASSUME Assumptions, OneNode, TypeOK, NEW X, Scope(X), ReadInv(X), GetContractList
    PROVE  SessionAhead' /\ SyncTargets' /\ Read(X)'
<1>1. UNCHANGED <<chain, approvals, syncedNumber, sess>> /\ pc = 0 /\ pc' = 1 /\ sess = approvals
  BY DEF GetContractList, chainVars, tableVars, ReadInv, SessionAhead
<1>2. \A t, x, b : EventsOf(t, x, b)' = EventsOf(t, x, b)
  BY <1>1 DEF EventsOf, Happened
<1>3. SessionAhead'
  BY <1>1 DEF SessionAhead
<1>4. /\ tokens' = listed /\ listed \subseteq Token /\ tokenCursor' = tokenStart'
      /\ tokenStart' = [t \in Token |->
            IF t \in listed THEN syncedNumber[<<t, exchangeCache'[t]>>] + 1 ELSE 0]
      /\ exchanges' = {exchangeCache'[t] : t \in listed} \ {NoExchange}
  BY DEF GetContractList, TypeOK, ChainTypeOK
<1>5. \A t \in tokens' : exchangeCache'[t] \in Venue
  BY DEF GetContractList, TypeOK, ChainTypeOK
<1>6. \A t \in tokens' : tokenCursor'[t] = syncedNumber[<<t, exchangeCache'[t]>>] + 1
  BY <1>4
<1>7. \A x \in exchanges' : \E t \in tokens' :
          exchangeCache'[t] = x /\ exchangeCursor'[x] = syncedNumber[<<t, x>>] + 1
  <2>1. PICK first \in [exchanges' -> listed] :
          /\ \A x \in exchanges' : exchangeCache'[first[x]] = x
          /\ exchangeStart' = [x \in Exchange |->
                IF x \in exchanges' THEN tokenStart'[first[x]] ELSE 0]
    BY DEF GetContractList
  <2>2. exchanges' \subseteq Exchange
    BY <1>4, <1>5 DEF Venue
  <2>3. exchangeCursor' = exchangeStart'
    BY DEF GetContractList
  <2> QED BY <1>4, <2>1, <2>2, <2>3
<1>8. SyncTargets'
  <2>1. \A p \in Token \X Venue : syncedNumber[p] \in Int /\ syncedNumber[p] <= Len(chain)
    BY DEF TypeOK, BlockNumber, ReadInv, SyncTargets
  <2>2. Len(chain) \in Nat /\ latest' = Len(chain)
    <3>1. Len(chain) \in Nat
      BY DEF TypeOK, ChainTypeOK
    <3>2. \E n \in Node : latest' = head[n]
      BY DEF GetContractList
    <3>3. HeadsCurrent
      BY DEF ReadInv
    <3> QED BY <3>1, <3>2, <3>3 DEF HeadsCurrent
  <2>3. blockTo' <= latest'
    <3>1. tokenStart' \in [Token -> Nat]
      BY TargetsOfSyncTyped DEF TypeOK
    <3>2. OldestCursor(listed, tokenStart', latest') \in Nat
      BY <1>4, <2>2, <3>1, OldestCursorIsOldest
    <3> QED BY <2>2, <3>2, ChunkEnd DEF GetContractList
  <2>4. \A t \in tokens' : tokenCursor'[t] <= Len(chain) + 1
    <3> TAKE t \in tokens'
    <3> DEFINE p == <<t, exchangeCache'[t]>>
    <3>1. p \in Token \X Venue /\ tokenCursor'[t] = syncedNumber[p] + 1
      BY <1>4, <1>5, <1>6
    <3> HIDE DEF p
    <3> QED BY <2>1, <2>2, <3>1
  <2>5. \A x \in exchanges' : exchangeCursor'[x] <= Len(chain) + 1
    <3> TAKE x \in exchanges'
    <3>1. PICK t \in tokens' :
             exchangeCache'[t] = x /\ exchangeCursor'[x] = syncedNumber[<<t, x>>] + 1
      BY <1>7
    <3> DEFINE p == <<t, x>>
    <3>2. p \in Token \X Venue /\ exchangeCursor'[x] = syncedNumber[p] + 1
      BY <1>4, <1>5, <3>1
    <3> HIDE DEF p
    <3> QED BY <2>1, <2>2, <3>2
  <2> QED BY <1>1, <1>4, <2>1, <2>2, <2>3, <2>4, <2>5 DEF SyncTargets
<1>9. ASSUME NEW t \in tokens', NEW x \in X, x \in exchanges' \union {NoExchange}
      PROVE  ReadUpTo(t, x)'
  <2>1. \E y \in Venue : /\ x \in {NoExchange, y}
                         /\ CursorOf(t, x)' = syncedNumber[<<t, y>>] + 1
    <3>1. CASE x = NoExchange
      BY <1>5, <1>6, <3>1 DEF CursorOf
    <3>2. CASE x # NoExchange
      <4>1. OneToken
        BY <1>9, <3>2 DEF Scope
      <4>2. PICK s \in tokens' :
               exchangeCache'[s] = x /\ exchangeCursor'[x] = syncedNumber[<<s, x>>] + 1
        BY <1>7, <1>9, <3>2
      <4>3. s = t
        BY <1>4, <4>1 DEF OneToken
      <4> QED BY <1>5, <3>2, <4>2, <4>3 DEF CursorOf
    <3> QED BY <3>1, <3>2
  <2>2. PICK y \in Venue : x \in {NoExchange, y} /\ CursorOf(t, x)' = syncedNumber[<<t, y>>] + 1
    BY <2>1
  <2>3. Complete(t, x, syncedNumber[<<t, y>>])
    BY <1>4, <2>2 DEF ReadInv, Read
  <2> SUFFICES ASSUME NEW b \in Block, NEW e \in EventsOf(t, x, b),
                      \/ b < CursorOf(t, x)'
                      \/ b <= blockTo' /\ PassOf(x)[e.kind] < 1
               PROVE  e.kind \in approvals[KeyOf(e)]
    BY <1>1, <1>2 DEF ReadUpTo
  <2>4. ~(PassOf(x)[e.kind] < 1)
    BY PassOfEvent
  <2>5. syncedNumber[<<t, y>>] \in Int
    BY <1>4 DEF TypeOK, BlockNumber
  <2>6. b <= syncedNumber[<<t, y>>]
    BY <2>2, <2>4, <2>5 DEF Block
  <2> QED BY <2>3, <2>6 DEF Complete
<1>10. Read(X)'
  <2>1. \A t, x, n : Complete(t, x, n)' <=> Complete(t, x, n)
    BY <1>1, <1>2 DEF Complete
  <2> QED BY <1>1, <1>9, <2>1 DEF ReadInv, Read, Complete
<1> QED BY <1>3, <1>8, <1>10

\* When the passes over a chunk are done, its blocks are below the cursors.
LEMMA NextChunkRead ==
    ASSUME Assumptions, TypeOK, NEW X \in SUBSET Venue, ReadInv(X), UpdateCursor
    PROVE  SessionAhead' /\ SyncTargets' /\ Read(X)'
<1>1. /\ UNCHANGED <<chain, approvals, syncedNumber, sess, exchangeCache, tokens, exchanges,
                     latest>>
      /\ pc = 8 /\ pc' = 1
  BY DEF UpdateCursor, chainVars, tableVars
<1>2. \A t, x, b : EventsOf(t, x, b)' = EventsOf(t, x, b)
  BY <1>1 DEF EventsOf, Happened
<1>3. /\ blockTo \in Nat /\ latest \in Nat /\ Len(chain) \in Nat
      /\ blockTo < latest /\ latest <= Len(chain)
  BY <1>1 DEF UpdateCursor, TypeOK, ChainTypeOK, ReadInv, SyncTargets, BlockNumber, Assumptions,
              ChainAssumption
<1>4. \A t \in tokens : tokenCursor'[t] \in {tokenCursor[t], blockTo + 1}
  BY DEF UpdateCursor, Moved, TypeOK
<1>5. \A x \in exchanges : exchangeCursor'[x] \in {exchangeCursor[x], blockTo + 1}
  BY DEF UpdateCursor, Moved, TypeOK
<1>6. SessionAhead'
  BY <1>1 DEF SessionAhead, ReadInv
<1>7. SyncTargets'
  <2>1. blockTo' <= latest
    BY <1>3, ChunkEnd DEF UpdateCursor
  <2> QED BY <1>1, <1>3, <1>4, <1>5, <2>1 DEF ReadInv, SyncTargets
<1>8. ASSUME NEW t \in tokens, NEW x \in X, x \in exchanges \union {NoExchange}
      PROVE  ReadUpTo(t, x)'
  <2> SUFFICES ASSUME NEW b \in Block, NEW e \in EventsOf(t, x, b),
                      \/ b < CursorOf(t, x)'
                      \/ b <= blockTo' /\ PassOf(x)[e.kind] < 1
               PROVE  e.kind \in sess[KeyOf(e)]
    BY <1>1, <1>2 DEF ReadUpTo
  <2>1. ReadUpTo(t, x)
    BY <1>1, <1>8 DEF ReadInv, Read
  <2>2. PassOf(x)[e.kind] \in 1..7
    BY PassOfEvent
  <2>3. CursorOf(t, x)' \in {CursorOf(t, x), blockTo + 1}
    BY <1>4, <1>5, <1>8 DEF CursorOf
  <2>4. b < CursorOf(t, x) \/ b <= blockTo
    BY <1>3, <2>2, <2>3 DEF Block
  <2> QED BY <1>1, <2>1, <2>2, <2>4 DEF ReadUpTo
<1>9. Read(X)'
  <2>1. \A t, x, n : Complete(t, x, n)' <=> Complete(t, x, n)
    BY <1>1, <1>2 DEF Complete
  <2> QED BY <1>1, <1>8, <2>1 DEF ReadInv, Read, Complete
<1> QED BY <1>6, <1>7, <1>9

\* After the last chunk the targets have been read up to the end of the sync.
LEMMA CommitRead ==
    ASSUME Assumptions, TypeOK, NEW X \in SUBSET Venue, ReadInv(X), SetBlockNumber
    PROVE  SessionAhead' /\ SyncTargets' /\ Read(X)'
<1>1. /\ UNCHANGED <<chain, sess>> /\ approvals' = sess /\ pc = 8 /\ pc' = 0 /\ blockTo >= latest
      /\ syncedNumber' = [p \in Token \X Venue |->
            IF p[1] \in tokens /\ p[2] = exchangeCache[p[1]] THEN latest ELSE syncedNumber[p]]
  BY DEF SetBlockNumber, EndOfCall, chainVars
<1>2. \A t, x, b : EventsOf(t, x, b)' = EventsOf(t, x, b)
  BY <1>1 DEF EventsOf, Happened
<1>3. SessionAhead'
  BY <1>1 DEF SessionAhead
<1>4. SyncTargets'
  BY <1>1 DEF SyncTargets, ReadInv
<1>5. ASSUME NEW t \in Token, NEW y \in Venue, NEW x \in X, x \in {NoExchange, y}
      PROVE  Complete(t, x, syncedNumber[<<t, y>>])'
  <2> SUFFICES ASSUME NEW b \in Block, NEW e \in EventsOf(t, x, b), b <= syncedNumber'[<<t, y>>]
               PROVE  e.kind \in sess[KeyOf(e)]
    BY <1>1, <1>2 DEF Complete
  <2>1. e \in Event
    BY PassOfEvent
  <2>2. CASE t \in tokens /\ y = exchangeCache[t]
    <3>1. b <= latest /\ latest \in Int /\ blockTo \in Int /\ b \in Int
      BY <1>1, <2>2 DEF TypeOK, BlockNumber, Block
    <3>2. b <= blockTo
      BY <1>1, <3>1
    <3>3. x \in exchanges \union {NoExchange}
      BY <1>1, <1>5, <2>2 DEF ReadInv, SyncTargets
    <3>4. ReadUpTo(t, x)
      BY <1>1, <2>2, <3>3 DEF ReadInv, Read
    <3>5. PassOf(x)[e.kind] \in 1..7
      BY PassOfEvent
    <3> QED BY <1>1, <3>2, <3>4, <3>5 DEF ReadUpTo
  <2>3. CASE ~(t \in tokens /\ y = exchangeCache[t])
    <3>1. syncedNumber'[<<t, y>>] = syncedNumber[<<t, y>>]
      BY <1>1, <2>3
    <3>2. e.kind \in approvals[KeyOf(e)]
      BY <1>5, <3>1 DEF ReadInv, Read, Complete
    <3> QED BY <2>1, <3>2, AheadShowsMore DEF ReadInv
  <2> QED BY <2>2, <2>3
<1>6. Read(X)'
  BY <1>1, <1>5 DEF Read, Complete
<1> QED BY <1>3, <1>4, <1>6

\* ReadInv is inductive.
LEMMA ReadInvariant ==
    ASSUME Assumptions, OneNode, NEW X, Scope(X), TypeOK, ReadInv(X), [Next]_vars
    PROVE  ReadInv(X)'
<1>0. X \in SUBSET Venue
  BY DEF Scope
<1>1. HeadsCurrent'
  BY HeadsStayCurrent DEF ReadInv
<1>2. CASE GetContractList
  BY <1>1, <1>2, BeginRead DEF ReadInv
<1>3. CASE \/ SyncTokenApplyForTransfer \/ SyncTokenCancelTransfer \/ SyncTokenApproveTransfer
           \/ SyncExchangeApplyForTransfer \/ SyncExchangeCancelTransfer
           \/ SyncExchangeEscrowFinished \/ SyncExchangeApproveTransfer
  BY <1>0, <1>1, <1>3, SyncRead DEF ReadInv
<1>4. CASE UpdateCursor
  BY <1>0, <1>1, <1>4, NextChunkRead DEF ReadInv
<1>5. CASE SetBlockNumber
  BY <1>0, <1>1, <1>5, CommitRead DEF ReadInv
<1>6. CASE Rollback \/ Restart
  <2>1. Aborted
    BY <1>6 DEF Rollback, Restart, Aborted
  <2> QED BY <1>1, <2>1, AbortRead DEF ReadInv
<1>7. CASE SetTradableExchange \/ Environment \/ UNCHANGED vars
  <2>1. UNCHANGED indexerVars
    BY <1>7 DEF SetTradableExchange, Environment, vars, indexerVars
  <2> QED BY <1>0, <1>1, <2>1, GrowthRead DEF ReadInv
<1> QED BY <1>2, <1>3, <1>4, <1>5, <1>6, <1>7 DEF Next, SyncNewLogs

\* At first no block has been read.
LEMMA InitRead ==
    ASSUME Assumptions, NEW X \in SUBSET Venue, Init
    PROVE  ReadInv(X)
<1>1. HeadsCurrent /\ SessionAhead /\ SyncTargets
  BY DEF Init, ChainInit, NoTargets, HeadsCurrent, SessionAhead, SyncTargets
<1>2. Read(X)
  <2>1. \A t \in Token, y \in Venue : syncedNumber[<<t, y>>] = -1
    BY DEF Init
  <2>2. \A b \in Block : ~(b <= -1)
    BY DEF Block
  <2>3. pc = 0
    BY DEF Init, NoTargets
  <2> QED BY <2>1, <2>2, <2>3 DEF Read, Complete
<1> QED BY <1>1, <1>2 DEF ReadInv

------------------------------------------------------------------------------
(* The theorems.                                                             *)

\* What has been read up to the block numbers is what the properties ask for.
LEMMA ReadIsComplete ==
    /\ \A X : NoExchange \in X /\ ReadInv(X) => TokenHistoryComplete
    /\ ReadInv(Venue) => ExchangeHistoryComplete
<1>1. ASSUME NEW X, NoExchange \in X, ReadInv(X) PROVE TokenHistoryComplete
  <2> SUFFICES ASSUME NEW t \in Token, NEW x \in Venue, NEW b \in Block, NEW e \in Event,
                      e.token = t, e.exchange = NoExchange, Recordable(e), Happened(e, b),
                      b <= syncedNumber[<<t, x>>]
               PROVE  e.kind \in approvals[KeyOf(e)]
    BY DEF TokenHistoryComplete
  <2>1. Complete(t, NoExchange, syncedNumber[<<t, x>>])
    BY <1>1 DEF ReadInv, Read
  <2> QED BY <2>1 DEF Complete, EventsOf
<1>2. ASSUME ReadInv(Venue) PROVE ExchangeHistoryComplete
  <2> SUFFICES ASSUME NEW t \in Token, NEW x \in Exchange, NEW b \in Block, NEW e \in Event,
                      e.token = t, e.exchange = x, Recordable(e), Happened(e, b),
                      b <= syncedNumber[<<t, x>>]
               PROVE  e.kind \in approvals[KeyOf(e)]
    BY DEF ExchangeHistoryComplete
  <2>1. Complete(t, x, syncedNumber[<<t, x>>])
    BY <1>2 DEF ReadInv, Read, Venue
  <2> QED BY <2>1 DEF Complete, EventsOf
<1> QED BY <1>1, <1>2

\* Whichever nodes answer, no row tells what did not happen, or is without its application.
THEOREM ApprovalHistorySound ==
    ASSUME Assumptions
    PROVE  Spec => [](TypeOK /\ HistorySound)
<1>1. SoundInv => TypeOK /\ HistorySound
  BY DEF SoundInv, Sound, HistorySound
<1>2. Init => SoundInv
  BY InitSound
<1>3. SoundInv /\ [Next]_vars => SoundInv'
  BY SoundInvariant
<1> QED BY <1>1, <1>2, <1>3, PTL DEF Spec

\* With one node, no event about an application made on a token is missing up to the block
\* number of the token, whatever other tokens there are and whichever exchanges they share.
THEOREM TokenHistoryAlwaysComplete ==
    ASSUME Assumptions, OneNode
    PROVE  Spec => []TokenHistoryComplete
<1> DEFINE X == {NoExchange}
<1>1. Scope(X)
  BY DEF Scope, Venue
<1> HIDE DEF X
<1>2. SoundInv /\ ReadInv(X) => TokenHistoryComplete
  BY ReadIsComplete DEF X
<1>3. Init => SoundInv /\ ReadInv(X)
  BY <1>1, InitSound, InitRead DEF Scope
<1>4. SoundInv /\ ReadInv(X) /\ [Next]_vars => (SoundInv /\ ReadInv(X))'
  BY <1>1, SoundInvariant, ReadInvariant DEF SoundInv
<1> QED BY <1>2, <1>3, <1>4, PTL DEF Spec

\* With one node and one token, none about an application made on an exchange is missing
\* either, although the exchange of the token may change.
THEOREM ExchangeHistoryAlwaysComplete ==
    ASSUME Assumptions, OneNode, OneToken
    PROVE  Spec => []ExchangeHistoryComplete
<1>1. Scope(Venue)
  BY DEF Scope
<1>2. SoundInv /\ ReadInv(Venue) => ExchangeHistoryComplete
  BY ReadIsComplete
<1>3. Init => SoundInv /\ ReadInv(Venue)
  BY InitSound, InitRead
<1>4. SoundInv /\ ReadInv(Venue) /\ [Next]_vars => (SoundInv /\ ReadInv(Venue))'
  BY <1>1, SoundInvariant, ReadInvariant DEF SoundInv
<1> QED BY <1>2, <1>3, <1>4, PTL DEF Spec
==============================================================================
