------------------------------ MODULE Dex_proofs ------------------------------
(***************************************************************************)
(* Proofs about DexIndexer, DexMarket and DexOrderList, for one node.      *)
(*                                                                         *)
(* The tables are what the events tell that were committed.  During a sync *)
(* each of the six passes over a range adds its events to what has been    *)
(* read before, and the invariant says what the session shows then.  What  *)
(* the exchange guarantees, that an event happens once and after the order *)
(* or the agreement it is about, is what makes the order of the passes do. *)
(*                                                                         *)
(* A request sees the tables at three moments.  What it has collected is   *)
(* related to the blocks that were read when it began and to those read    *)
(* now, and stays so because the chain and the tables only ever grow.      *)
(***************************************************************************)
EXTENDS DexOrderList, TLAPS

OneNode == \A m, n \in Node : m = n

HeadsCurrent == \A n \in Node : head[n] = Len(chain)

\* What is assumed of the constants, as DexAssumption is a definition only.
Assumptions == ChainAssumption /\ DexAssumption

Fits(e) == e.amount <= MaxSize

\* The events of a kind in the blocks first..last.
Between(kind, first, last) ==
    {e \in Event : /\ e.kind = kind
                   /\ \E b \in Block : /\ first <= b /\ b <= last /\ b <= Len(chain)
                                       /\ e \in chain[b]}

\* The block up to which the events of pass k are read in this sync, and in all syncs.
ReadNow(k) == IF pass > k THEN To ELSE from - 1
Later(m, n) == IF m > n THEN m ELSE n
ReadEver(k) == Later(ReadNow(k), done)

\* The events of pass k: committed, read by now in all syncs, read by now in this sync,
\* and those the pass is about to read.
Kept(k) == Known(Kinds[k], done)
Seen(k) == Known(Kinds[k], ReadEver(k))
SeenNow(k) == Known(Kinds[k], ReadNow(k))
News(k) == Between(Kinds[k], from, To)

\* The rows of an order and of an agreement, as the events tell.
OrderShown(e, cancels) ==
    [order |-> OrderOf(e), token |-> e.token, account |-> e.account, isBuy |-> e.isBuy,
     amount |-> e.amount, cancelled |-> \E x \in cancels : OrderOf(x) = OrderOf(e)]

StatusShown(id, oks, ngs) ==
    IF \E s \in oks : AgreementOf(s) = id THEN "DONE"
    ELSE IF \E s \in ngs : AgreementOf(s) = id THEN "CANCELED" ELSE "PENDING"

AgreementShown(e, counterpart, oks, ngs) ==
    [id |-> AgreementOf(e), buyer |-> e.buyer, seller |-> e.seller, amount |-> e.amount,
     status |-> StatusShown(AgreementOf(e), oks, ngs), counterpart |-> counterpart]

\* The other side of the order, which does not change.
Counterpart(e) == IF IsBuy(OrderOf(e), Len(chain)) THEN e.seller ELSE e.buyer

AgreementsShown(agreements, oks, ngs) ==
    {AgreementShown(e, Counterpart(e), oks, ngs) : e \in {x \in agreements : Fits(x)}}

HasOrder(tables, e) == \E o \in tables.orders : o.order = OrderOf(e)
IsTables(t) == t = [orders |-> t.orders, agreements |-> t.agreements]

\* The chain and the events that count.
OnChain ==
    /\ HeadsCurrent /\ Exchange(chain)
    /\ \A r \in steady : /\ r \in Block \X Event /\ r[2].token \in listed
                         /\ r[1] <= Len(chain) /\ r[2] \in chain[r[1]]

\* The committed tables are what the events up to block done tell.
TablesRight ==
    /\ done <= Len(chain) /\ IsTables(rows)
    /\ \A o \in rows.orders : \E e \in Kept(1) : o = OrderShown(e, Kept(2) \union Kept(3))
    /\ \A r \in steady : r[2] \in Kept(1) /\ Fits(r[2]) => HasOrder(rows, r[2])
    /\ rows.agreements = AgreementsShown(Kept(4), Kept(5), Kept(6))

\* An order that is in the committed tables shows what any sync has read of it, another one
\* what this sync has read: a cancellation may have been read before the token was listed.
Cancels(e) == IF HasOrder(rows, e) THEN Seen(2) \union Seen(3)
              ELSE SeenNow(2) \union SeenNow(3)

\* A session is somewhere in a range of blocks; behind the last pass it is at its end.
SessionBounds ==
    /\ IsTables(sess)
    /\ from <= upto /\ done <= upto /\ upto <= Len(chain)
    /\ pass = 7 => To = upto

\* Its orders are what the passes so far tell, and none is missing.
OrdersRead ==
    /\ \A o \in sess.orders : \E e \in Seen(1) : o = OrderShown(e, Cancels(e))
    /\ \A o \in rows.orders : \E s \in sess.orders : s.order = o.order
    /\ \A r \in steady : r[2] \in Seen(1) /\ Fits(r[2]) => HasOrder(sess, r[2])

AgreementsRead == sess.agreements = AgreementsShown(Seen(4), Seen(5), Seen(6))

SessionRight == pass # 0 => SessionBounds /\ OrdersRead /\ AgreementsRead

DexInv == SyncTypeOK /\ pass >= 0 /\ OnChain /\ TablesRight /\ SessionRight

------------------------------------------------------------------------------
(* Types.                                                                    *)

\* The variables that are numbers, and the order of the passes.
LEMMA Numbers ==
    ASSUME Assumptions, SyncTypeOK
    PROVE  /\ MaxBlock \in Nat /\ ChunkSize \in Nat \ {0} /\ MaxFailures \in Nat
           /\ Len(Kinds) = 6 /\ DOMAIN Kinds = 1..6
           /\ latest \in 0..MaxBlock /\ done \in 0..MaxBlock /\ latest <= done
           /\ chain \in Seq(SUBSET Event) /\ Len(chain) \in 0..MaxBlock
           /\ from \in 0..MaxBlock + 1 /\ upto \in 0..MaxBlock /\ pass \in -1..7
           /\ started \in BOOLEAN /\ failures \in 0..MaxFailures
           /\ \A n \in Node : head[n] \in 0..MaxBlock /\ head[n] <= Len(chain)
<1>1. /\ MaxBlock \in Nat /\ ChunkSize \in Nat \ {0} /\ MaxFailures \in Nat
      /\ Len(Kinds) = 6 /\ DOMAIN Kinds = 1..6
  BY DEF Assumptions, ChainAssumption, DexAssumption
<1>2. Len(chain) \in Nat /\ Len(chain) <= MaxBlock
  BY DEF SyncTypeOK, ChainTypeOK
<1> QED BY <1>1, <1>2 DEF SyncTypeOK, ChainTypeOK, BlockNumber, Listed

\* The kinds of the passes.
LEMMA KindOfPass ==
    ASSUME Assumptions
    PROVE  /\ Kinds[1] = "NewOrder" /\ Kinds[2] = "CancelOrder" /\ Kinds[3] = "ForceCancelOrder"
           /\ Kinds[4] = "Agree" /\ Kinds[5] = "SettlementOK" /\ Kinds[6] = "SettlementNG"
           /\ DOMAIN Kinds = 1..6 /\ Len(Kinds) = 6
BY DEF Assumptions, DexAssumption

\* The end of a range is not behind the end of the sync, nor before the range.
LEMMA RangeEnd ==
    ASSUME Assumptions, SyncTypeOK
    PROVE  To \in Int /\ To <= upto /\ (from <= upto => from <= To) /\ To >= 0
BY Numbers DEF To

\* The environment keeps the types of its variables.
LEMMA ChainTyped ==
    ASSUME Assumptions, ChainTypeOK, ChainNext
    PROVE  ChainTypeOK'
<1> USE DEF ChainTypeOK, BlockNumber
<1>0. MaxBlock \in Nat /\ Contents \subseteq SUBSET Event /\ \A e \in Event : e.token \in Token
  BY DEF Assumptions, ChainAssumption
<1>1. CASE Mine
  <2>1. PICK block \in Contents, S \in (SUBSET Node) \ {{}} :
           /\ Len(chain) < MaxBlock
           /\ chain' = Append(chain, block)
           /\ head' = [n \in Node |-> IF n \in S THEN Len(chain) + 1 ELSE head[n]]
    BY <1>1 DEF Mine
  <2>2. Len(chain') = Len(chain) + 1 /\ chain' \in Seq(SUBSET Event)
    BY <1>0, <2>1
  <2>3. \A n \in Node : head'[n] \in BlockNumber /\ head'[n] <= Len(chain')
    BY <1>0, <2>1, <2>2
  <2> QED BY <1>0, <1>1, <2>1, <2>2, <2>3 DEF Mine
<1>2. CASE CatchUp
  BY <1>0, <1>2 DEF CatchUp
<1>3. CASE RegisterAdminToken \/ DeleteToken
  BY <1>0, <1>3 DEF RegisterAdminToken, DeleteToken
<1> QED BY <1>1, <1>2, <1>3 DEF ChainNext

\* What a pass does to everything but the tables of the session.
PassOver(k) ==
    /\ pass = k
    /\ \/ k < 6 /\ pass' = k + 1 /\ from' = from
       \/ k = 6 /\ To < upto /\ pass' = 1 /\ from' = To + 1
       \/ k = 6 /\ ~(To < upto) /\ pass' = 7 /\ from' = from
    /\ UNCHANGED <<chain, head, listed, rows, latest, started, targets, upto, failures, done,
                   steady>>

\* With one node all answers are the same, and they are whole.
LEMMA OneHead ==
    ASSUME Assumptions, HeadsCurrent
    PROVE  Heads = {Len(chain)}
<1>1. Node # {}
  BY DEF Assumptions, ChainAssumption
<1> QED BY <1>1 DEF Heads, HeadsCurrent

\* A pass reads all events of its kind in the range.
LEMMA PassReads ==
    ASSUME Assumptions, SyncTypeOK, HeadsCurrent, Sync
    PROVE  \/ PassOver(1) /\ sess' = SinkOnNewOrder(sess, News(1), Len(chain))
           \/ PassOver(2) /\ sess' = SinkOnCancelOrder(sess, News(2), Len(chain))
           \/ PassOver(3) /\ sess' = SinkOnCancelOrder(sess, News(3), Len(chain))
           \/ PassOver(4) /\ sess' = SinkOnAgree(sess, News(4), Len(chain))
           \/ PassOver(5) /\ sess' = Settle(sess, News(5), "DONE")
           \/ PassOver(6) /\ sess' = Settle(sess, News(6), "CANCELED")
<1>1. ASSUME NEW k \in 1..6, NEW kind, Kinds[k] = kind
      PROVE  {r[2] : r \in InRange(kind, Len(chain))} = News(k)
  <2> DEFINE R == InRange(kind, Len(chain))
  <2>1. \A r \in R : r[2] \in News(k)
    BY <1>1, Numbers, RangeEnd DEF InRange, News, Between, Block
  <2>2. ASSUME NEW e \in News(k) PROVE \E b \in Block : <<b, e>> \in R
    <3>1. e \in Event /\ e.kind = kind
      BY <1>1 DEF News, Between
    <3>2. PICK b \in Block : from <= b /\ b <= To /\ b <= Len(chain) /\ e \in chain[b]
      BY DEF News, Between
    <3>3. b \in from..To
      BY <3>2, Numbers, RangeEnd DEF Block
    <3> QED BY <3>1, <3>2, <3>3 DEF InRange
  <2> HIDE DEF R
  <2>3. \A e \in News(k) : \E r \in R : e = r[2]
    <3> TAKE e \in News(k)
    <3>1. PICK b \in Block : <<b, e>> \in R
      BY <2>2
    <3> QED BY <3>1
  <2> QED BY <2>1, <2>3 DEF R
<1>2. ASSUME NEW k \in 1..6, Reading(Kinds[k]),
             IF pass < Len(Kinds) THEN pass' = pass + 1 /\ UNCHANGED from
             ELSE IF To < upto THEN pass' = 1 /\ from' = To + 1
             ELSE pass' = Len(Kinds) + 1 /\ UNCHANGED from,
             UNCHANGED <<chainVars, rows, latest, started, targets, upto, failures, done, steady>>
      PROVE  PassOver(k)
  <2>1. pass = k
    BY <1>2, KindOfPass DEF Reading
  <2>2. Len(Kinds) = 6
    BY KindOfPass
  <2>3. UNCHANGED <<chain, head, listed, rows, latest, started, targets, upto, failures, done,
                    steady>>
    BY <1>2 DEF chainVars
  <2>4. \/ k < 6 /\ pass' = k + 1 /\ from' = from
        \/ k = 6 /\ To < upto /\ pass' = 1 /\ from' = To + 1
        \/ k = 6 /\ ~(To < upto) /\ pass' = 7 /\ from' = from
    BY <1>2, <2>1, <2>2
  <2> QED BY <2>1, <2>3, <2>4 DEF PassOver
<1>3. \A h \in Heads : h = Len(chain)
  BY OneHead
<1>4. CASE SyncNewOrder
  <2>1. PassOver(1)
    BY <1>2, <1>4, KindOfPass DEF SyncNewOrder, Read
  <2>2. \E h, g \in Heads :
           sess' = SinkOnNewOrder(sess, {r[2] : r \in InRange("NewOrder", h)}, g)
    BY <1>4 DEF SyncNewOrder, Read
  <2>3. {r[2] : r \in InRange("NewOrder", Len(chain))} = News(1)
    <3>1. 1 \in 1..6
      OBVIOUS
    <3> QED BY <1>1, <3>1, KindOfPass, Zenon
  <2>4. sess' = SinkOnNewOrder(sess, News(1), Len(chain))
    BY <1>3, <2>2, <2>3, Zenon
  <2> QED BY <2>1, <2>4
<1>5. CASE SyncCancelOrder
  <2>1. PassOver(2)
    BY <1>2, <1>5, KindOfPass DEF SyncCancelOrder, Read
  <2>2. \E h, g \in Heads :
           sess' = SinkOnCancelOrder(sess, {r[2] : r \in InRange("CancelOrder", h)}, g)
    BY <1>5 DEF SyncCancelOrder, Read
  <2>3. {r[2] : r \in InRange("CancelOrder", Len(chain))} = News(2)
    <3>1. 2 \in 1..6
      OBVIOUS
    <3> QED BY <1>1, <3>1, KindOfPass, Zenon
  <2>4. sess' = SinkOnCancelOrder(sess, News(2), Len(chain))
    BY <1>3, <2>2, <2>3, Zenon
  <2> QED BY <2>1, <2>4
<1>6. CASE SyncForceCancelOrder
  <2>1. PassOver(3)
    BY <1>2, <1>6, KindOfPass DEF SyncForceCancelOrder, Read
  <2>2. \E h, g \in Heads :
           sess' = SinkOnCancelOrder(sess, {r[2] : r \in InRange("ForceCancelOrder", h)}, g)
    BY <1>6 DEF SyncForceCancelOrder, Read, SinkOnForceCancelOrder
  <2>3. {r[2] : r \in InRange("ForceCancelOrder", Len(chain))} = News(3)
    <3>1. 3 \in 1..6
      OBVIOUS
    <3> QED BY <1>1, <3>1, KindOfPass, Zenon
  <2>4. sess' = SinkOnCancelOrder(sess, News(3), Len(chain))
    BY <1>3, <2>2, <2>3, Zenon
  <2> QED BY <2>1, <2>4
<1>7. CASE SyncAgree
  <2>1. PassOver(4)
    BY <1>2, <1>7, KindOfPass DEF SyncAgree, Read
  <2>2. \E h, g \in Heads :
           sess' = SinkOnAgree(sess, {r[2] : r \in InRange("Agree", h)}, g)
    BY <1>7 DEF SyncAgree, Read
  <2>3. {r[2] : r \in InRange("Agree", Len(chain))} = News(4)
    <3>1. 4 \in 1..6
      OBVIOUS
    <3> QED BY <1>1, <3>1, KindOfPass, Zenon
  <2>4. sess' = SinkOnAgree(sess, News(4), Len(chain))
    BY <1>3, <2>2, <2>3, Zenon
  <2> QED BY <2>1, <2>4
<1>8. CASE SyncSettlementOK
  <2>1. PassOver(5)
    BY <1>2, <1>8, KindOfPass DEF SyncSettlementOK, Read
  <2>2. \E h, g \in Heads :
           sess' = Settle(sess, {r[2] : r \in InRange("SettlementOK", h)}, "DONE")
    BY <1>8 DEF SyncSettlementOK, Read, SinkOnSettlementOK
  <2>3. {r[2] : r \in InRange("SettlementOK", Len(chain))} = News(5)
    <3>1. 5 \in 1..6
      OBVIOUS
    <3> QED BY <1>1, <3>1, KindOfPass, Zenon
  <2>4. sess' = Settle(sess, News(5), "DONE")
    BY <1>3, <2>2, <2>3, Zenon
  <2> QED BY <2>1, <2>4
<1>9. CASE SyncSettlementNG
  <2>1. PassOver(6)
    BY <1>2, <1>9, KindOfPass DEF SyncSettlementNG, Read
  <2>2. \E h, g \in Heads :
           sess' = Settle(sess, {r[2] : r \in InRange("SettlementNG", h)}, "CANCELED")
    BY <1>9 DEF SyncSettlementNG, Read, SinkOnSettlementNG
  <2>3. {r[2] : r \in InRange("SettlementNG", Len(chain))} = News(6)
    <3>1. 6 \in 1..6
      OBVIOUS
    <3> QED BY <1>1, <3>1, KindOfPass, Zenon
  <2>4. sess' = Settle(sess, News(6), "CANCELED")
    BY <1>3, <2>2, <2>3, Zenon
  <2> QED BY <2>1, <2>4
<1> QED BY <1>4, <1>5, <1>6, <1>7, <1>8, <1>9 DEF Sync

\* A sync begins with the block behind the last one committed, or with the first block.
Opening ==
    /\ pass = 0 /\ pass' = 1
    /\ from' \in {0, latest + 1} /\ from' <= upto' /\ upto' = Len(chain)
    /\ sess' = rows
    /\ UNCHANGED <<chain, head, listed, rows, latest, started, failures, done, steady>>
    /\ targets' \subseteq Token

\* So do both kinds of sync, for the block number has to differ from the last one.
LEMMA SyncOpens ==
    ASSUME Assumptions, SyncTypeOK, HeadsCurrent, done <= Len(chain), InitialSync \/ SyncNewLogs
    PROVE  Opening
<1>1. \A h \in Heads : h = Len(chain)
  BY OneHead
<1>2. CASE InitialSync
  BY <1>1, <1>2, Numbers DEF InitialSync, StartInitialSync, Open, Opening, chainVars
<1>3. CASE SyncNewLogs
  <2>1. 0 # Listed
    BY DEF Listed
  <2>2. /\ Open(latest + 1, Len(chain)) /\ Len(chain) # latest /\ pass = 0 /\ targets' = targets
    BY <1>1, <1>3, <2>1 DEF SyncNewLogs, StartSync
  <2> QED BY <2>2, Numbers DEF Open, Opening, chainVars, SyncTypeOK
<1> QED BY <1>2, <1>3

\* SyncTypeOK is inductive.
LEMMA TypesPreserved ==
    ASSUME Assumptions, SyncTypeOK, pass >= 0, HeadsCurrent, done <= Len(chain), [Next]_vars
    PROVE  SyncTypeOK' /\ pass' >= 0
<1>1. Len(Kinds) = 6
  BY KindOfPass
<1>2. ASSUME UNCHANGED <<chain, head, listed>> PROVE ChainTypeOK'
  BY <1>2 DEF SyncTypeOK, ChainTypeOK, BlockNumber
<1>3. CASE InitialSync \/ SyncNewLogs
  <2>1. Opening
    BY <1>3, SyncOpens
  <2>2. /\ latest' \in 0..MaxBlock /\ done' \in 0..MaxBlock /\ latest' <= done'
        /\ from' \in 0..MaxBlock + 1 /\ upto' \in 0..MaxBlock /\ pass' \in 0..7
        /\ started' \in BOOLEAN /\ failures' \in 0..MaxFailures /\ targets' \subseteq Token
    BY <2>1, Numbers DEF Opening
  <2>3. ChainTypeOK'
    BY <1>2, <2>1 DEF Opening
  <2>5. pass' \in Listed..Len(Kinds) + 1 /\ pass' >= 0
    BY <1>1, <2>2 DEF Listed
  <2> QED BY <2>2, <2>3, <2>5 DEF SyncTypeOK, BlockNumber
<1>4. CASE Sync
  <2>1. PICK k \in 1..6 : PassOver(k)
    BY <1>4, PassReads
  <2>2. from' \in 0..MaxBlock + 1 /\ pass' \in 0..7
    BY <2>1, Numbers, RangeEnd DEF PassOver
  <2>3. ChainTypeOK'
    BY <1>2, <2>1 DEF PassOver
  <2>4. UNCHANGED <<latest, done, started, upto, targets, failures>>
    BY <2>1 DEF PassOver
  <2>5. pass' \in Listed..Len(Kinds) + 1 /\ pass' >= 0
    BY <1>1, <2>2 DEF Listed
  <2> QED BY <2>2, <2>3, <2>4, <2>5 DEF SyncTypeOK, BlockNumber
<1>5. CASE Commit
  <2>1. done' \in 0..MaxBlock /\ latest' \in 0..MaxBlock /\ latest' <= done'
    BY <1>5, Numbers DEF Commit
  <2>2. ChainTypeOK'
    BY <1>2, <1>5 DEF Commit, chainVars
  <2> QED BY <1>1, <1>5, <2>1, <2>2 DEF Commit, SyncTypeOK, BlockNumber, Listed
<1>6. CASE Fail \/ Restart
  <2>1. ChainTypeOK'
    BY <1>2, <1>6 DEF Fail, Restart, chainVars
  <2>2. failures' \in 0..MaxFailures /\ latest' \in 0..MaxBlock /\ latest' <= done
    BY <1>6, Numbers DEF Fail, Restart
  <2>3. pass' \in Listed..Len(Kinds) + 1 /\ pass' >= 0
    BY <1>1, <1>6 DEF Fail, Restart, Listed
  <2>4. UNCHANGED <<done, from, upto, targets>> /\ started' \in BOOLEAN
    BY <1>6 DEF Fail, Restart, SyncTypeOK
  <2> QED BY <2>1, <2>2, <2>3, <2>4 DEF SyncTypeOK, BlockNumber
<1>7. CASE World
  <2>1. ChainTypeOK'
    BY <1>7, ChainTyped DEF World, SyncTypeOK
  <2>2. UNCHANGED syncVars
    BY <1>7 DEF World
  <2> QED BY <2>1, <2>2 DEF syncVars, SyncTypeOK, BlockNumber
<1>8. CASE UNCHANGED vars
  <2>1. ChainTypeOK'
    BY <1>2, <1>8 DEF vars, chainVars
  <2> QED BY <1>8, <2>1 DEF vars, syncVars, SyncTypeOK, BlockNumber
<1> QED BY <1>3, <1>4, <1>5, <1>6, <1>7, <1>8 DEF Next

------------------------------------------------------------------------------
(* What has been read.                                                       *)

\* Reading on from block m adds the events behind it.
LEMMA KnownTo ==
    ASSUME NEW kind, NEW first \in Int, NEW last \in Int, NEW m \in Int, NEW n \in Int,
           m >= first - 1, n >= last, m <= n, n = m \/ n = last
    PROVE  Known(kind, n) = Known(kind, m) \union Between(kind, first, last)
<1>1. ASSUME NEW e \in Known(kind, n)
      PROVE  e \in Known(kind, m) \union Between(kind, first, last)
  <2>1. PICK b \in Block : b <= n /\ b <= Len(chain) /\ e \in chain[b]
    BY DEF Known
  <2>2. b \in Int
    BY DEF Block
  <2>3. b <= m \/ (first <= b /\ b <= last)
    BY <2>1, <2>2
  <2> QED BY <2>1, <2>3 DEF Known, Between
<1>2. ASSUME NEW e \in Known(kind, m) \union Between(kind, first, last)
      PROVE  e \in Known(kind, n)
  <2>1. PICK b \in Block : (b <= m \/ b <= last) /\ b <= Len(chain) /\ e \in chain[b]
    BY DEF Known, Between
  <2>2. b \in Int
    BY DEF Block
  <2>3. b <= n
    BY <2>1, <2>2
  <2> QED BY <2>1, <2>3 DEF Known, Between
<1> QED BY <1>1, <1>2

\* Reading a range adds its events to what this sync has read ...
LEMMA RangeGrows ==
    ASSUME NEW kind, NEW first \in Int, NEW last \in Int, NEW before \in Int,
           before = first - 1, first <= last
    PROVE  Known(kind, last) = Known(kind, before) \union Between(kind, first, last)
<1>1. before <= last /\ before >= first - 1
  OBVIOUS
<1> QED BY <1>1, KnownTo

\* ... and to what any sync has read.
LEMMA KnownGrows ==
    ASSUME NEW kind, NEW first \in Int, NEW last \in Int, NEW d \in Int,
           NEW before \in Int, before = first - 1, first <= last
    PROVE  Known(kind, Later(last, d)) =
              Known(kind, Later(before, d)) \union Between(kind, first, last)
<1>1. Known(kind, last) = Known(kind, before) \union Between(kind, first, last)
  BY RangeGrows
<1>2. CASE before > d
  BY <1>1, <1>2 DEF Later
<1>3. CASE d >= before /\ last > d
  <2>1. d >= first - 1
    BY <1>3
  <2>2. Known(kind, last) = Known(kind, d) \union Between(kind, first, last)
    BY <1>3, <2>1, KnownTo
  <2> QED BY <1>3, <2>2 DEF Later
<1>4. CASE d >= last
  <2>1. d >= first - 1
    BY <1>4
  <2>2. Known(kind, d) = Known(kind, d) \union Between(kind, first, last)
    BY <1>4, <2>1, KnownTo
  <2> QED BY <1>4, <2>2 DEF Later
<1> QED BY <1>2, <1>3, <1>4

\* How far the passes are.
LEMMA PassAdvances ==
    ASSUME Assumptions, SyncTypeOK, from <= upto, NEW k \in 1..6, PassOver(k)
    PROVE  /\ ReadNow(k) = from - 1 /\ ReadNow(k)' = To
           /\ \A j \in 1..6 : j # k => ReadNow(j)' = ReadNow(j)
           /\ \A j \in 1..6 : j > k => ReadNow(j) = ReadNow(k)
           /\ from' <= upto' /\ (pass' = 7 => To' = upto')
<1>1. /\ pass = k /\ k \in Int /\ from \in Int /\ upto \in Int /\ To \in Int
      /\ To <= upto /\ from <= To
  BY Numbers, RangeEnd DEF PassOver
<1>2. upto' = upto /\ started' = started
  BY DEF PassOver
<1>3. CASE k < 6 /\ pass' = k + 1 /\ from' = from
  <2>1. To' = To
    BY <1>2, <1>3 DEF To
  <2> QED BY <1>1, <1>2, <1>3, <2>1 DEF ReadNow
<1>4. CASE k = 6 /\ To < upto /\ pass' = 1 /\ from' = To + 1
  BY <1>1, <1>2, <1>4 DEF ReadNow
<1>5. CASE k = 6 /\ ~(To < upto) /\ pass' = 7 /\ from' = from
  <2>1. To' = To
    BY <1>2, <1>5 DEF To
  <2> QED BY <1>1, <1>2, <1>5, <2>1 DEF ReadNow
<1> QED BY <1>3, <1>4, <1>5 DEF PassOver

\* What the blocks hold does not change while they are read.
LEMMA BlocksStay ==
    ASSUME chain' = chain
    PROVE  /\ \A kind, h : Known(kind, h)' = Known(kind, h)
           /\ \A e : Counterpart(e)' = Counterpart(e)
BY DEF Known, Counterpart, IsBuy

\* A pass adds its news to what is read, and to nothing else.
LEMMA PassAdds ==
    ASSUME Assumptions, SyncTypeOK, from <= upto, NEW k \in 1..6, PassOver(k)
    PROVE  /\ Seen(k)' = Seen(k) \union News(k) /\ SeenNow(k)' = SeenNow(k) \union News(k)
           /\ \A j \in 1..6 : j # k => Seen(j)' = Seen(j) /\ SeenNow(j)' = SeenNow(j)
           /\ \A j \in 1..6 : j > k => ReadEver(j) = ReadEver(k)
<1>1. chain' = chain /\ done' = done
  BY DEF PassOver
<1>2. /\ from \in Int /\ To \in Int /\ done \in Int /\ from <= To
      /\ \A j \in 1..6 : ReadNow(j) \in Int
  BY Numbers, RangeEnd DEF ReadNow
<1>3. /\ ReadNow(k) = from - 1 /\ ReadNow(k)' = To
      /\ \A j \in 1..6 : j # k => ReadNow(j)' = ReadNow(j)
      /\ \A j \in 1..6 : j > k => ReadNow(j) = ReadNow(k)
  BY PassAdvances
<1>4. /\ Known(Kinds[k], To) = Known(Kinds[k], ReadNow(k)) \union News(k)
      /\ Known(Kinds[k], Later(To, done)) = Known(Kinds[k], Later(ReadNow(k), done)) \union News(k)
  <2>1. Known(Kinds[k], To) = Known(Kinds[k], ReadNow(k)) \union Between(Kinds[k], from, To)
    BY <1>2, <1>3, RangeGrows
  <2>2. Known(Kinds[k], Later(To, done)) =
           Known(Kinds[k], Later(ReadNow(k), done)) \union Between(Kinds[k], from, To)
    BY <1>2, <1>3, KnownGrows
  <2> QED BY <2>1, <2>2 DEF News
<1>5. Seen(k)' = Seen(k) \union News(k) /\ SeenNow(k)' = SeenNow(k) \union News(k)
  <2>1. SeenNow(k)' = Known(Kinds[k], To)
    BY <1>1, <1>3 DEF SeenNow, Known
  <2>2. Seen(k)' = Known(Kinds[k], Later(To, done))
    BY <1>1, <1>3 DEF Seen, ReadEver, Known, Later
  <2> QED BY <1>3, <1>4, <2>1, <2>2 DEF Seen, SeenNow, ReadEver
<1>6. ASSUME NEW j \in 1..6, j # k PROVE Seen(j)' = Seen(j) /\ SeenNow(j)' = SeenNow(j)
  <2>1. ReadNow(j)' = ReadNow(j) /\ ReadEver(j)' = ReadEver(j)
    BY <1>1, <1>3, <1>6 DEF ReadEver
  <2> QED BY <1>1, <2>1 DEF Seen, SeenNow, Known
<1>7. \A j \in 1..6 : j > k => ReadEver(j) = ReadEver(k)
  BY <1>3 DEF ReadEver
<1> QED BY <1>5, <1>6, <1>7

------------------------------------------------------------------------------
(* What the exchange guarantees.                                             *)

\* Events that are read are events of the kind.
LEMMA KnownEvents ==
    \A kind, h : \A e \in Known(kind, h) : e \in Event /\ e.kind = kind
BY DEF Known

\* An event is in one block.
LEMMA HappensOnce ==
    ASSUME Assumptions, SyncTypeOK, Exchange(chain), NEW e \in Event, e.kind # "Register",
           NEW b \in Block, NEW c \in Block, b <= Len(chain), c <= Len(chain),
           e \in chain[b], e \in chain[c]
    PROVE  b = c
<1> DEFINE r == <<b, e>>
<1>1. r \in Block \X Event /\ r[1] = b /\ r[2] = e
  OBVIOUS
<1>2. c \in DOMAIN chain
  BY Numbers DEF Block
<1> HIDE DEF r
<1>3. r \in {x \in Block \X Event : x[1] <= Len(chain) /\ x[2] \in chain[x[1]]}
  BY <1>1
<1>4. \A d \in DOMAIN chain : r[2].kind # "Register" /\ r[2] \in chain[d] => d = r[1]
  BY <1>3 DEF Exchange
<1> QED BY <1>1, <1>2, <1>4

\* An order is on the chain before what is said about it, an agreement before its settlement,
\* and of settlements there is one.
LEMMA ExchangeOrder ==
    ASSUME Assumptions, SyncTypeOK, Exchange(chain), NEW h \in Int
    PROVE  /\ \A kind \in {"CancelOrder", "ForceCancelOrder", "Agree"} :
                 \A x \in Known(kind, h) :
                    \E o \in Known("NewOrder", h) : OrderOf(o) = OrderOf(x)
           /\ \A kind \in {"SettlementOK", "SettlementNG"} :
                 \A s \in Known(kind, h) :
                    \E a \in Known("Agree", h) : AgreementOf(a) = AgreementOf(s)
           /\ \A s \in Known("SettlementNG", h), n \in Int :
                 \A t \in Known("SettlementOK", n) : AgreementOf(t) # AgreementOf(s)
<1>0. chain \in Seq(SUBSET Event) /\ Len(chain) \in 0..MaxBlock /\ MaxBlock \in Nat
  BY Numbers
<1>1. ASSUME NEW kind \in {"CancelOrder", "ForceCancelOrder", "Agree", "SettlementOK",
                           "SettlementNG"},
             NEW x \in Known(kind, h), NEW b \in Block, b <= h, b <= Len(chain), x \in chain[b]
      PROVE  /\ \E c \in 1..b : \E o \in chain[c] : o.kind = "NewOrder" /\ OrderOf(o) = OrderOf(x)
             /\ kind \in {"SettlementOK", "SettlementNG"} =>
                   \E c \in 1..b : \E a \in chain[c] :
                      a.kind = "Agree" /\ AgreementOf(a) = AgreementOf(x)
             /\ kind = "SettlementNG" =>
                   \A c \in DOMAIN chain : \A s \in chain[c] :
                      s.kind = "SettlementOK" => AgreementOf(s) # AgreementOf(x)
  <2> DEFINE r == <<b, x>>
  <2>1. x \in Event /\ x.kind = kind
    BY KnownEvents
  <2>2. r \in Block \X Event /\ r[1] = b /\ r[2] = x
    BY <2>1
  <2> HIDE DEF r
  <2>3. r \in {y \in Block \X Event : y[1] <= Len(chain) /\ y[2] \in chain[y[1]]}
    BY <1>1, <2>2
  <2>4. /\ x.kind \notin {"Register", "NewOrder"} =>
              \E c \in 1..b : \E o \in chain[c] : o.kind = "NewOrder" /\ OrderOf(o) = OrderOf(x)
        /\ x.kind \in {"SettlementOK", "SettlementNG"} =>
              \E c \in 1..b : \E a \in chain[c] :
                 a.kind = "Agree" /\ AgreementOf(a) = AgreementOf(x)
        /\ x.kind = "SettlementNG" =>
              \A c \in DOMAIN chain : \A s \in chain[c] :
                 s.kind = "SettlementOK" => AgreementOf(s) # AgreementOf(x)
    BY <2>2, <2>3 DEF Exchange
  <2> QED BY <2>1, <2>4
<1>2. ASSUME NEW kind, NEW n \in Int, NEW b \in Block, b <= n, b <= Len(chain), NEW c \in 1..b,
             NEW o \in chain[c], o.kind = kind
      PROVE  o \in Known(kind, n)
  <2>1. b \in Int /\ c \in Block /\ c <= n /\ c <= Len(chain)
    BY <1>0, <1>2 DEF Block
  <2>2. o \in Event
    BY <1>0, <2>1 DEF Block
  <2> QED BY <1>2, <2>1, <2>2 DEF Known
<1>3. ASSUME NEW kind \in {"CancelOrder", "ForceCancelOrder", "Agree"},
             NEW x \in Known(kind, h)
      PROVE  \E o \in Known("NewOrder", h) : OrderOf(o) = OrderOf(x)
  <2>1. PICK b \in Block : b <= h /\ b <= Len(chain) /\ x \in chain[b]
    BY DEF Known
  <2>2. PICK c \in 1..b : \E o \in chain[c] : o.kind = "NewOrder" /\ OrderOf(o) = OrderOf(x)
    BY <1>1, <2>1
  <2> QED BY <1>2, <1>3, <2>1, <2>2
<1>4. ASSUME NEW kind \in {"SettlementOK", "SettlementNG"}, NEW s \in Known(kind, h)
      PROVE  \E a \in Known("Agree", h) : AgreementOf(a) = AgreementOf(s)
  <2>1. PICK b \in Block : b <= h /\ b <= Len(chain) /\ s \in chain[b]
    BY DEF Known
  <2>2. PICK c \in 1..b : \E a \in chain[c] : a.kind = "Agree" /\ AgreementOf(a) = AgreementOf(s)
    BY <1>1, <2>1
  <2> QED BY <1>2, <1>4, <2>1, <2>2
<1>5. ASSUME NEW s \in Known("SettlementNG", h), NEW n \in Int, NEW t \in Known("SettlementOK", n)
      PROVE  AgreementOf(t) # AgreementOf(s)
  <2>1. PICK b \in Block : b <= h /\ b <= Len(chain) /\ s \in chain[b]
    BY DEF Known
  <2>2. PICK c \in Block : c <= n /\ c <= Len(chain) /\ t \in chain[c] /\ t.kind = "SettlementOK"
    BY DEF Known
  <2>3. c \in DOMAIN chain
    BY <1>0, <2>2 DEF Block
  <2> QED BY <1>1, <2>1, <2>2, <2>3
<1> QED BY <1>3, <1>4, <1>5

\* What a pass is about to read has not been read.
LEMMA NewsAreNew ==
    ASSUME Assumptions, SyncTypeOK, Exchange(chain), NEW k \in 1..6, NEW e \in News(k),
           NEW n \in Int, n = from - 1
    PROVE  e \notin Known(Kinds[k], n)
<1>1. e \in Event /\ e.kind = Kinds[k] /\ e.kind # "Register"
  BY KindOfPass DEF News, Between
<1>2. PICK b \in Block : from <= b /\ b <= Len(chain) /\ e \in chain[b]
  BY DEF News, Between
<1>3. SUFFICES ASSUME e \in Known(Kinds[k], n) PROVE FALSE
  OBVIOUS
<1>4. PICK c \in Block : c <= n /\ c <= Len(chain) /\ e \in chain[c]
  BY <1>3 DEF Known
<1>5. b = c
  BY <1>1, <1>2, <1>4, HappensOnce
<1> QED BY <1>2, <1>4, <1>5, Numbers DEF Block

\* The number of an order or of an agreement is that of one event.
LEMMA NumbersAreUnique ==
    ASSUME Assumptions
    PROVE  /\ \A h, i : \A e \in Known("NewOrder", h), f \in Known("NewOrder", i) :
                 OrderOf(e) = OrderOf(f) => e = f
           /\ \A h, i : \A e \in Known("Agree", h), f \in Known("Agree", i) :
                 AgreementOf(e) = AgreementOf(f) => e = f
BY DEF Assumptions, DexAssumption, Known

\* The news of a pass are on the chain.
LEMMA NewsAreKnown ==
    ASSUME NEW k \in 1..6
    PROVE  News(k) \subseteq Known(Kinds[k], To)
BY DEF News, Between, Known

\* An order that is about to be read has not been cancelled in the blocks before.
LEMMA NewOrdersNotCancelled ==
    ASSUME Assumptions, SyncTypeOK, Exchange(chain), ReadNow(2) = from - 1, ReadNow(3) = from - 1,
           NEW e \in News(1), NEW x \in SeenNow(2) \union SeenNow(3)
    PROVE  OrderOf(x) # OrderOf(e)
<1> DEFINE n == ReadNow(2)
<1>1. n \in Int /\ n = from - 1
  BY Numbers
<1>2. x \in Known("CancelOrder", n) \union Known("ForceCancelOrder", n)
  BY KindOfPass DEF SeenNow
<1> HIDE DEF n
<1>3. PICK o \in Known("NewOrder", n) : OrderOf(o) = OrderOf(x)
  BY <1>1, <1>2, ExchangeOrder
<1>4. e \notin Known("NewOrder", n)
  BY <1>1, NewsAreNew, KindOfPass
<1>5. e \in Known("NewOrder", To)
  BY NewsAreKnown, KindOfPass
<1> QED BY <1>3, <1>4, <1>5, NumbersAreUnique

\* An agreement that has not been read is not settled by what has been read.
LEMMA NewAgreementsNotSettled ==
    ASSUME Assumptions, SyncTypeOK, Exchange(chain), ReadEver(5) = ReadEver(4),
           ReadEver(6) = ReadEver(4), NEW e \in News(4), e \notin Seen(4),
           NEW s \in Seen(5) \union Seen(6)
    PROVE  AgreementOf(s) # AgreementOf(e)
<1> DEFINE n == ReadEver(4)
<1>1. n \in Int
  BY Numbers, RangeEnd DEF ReadEver, ReadNow, Later
<1>2. s \in Known("SettlementOK", n) \union Known("SettlementNG", n)
  BY KindOfPass DEF Seen
<1>3. e \notin Known("Agree", n)
  BY KindOfPass DEF Seen
<1> HIDE DEF n
<1>4. PICK a \in Known("Agree", n) : AgreementOf(a) = AgreementOf(s)
  BY <1>1, <1>2, ExchangeOrder
<1>5. e \in Known("Agree", To)
  BY NewsAreKnown, KindOfPass
<1> QED BY <1>3, <1>4, <1>5, NumbersAreUnique

\* An agreement that is cancelled has not been settled.
LEMMA CanceledNotDone ==
    ASSUME Assumptions, SyncTypeOK, Exchange(chain), NEW s \in News(6), NEW t \in Seen(5)
    PROVE  AgreementOf(t) # AgreementOf(s)
<1>1. To \in Int /\ ReadEver(5) \in Int
  BY Numbers, RangeEnd DEF ReadEver, ReadNow, Later
<1>2. s \in Known("SettlementNG", To)
  BY NewsAreKnown, KindOfPass
<1>3. t \in Known("SettlementOK", ReadEver(5))
  BY KindOfPass DEF Seen
<1> QED BY <1>1, <1>2, <1>3, ExchangeOrder

------------------------------------------------------------------------------
(* The tables of the session.                                                *)

\* An order shows the cancellations that are added.
LEMMA OrderShownMore ==
    ASSUME NEW e, NEW C, NEW N
    PROVE  /\ OrderShown(e, C).order = OrderOf(e)
           /\ OrderShown(e, C \union N) =
                 IF \E x \in N : OrderOf(x) = OrderOf(e)
                 THEN [OrderShown(e, C) EXCEPT !.cancelled = TRUE] ELSE OrderShown(e, C)
BY DEF OrderShown

\* An agreement shows its number ...
LEMMA AgreementNumber ==
    \A e, c, O, G : AgreementShown(e, c, O, G).id = AgreementOf(e)
BY DEF AgreementShown

\* ... and the settlements that are added, a cancellation unless it is done.
LEMMA AgreementDone ==
    ASSUME NEW e, NEW c, NEW O, NEW G, NEW N
    PROVE  AgreementShown(e, c, O \union N, G) =
              IF \E x \in N : AgreementOf(x) = AgreementOf(e)
              THEN [AgreementShown(e, c, O, G) EXCEPT !.status = "DONE"]
              ELSE AgreementShown(e, c, O, G)
<1>1. StatusShown(AgreementOf(e), O \union N, G) =
         IF \E x \in N : AgreementOf(x) = AgreementOf(e) THEN "DONE"
         ELSE StatusShown(AgreementOf(e), O, G)
  BY DEF StatusShown
<1> QED BY <1>1 DEF AgreementShown

\* The same of cancelled settlements.
LEMMA AgreementCancelled ==
    ASSUME NEW e, NEW c, NEW O, NEW G, NEW N, \A x \in N, s \in O : AgreementOf(s) # AgreementOf(x)
    PROVE  AgreementShown(e, c, O, G \union N) =
              IF \E x \in N : AgreementOf(x) = AgreementOf(e)
              THEN [AgreementShown(e, c, O, G) EXCEPT !.status = "CANCELED"]
              ELSE AgreementShown(e, c, O, G)
<1>1. StatusShown(AgreementOf(e), O, G \union N) =
         IF \E x \in N : AgreementOf(x) = AgreementOf(e) THEN "CANCELED"
         ELSE StatusShown(AgreementOf(e), O, G)
  BY DEF StatusShown
<1> QED BY <1>1 DEF AgreementShown

\* A pass leaves the other table of the session alone.
LEMMA OrdersUntouched ==
    ASSUME Assumptions, SyncTypeOK, from <= upto, NEW k \in 4..6, PassOver(k), OrdersRead,
           sess'.orders = sess.orders
    PROVE  OrdersRead'
<1>1. /\ Seen(1)' = Seen(1) /\ Seen(2)' = Seen(2) /\ Seen(3)' = Seen(3)
      /\ SeenNow(2)' = SeenNow(2) /\ SeenNow(3)' = SeenNow(3)
  BY PassAdds
<1>2. rows' = rows /\ steady' = steady
  BY DEF PassOver
<1>3. \A e : Cancels(e)' = Cancels(e)
  BY <1>1, <1>2 DEF Cancels, HasOrder
<1>4. \A e : HasOrder(sess, e)' = HasOrder(sess, e)
  BY DEF HasOrder
<1> QED BY <1>1, <1>2, <1>3, <1>4 DEF OrdersRead

\* So do the first three.
LEMMA AgreementsUntouched ==
    ASSUME Assumptions, SyncTypeOK, from <= upto, NEW k \in 1..3, PassOver(k), AgreementsRead,
           sess'.agreements = sess.agreements
    PROVE  AgreementsRead'
<1>1. Seen(4)' = Seen(4) /\ Seen(5)' = Seen(5) /\ Seen(6)' = Seen(6)
  BY PassAdds
<1>2. \A e : Counterpart(e)' = Counterpart(e)
  BY BlocksStay DEF PassOver
<1> QED BY <1>1, <1>2 DEF AgreementsRead, AgreementsShown

\* What is so between two passes.
BetweenPasses ==
    /\ SyncTypeOK /\ OnChain /\ TablesRight
    /\ SessionBounds /\ OrdersRead /\ AgreementsRead

\* New orders of listed tokens are added, with no cancellation yet.
LEMMA NewOrdersRead ==
    ASSUME Assumptions, BetweenPasses, PassOver(1), sess' = SinkOnNewOrder(sess, News(1), Len(chain))
    PROVE  IsTables(sess') /\ OrdersRead' /\ sess'.agreements = sess.agreements
<1> DEFINE New == {x \in News(1) : /\ x.amount <= MaxSize /\ x.token \in listed
                                   /\ \A o \in sess.orders : o.order # OrderOf(x)}
<1>0. SyncTypeOK /\ Exchange(chain) /\ from <= upto /\ IsTables(sess) /\ OrdersRead
  BY DEF BetweenPasses, OnChain, SessionBounds
<1>1. sess' = [orders |-> sess.orders \union {OrderRow(e) : e \in New},
               agreements |-> sess.agreements]
  BY <1>0 DEF SinkOnNewOrder, IsTables
<1> HIDE DEF New
<1>2. rows' = rows /\ steady' = steady /\ pass = 1
  BY DEF PassOver
<1>3. /\ Seen(1)' = Seen(1) \union News(1)
      /\ Seen(2)' = Seen(2) /\ SeenNow(2)' = SeenNow(2)
      /\ Seen(3)' = Seen(3) /\ SeenNow(3)' = SeenNow(3)
  BY <1>0, PassAdds
<1>4. \A e : Cancels(e)' = Cancels(e)
  BY <1>2, <1>3 DEF Cancels, HasOrder
<1>5. ASSUME NEW e \in New PROVE OrderRow(e) = OrderShown(e, Cancels(e)) /\ e \in News(1)
  <2>1. e \in News(1) /\ ~HasOrder(sess, e)
    BY DEF New, HasOrder
  <2>2. ~HasOrder(rows, e)
    BY <1>0, <2>1 DEF HasOrder, OrdersRead
  <2>3. Cancels(e) = SeenNow(2) \union SeenNow(3)
    BY <2>2 DEF Cancels
  <2>4. ReadNow(2) = from - 1 /\ ReadNow(3) = from - 1
    BY <1>2 DEF ReadNow
  <2>5. \A x \in Cancels(e) : OrderOf(x) # OrderOf(e)
    BY <1>0, <2>1, <2>3, <2>4, NewOrdersNotCancelled
  <2> QED BY <2>1, <2>5 DEF OrderRow, OrderShown
<1>6. ASSUME NEW o \in sess'.orders
      PROVE  \E e \in Seen(1) \union News(1) : o = OrderShown(e, Cancels(e))
  BY <1>0, <1>1, <1>5 DEF OrdersRead
<1>7. \A o \in rows.orders : \E s \in sess'.orders : s.order = o.order
  BY <1>0, <1>1 DEF OrdersRead
<1>8. ASSUME NEW r \in steady, r[2] \in Seen(1) \union News(1), Fits(r[2])
      PROVE  HasOrder(sess', r[2])
  <2>1. CASE r[2] \in New
    <3>1. OrderRow(r[2]).order = OrderOf(r[2])
      BY DEF OrderRow
    <3> QED BY <1>1, <2>1, <3>1 DEF HasOrder
  <2>2. CASE r[2] \notin New
    <3>1. r[2].token \in listed
      BY DEF BetweenPasses, OnChain
    <3>2. HasOrder(sess, r[2])
      BY <1>0, <1>8, <2>2, <3>1 DEF New, HasOrder, OrdersRead, Fits
    <3> QED BY <1>1, <3>2 DEF HasOrder
  <2> QED BY <2>1, <2>2
<1>9. OrdersRead'
  BY <1>2, <1>3, <1>4, <1>6, <1>7, <1>8 DEF OrdersRead, HasOrder
<1> QED BY <1>1, <1>9 DEF IsTables

\* Cancelled orders show it.
LEMMA CancellationsRead ==
    ASSUME Assumptions, BetweenPasses, NEW k \in 2..3, PassOver(k),
           sess' = SinkOnCancelOrder(sess, News(k), Len(chain))
    PROVE  IsTables(sess') /\ OrdersRead' /\ sess'.agreements = sess.agreements
<1> DEFINE Marked(o) == IF \E e \in News(k) : OrderOf(e) = o.order
                        THEN [o EXCEPT !.cancelled = TRUE] ELSE o
<1>0. SyncTypeOK /\ from <= upto /\ IsTables(sess) /\ OrdersRead
  BY DEF BetweenPasses, SessionBounds
<1>1. sess' = [orders |-> {Marked(o) : o \in sess.orders}, agreements |-> sess.agreements]
  BY <1>0 DEF SinkOnCancelOrder, IsTables
<1>2. rows' = rows /\ steady' = steady
  BY DEF PassOver
<1>3. /\ Seen(1)' = Seen(1)
      /\ Seen(k)' = Seen(k) \union News(k) /\ SeenNow(k)' = SeenNow(k) \union News(k)
      /\ \A j \in 2..3 : j # k => Seen(j)' = Seen(j) /\ SeenNow(j)' = SeenNow(j)
  BY <1>0, PassAdds
<1>4. ASSUME NEW e PROVE Cancels(e)' = Cancels(e) \union News(k)
  <2>1. HasOrder(rows, e)' = HasOrder(rows, e)
    BY <1>2 DEF HasOrder
  <2>2. CASE k = 2
    BY <1>3, <2>1, <2>2 DEF Cancels
  <2>3. CASE k = 3
    BY <1>3, <2>1, <2>3 DEF Cancels
  <2> QED BY <2>2, <2>3
<1>5. ASSUME NEW o \in sess.orders
      PROVE  /\ Marked(o).order = o.order
             /\ \E e \in Seen(1) : Marked(o) = OrderShown(e, Cancels(e) \union News(k))
  <2>1. PICK e \in Seen(1) : o = OrderShown(e, Cancels(e))
    BY <1>0 DEF OrdersRead
  <2>2. /\ o.order = OrderOf(e)
        /\ OrderShown(e, Cancels(e) \union News(k)).order = OrderOf(e)
    BY <2>1, OrderShownMore
  <2>3. Marked(o) = OrderShown(e, Cancels(e) \union News(k))
    BY <2>1, <2>2, OrderShownMore
  <2> QED BY <2>2, <2>3
<1> HIDE DEF Marked
<1>6. \A o \in sess'.orders : \E e \in Seen(1) : o = OrderShown(e, Cancels(e) \union News(k))
  BY <1>1, <1>5
<1>7. \A o \in sess.orders : \E s \in sess'.orders : s.order = o.order
  BY <1>1, <1>5
<1>8. \A o \in rows.orders : \E s \in sess'.orders : s.order = o.order
  BY <1>0, <1>7 DEF OrdersRead
<1>9. \A r \in steady : r[2] \in Seen(1) /\ Fits(r[2]) => HasOrder(sess', r[2])
  BY <1>0, <1>7 DEF OrdersRead, HasOrder
<1>10. OrdersRead'
  BY <1>2, <1>3, <1>4, <1>6, <1>8, <1>9 DEF OrdersRead, HasOrder
<1> QED BY <1>1, <1>10 DEF IsTables

\* New agreements are added, with no settlement yet.
LEMMA NewAgreementsRead ==
    ASSUME Assumptions, BetweenPasses, PassOver(4), sess' = SinkOnAgree(sess, News(4), Len(chain))
    PROVE  IsTables(sess') /\ AgreementsRead' /\ sess'.orders = sess.orders
<1> DEFINE New == {x \in News(4) : /\ x.amount <= MaxSize
                                   /\ \A a \in sess.agreements : a.id # AgreementOf(x)}
           Shown(e) == AgreementShown(e, Counterpart(e), Seen(5), Seen(6))
<1>0. /\ SyncTypeOK /\ Exchange(chain) /\ from <= upto /\ IsTables(sess)
      /\ sess.agreements = {Shown(e) : e \in {x \in Seen(4) : Fits(x)}}
  BY DEF BetweenPasses, OnChain, SessionBounds, AgreementsRead, AgreementsShown
<1>1. sess' = [orders |-> sess.orders,
               agreements |-> sess.agreements \union {AgreementRow(e, Len(chain)) : e \in New}]
  BY <1>0 DEF SinkOnAgree, IsTables
<1>2. /\ Seen(4)' = Seen(4) \union News(4) /\ Seen(5)' = Seen(5) /\ Seen(6)' = Seen(6)
      /\ ReadEver(5) = ReadEver(4) /\ ReadEver(6) = ReadEver(4)
  BY <1>0, PassAdds
<1>3. \A e : Counterpart(e)' = Counterpart(e)
  BY BlocksStay DEF PassOver
<1>4. \A e : Shown(e).id = AgreementOf(e)
  BY AgreementNumber
<1>5. ASSUME NEW e \in New
      PROVE  /\ e \in News(4) /\ Fits(e) /\ e \notin Seen(4)
             /\ AgreementRow(e, Len(chain)) = Shown(e)
  <2>1. e \in News(4) /\ Fits(e)
    BY DEF Fits
  <2>2. e \notin Seen(4)
    <3>1. SUFFICES ASSUME e \in Seen(4) PROVE FALSE
      OBVIOUS
    <3>2. Shown(e) \in sess.agreements
      BY <1>0, <2>1, <3>1
    <3> QED BY <1>4, <3>2
  <2>3. \A s \in Seen(5) \union Seen(6) : AgreementOf(s) # AgreementOf(e)
    BY <1>0, <1>2, <2>1, <2>2, NewAgreementsNotSettled
  <2>4. StatusShown(AgreementOf(e), Seen(5), Seen(6)) = "PENDING"
    BY <2>3 DEF StatusShown
  <2> QED BY <2>1, <2>2, <2>4 DEF AgreementRow, AgreementShown, Counterpart
<1>6. ASSUME NEW e \in News(4), Fits(e), e \notin New PROVE e \in Seen(4)
  <2>1. PICK a \in sess.agreements : a.id = AgreementOf(e)
    BY <1>6 DEF Fits
  <2>2. PICK f \in Seen(4) : a = Shown(f)
    BY <1>0
  <2>3. AgreementOf(f) = AgreementOf(e)
    BY <1>4, <2>1, <2>2
  <2>4. f \in Known("Agree", ReadEver(4)) /\ e \in Known("Agree", To)
    BY <2>2, KindOfPass, NewsAreKnown DEF Seen
  <2>5. f = e
    BY <2>3, <2>4, NumbersAreUnique
  <2> QED BY <2>2, <2>5
<1> HIDE DEF New, Shown
<1>7. sess'.agreements = {Shown(e) : e \in {x \in Seen(4) \union News(4) : Fits(x)}}
  <2>1. \A a \in sess'.agreements : \E e \in {x \in Seen(4) \union News(4) : Fits(x)} : a = Shown(e)
    BY <1>0, <1>1, <1>5
  <2>2. \A e \in {x \in Seen(4) \union News(4) : Fits(x)} : Shown(e) \in sess'.agreements
    BY <1>0, <1>1, <1>5, <1>6
  <2> QED BY <2>1, <2>2
<1>8. AgreementsRead'
  BY <1>2, <1>3, <1>7 DEF AgreementsRead, AgreementsShown, Shown
<1> QED BY <1>1, <1>8 DEF IsTables

\* Settled agreements show it.
LEMMA SettlementsRead ==
    ASSUME Assumptions, BetweenPasses, NEW k \in 5..6, PassOver(k),
           sess' = Settle(sess, News(k), IF k = 5 THEN "DONE" ELSE "CANCELED")
    PROVE  IsTables(sess') /\ AgreementsRead' /\ sess'.orders = sess.orders
<1> DEFINE status == IF k = 5 THEN "DONE" ELSE "CANCELED"
           Marked(a) == IF \E e \in News(k) : AgreementOf(e) = a.id
                        THEN [a EXCEPT !.status = status] ELSE a
           Shown(e) == AgreementShown(e, Counterpart(e), Seen(5), Seen(6))
           Next5 == IF k = 5 THEN Seen(5) \union News(5) ELSE Seen(5)
           Next6 == IF k = 6 THEN Seen(6) \union News(6) ELSE Seen(6)
           ShownNext(e) == AgreementShown(e, Counterpart(e), Next5, Next6)
           Fit == {x \in Seen(4) : Fits(x)}
<1>0. /\ SyncTypeOK /\ Exchange(chain) /\ from <= upto /\ IsTables(sess)
      /\ sess.agreements = {Shown(e) : e \in Fit}
  BY DEF BetweenPasses, OnChain, SessionBounds, AgreementsRead, AgreementsShown
<1>1. sess' = [orders |-> sess.orders, agreements |-> {Marked(a) : a \in sess.agreements}]
  BY <1>0 DEF Settle, IsTables
<1>2. Seen(4)' = Seen(4) /\ Seen(5)' = Next5 /\ Seen(6)' = Next6
  BY <1>0, PassAdds
<1>3. \A e : Counterpart(e)' = Counterpart(e)
  BY BlocksStay DEF PassOver
<1>4. ASSUME NEW e PROVE Marked(Shown(e)) = ShownNext(e)
  <2>1. Shown(e).id = AgreementOf(e)
    BY AgreementNumber
  <2>2. CASE k = 5
    <3>1. ShownNext(e) = AgreementShown(e, Counterpart(e), Seen(5) \union News(5), Seen(6))
      BY <2>2
    <3>2. AgreementShown(e, Counterpart(e), Seen(5) \union News(5), Seen(6)) =
             IF \E x \in News(5) : AgreementOf(x) = AgreementOf(e)
             THEN [AgreementShown(e, Counterpart(e), Seen(5), Seen(6)) EXCEPT !.status = "DONE"]
             ELSE AgreementShown(e, Counterpart(e), Seen(5), Seen(6))
      BY AgreementDone
    <3> QED BY <2>1, <2>2, <3>1, <3>2
  <2>3. CASE k = 6
    <3>1. ShownNext(e) = AgreementShown(e, Counterpart(e), Seen(5), Seen(6) \union News(6))
      BY <2>3
    <3>2. \A x \in News(6), s \in Seen(5) : AgreementOf(s) # AgreementOf(x)
      BY <1>0, CanceledNotDone
    <3>3. AgreementShown(e, Counterpart(e), Seen(5), Seen(6) \union News(6)) =
             IF \E x \in News(6) : AgreementOf(x) = AgreementOf(e)
             THEN [AgreementShown(e, Counterpart(e), Seen(5), Seen(6))
                     EXCEPT !.status = "CANCELED"]
             ELSE AgreementShown(e, Counterpart(e), Seen(5), Seen(6))
      BY <3>2, AgreementCancelled
    <3> QED BY <2>1, <2>3, <3>1, <3>3
  <2> QED BY <2>2, <2>3
<1>5. AgreementsRead' <=> sess'.agreements = {ShownNext(e) : e \in Fit}
  BY <1>2, <1>3 DEF AgreementsRead, AgreementsShown
<1> HIDE DEF Marked, Shown, ShownNext, Fit
<1>6. sess'.agreements = {ShownNext(e) : e \in Fit}
  BY <1>0, <1>1, <1>4
<1> QED BY <1>1, <1>5, <1>6 DEF IsTables

------------------------------------------------------------------------------
(* The steps.                                                                *)

\* The committed tables stay right while neither they nor the chain change.
LEMMA TablesStay ==
    ASSUME TablesRight, UNCHANGED <<chain, rows, done, steady>>
    PROVE  TablesRight'
<1>1. \A k : Kept(k)' = Kept(k)
  BY BlocksStay DEF Kept
<1>2. \A e : Counterpart(e)' = Counterpart(e)
  BY BlocksStay
<1>3. AgreementsShown(Kept(4), Kept(5), Kept(6))' = AgreementsShown(Kept(4), Kept(5), Kept(6))
  BY <1>1, <1>2 DEF AgreementsShown
<1> QED BY <1>1, <1>3 DEF TablesRight, IsTables, HasOrder

\* A pass.
LEMMA PassKeeps ==
    ASSUME Assumptions, DexInv, Sync
    PROVE  OnChain' /\ TablesRight' /\ SessionRight'
<1>0. SyncTypeOK /\ HeadsCurrent
  BY DEF DexInv, OnChain
<1>1. PICK k \in 1..6 : PassOver(k)
  BY <1>0, PassReads
<1>2. BetweenPasses /\ from <= upto
  BY <1>1 DEF DexInv, SessionRight, SessionBounds, PassOver, BetweenPasses
<1>3. UNCHANGED <<chain, head, listed, rows, done, steady, upto>>
  BY <1>1 DEF PassOver
<1>4. OnChain'
  BY <1>3 DEF DexInv, OnChain, HeadsCurrent
<1>5. TablesRight'
  BY <1>3, TablesStay DEF DexInv
<1>6. SessionBounds' \/ ~IsTables(sess')
  <2>1. from' <= upto' /\ (pass' = 7 => To' = upto')
    BY <1>0, <1>1, <1>2, PassAdvances
  <2> QED BY <1>2, <1>3, <2>1 DEF BetweenPasses, SessionBounds, IsTables
<1>7. IsTables(sess') /\ OrdersRead' /\ AgreementsRead'
  <2>0. OrdersRead /\ AgreementsRead
    BY <1>2 DEF BetweenPasses
  <2>1. CASE PassOver(1) /\ sess' = SinkOnNewOrder(sess, News(1), Len(chain))
    BY <1>0, <1>2, <2>0, <2>1, NewOrdersRead, AgreementsUntouched
  <2>2. ASSUME NEW j \in 2..3, PassOver(j), sess' = SinkOnCancelOrder(sess, News(j), Len(chain))
        PROVE  IsTables(sess') /\ OrdersRead' /\ AgreementsRead'
    <3>1. IsTables(sess') /\ OrdersRead' /\ sess'.agreements = sess.agreements
      BY <1>2, <2>2, CancellationsRead
    <3> QED BY <1>0, <1>2, <2>0, <2>2, <3>1, AgreementsUntouched
  <2>3. CASE PassOver(4) /\ sess' = SinkOnAgree(sess, News(4), Len(chain))
    BY <1>0, <1>2, <2>0, <2>3, NewAgreementsRead, OrdersUntouched
  <2>4. ASSUME NEW j \in 5..6, PassOver(j),
               sess' = Settle(sess, News(j), IF j = 5 THEN "DONE" ELSE "CANCELED")
        PROVE  IsTables(sess') /\ OrdersRead' /\ AgreementsRead'
    <3>1. IsTables(sess') /\ AgreementsRead' /\ sess'.orders = sess.orders
      BY <1>2, <2>4, SettlementsRead
    <3> QED BY <1>0, <1>2, <2>0, <2>4, <3>1, OrdersUntouched
  <2>5. CASE PassOver(2) /\ sess' = SinkOnCancelOrder(sess, News(2), Len(chain))
    BY <2>2, <2>5
  <2>6. CASE PassOver(3) /\ sess' = SinkOnCancelOrder(sess, News(3), Len(chain))
    BY <2>2, <2>6
  <2>7. CASE PassOver(5) /\ sess' = Settle(sess, News(5), "DONE")
    BY <2>4, <2>7
  <2>8. CASE PassOver(6) /\ sess' = Settle(sess, News(6), "CANCELED")
    BY <2>4, <2>8
  <2> QED BY <1>0, <2>1, <2>3, <2>5, <2>6, <2>7, <2>8, PassReads
<1> QED BY <1>4, <1>5, <1>6, <1>7 DEF SessionRight

\* The beginning of a sync: what is behind the committed blocks, or read again.
LEMMA OpeningKeeps ==
    ASSUME Assumptions, DexInv, Opening
    PROVE  OnChain' /\ TablesRight' /\ SessionRight'
<1>0. SyncTypeOK /\ OnChain /\ TablesRight
  BY DEF DexInv
<1>1. /\ pass' = 1 /\ sess' = rows /\ upto' = Len(chain) /\ from' <= upto'
      /\ UNCHANGED <<chain, head, listed, rows, done, steady>>
  BY DEF Opening
<1>2. OnChain'
  BY <1>0, <1>1 DEF OnChain, HeadsCurrent
<1>3. TablesRight'
  BY <1>0, <1>1, TablesStay
<1>4. from' - 1 \in Int /\ from' - 1 <= done /\ done \in Int
  BY <1>0, Numbers DEF Opening
<1>5. ASSUME NEW k \in 1..6 PROVE Seen(k)' = Kept(k)
  <2>1. ReadNow(k)' = from' - 1
    BY <1>1 DEF ReadNow
  <2>2. ReadEver(k)' = done
    BY <1>1, <1>4, <2>1 DEF ReadEver, Later
  <2> QED BY <1>1, <2>2 DEF Seen, Kept, Known
<1>6. /\ Seen(1)' = Kept(1) /\ Seen(2)' = Kept(2) /\ Seen(3)' = Kept(3)
      /\ Seen(4)' = Kept(4) /\ Seen(5)' = Kept(5) /\ Seen(6)' = Kept(6)
  BY <1>5
<1>7. \A e : HasOrder(rows, e) => Cancels(e)' = Kept(2) \union Kept(3)
  BY <1>1, <1>6 DEF Cancels, HasOrder
<1>8. SessionBounds'
  BY <1>0, <1>1, Numbers DEF SessionBounds, TablesRight, IsTables
<1>9. OrdersRead'
  <2>1. ASSUME NEW o \in rows.orders PROVE \E e \in Kept(1) : o = OrderShown(e, Cancels(e)')
    <3>1. PICK e \in Kept(1) : o = OrderShown(e, Kept(2) \union Kept(3))
      BY <1>0 DEF TablesRight
    <3>2. o.order = OrderOf(e)
      BY <3>1 DEF OrderShown
    <3>3. HasOrder(rows, e)
      BY <3>2 DEF HasOrder
    <3> QED BY <1>7, <3>1, <3>3
  <2> QED BY <1>0, <1>1, <1>6, <2>1 DEF OrdersRead, TablesRight, HasOrder
<1>10. AgreementsRead'
  <2>1. \A e : Counterpart(e)' = Counterpart(e)
    BY <1>1, BlocksStay
  <2> QED BY <1>0, <1>1, <1>6, <2>1 DEF AgreementsRead, AgreementsShown, TablesRight
<1> QED BY <1>2, <1>3, <1>8, <1>9, <1>10 DEF SessionRight

\* The end of a sync: all passes have been over all blocks.
LEMMA CommitKeeps ==
    ASSUME Assumptions, DexInv, Commit
    PROVE  OnChain' /\ TablesRight' /\ SessionRight'
<1>0. SyncTypeOK /\ OnChain
  BY DEF DexInv
<1>1. /\ pass = 7 /\ pass' = 0 /\ rows' = sess
      /\ UNCHANGED <<chain, head, listed, steady>>
      /\ done' = (IF upto > done THEN upto ELSE done)
  <2>1. Len(Kinds) = 6
    BY KindOfPass
  <2> QED BY <2>1 DEF Commit, chainVars
<1>2. SessionBounds /\ OrdersRead /\ AgreementsRead
  BY <1>1 DEF DexInv, SessionRight
<1>3. To = upto /\ done <= upto /\ upto \in Int /\ done \in Int /\ upto <= Len(chain)
  BY <1>0, <1>1, <1>2, Numbers DEF SessionBounds
<1>4. done' = upto
  BY <1>1, <1>3
<1>5. ASSUME NEW k \in 1..6 PROVE Seen(k) = Kept(k)' /\ SeenNow(k) = Kept(k)'
  <2>1. ReadNow(k) = upto
    BY <1>1, <1>3 DEF ReadNow
  <2>2. ReadEver(k) = upto
    BY <1>3, <2>1 DEF ReadEver, Later
  <2> QED BY <1>1, <1>4, <2>1, <2>2 DEF Seen, SeenNow, Kept, Known
<1>6. /\ Seen(1) = Kept(1)' /\ Seen(4) = Kept(4)' /\ Seen(5) = Kept(5)' /\ Seen(6) = Kept(6)'
      /\ Seen(2) = Kept(2)' /\ SeenNow(2) = Kept(2)' /\ Seen(3) = Kept(3)' /\ SeenNow(3) = Kept(3)'
  BY <1>5
<1>7. \A e : Cancels(e) = Kept(2)' \union Kept(3)'
  BY <1>6 DEF Cancels
<1>8. \A e : Counterpart(e)' = Counterpart(e)
  BY <1>1, BlocksStay
<1>9. TablesRight'
  <2>1. done' <= Len(chain') /\ IsTables(rows')
    BY <1>1, <1>2, <1>3, <1>4 DEF SessionBounds
  <2>2. \A o \in rows'.orders : \E e \in Kept(1)' : o = OrderShown(e, Kept(2)' \union Kept(3)')
    BY <1>1, <1>2, <1>6, <1>7 DEF OrdersRead
  <2>3. \A r \in steady' : r[2] \in Kept(1)' /\ Fits(r[2]) => HasOrder(rows', r[2])
    BY <1>1, <1>2, <1>6 DEF OrdersRead
  <2>4. rows'.agreements = AgreementsShown(Kept(4), Kept(5), Kept(6))'
    BY <1>1, <1>2, <1>6, <1>8 DEF AgreementsRead, AgreementsShown
  <2> QED BY <2>1, <2>2, <2>3, <2>4 DEF TablesRight
<1>10. OnChain'
  BY <1>0, <1>1 DEF OnChain, HeadsCurrent
<1> QED BY <1>1, <1>9, <1>10 DEF SessionRight

\* The chain grows.
Growing ==
    /\ \A b \in Block : b <= Len(chain) => chain'[b] = chain[b]
    /\ Len(chain) \in Nat /\ Len(chain') \in Nat /\ Len(chain) <= Len(chain')

\* So does each step of the environment let it, and the one node follows.
LEMMA ChainGrows ==
    ASSUME Assumptions, OneNode, SyncTypeOK, HeadsCurrent, ChainNext
    PROVE  Growing /\ HeadsCurrent'
<1>0. chain \in Seq(SUBSET Event) /\ Len(chain) \in Nat
  BY Numbers
<1>1. CASE Mine
  <2>1. PICK block \in Contents, S \in (SUBSET Node) \ {{}} :
           /\ chain' = Append(chain, block)
           /\ head' = [n \in Node |-> IF n \in S THEN Len(chain) + 1 ELSE head[n]]
    BY <1>1 DEF Mine
  <2>2. block \in SUBSET Event
    BY DEF Assumptions, ChainAssumption
  <2>3. Len(chain') = Len(chain) + 1 /\ \A b \in 1..Len(chain) : chain'[b] = chain[b]
    BY <1>0, <2>1, <2>2
  <2>4. \A n \in Node : n \in S
    BY DEF OneNode
  <2>5. HeadsCurrent'
    BY <2>1, <2>3, <2>4 DEF HeadsCurrent
  <2> QED BY <1>0, <2>3, <2>5 DEF Growing, Block
<1>2. CASE CatchUp
  <2>1. FALSE
    BY <1>0, <1>2 DEF CatchUp, HeadsCurrent
  <2> QED BY <2>1
<1>3. CASE RegisterAdminToken \/ DeleteToken
  BY <1>0, <1>3 DEF RegisterAdminToken, DeleteToken, Growing, HeadsCurrent
<1> QED BY <1>1, <1>2, <1>3 DEF ChainNext

\* What is known of the blocks that were there stays known.
LEMMA KnownStays ==
    ASSUME Growing, NEW h \in Int, h <= Len(chain)
    PROVE  \A kind : Known(kind, h)' = Known(kind, h)
<1>1. \A b \in Block : b <= h => b <= Len(chain) /\ b <= Len(chain') /\ chain'[b] = chain[b]
  BY DEF Growing, Block
<1> QED BY <1>1 DEF Known

\* So does who placed the order of an agreement.
LEMMA CounterpartStays ==
    ASSUME Assumptions, SyncTypeOK, Exchange(chain), Growing, NEW h \in Int, h <= Len(chain),
           NEW e \in Known("Agree", h)
    PROVE  Counterpart(e)' = Counterpart(e)
<1>1. PICK o \in Known("NewOrder", h) : OrderOf(o) = OrderOf(e)
  BY ExchangeOrder
<1>2. PICK b \in Block : b <= h /\ b <= Len(chain) /\ o \in chain[b]
  BY DEF Known
<1>3. o \in Event /\ o.kind = "NewOrder"
  BY KnownEvents
<1>4. b <= Len(chain') /\ o \in chain'[b]
  BY <1>2 DEF Growing, Block
<1>5. \A x \in Event : x.kind = "NewOrder" /\ OrderOf(x) = OrderOf(e) => x = o
  BY <1>1, <1>3 DEF Assumptions, DexAssumption
<1>6. IsBuy(OrderOf(e), Len(chain)) <=> o.isBuy
  BY <1>1, <1>2, <1>3, <1>5 DEF IsBuy, Known
<1>7. IsBuy(OrderOf(e), Len(chain))' <=> o.isBuy
  BY <1>1, <1>3, <1>4, <1>5 DEF IsBuy, Known
<1> QED BY <1>6, <1>7 DEF Counterpart

\* A step of the environment.
LEMMA WorldKeeps ==
    ASSUME Assumptions, OneNode, DexInv, World, Exchange(chain')
    PROVE  OnChain' /\ TablesRight' /\ SessionRight'
<1>0. SyncTypeOK /\ OnChain /\ TablesRight /\ Exchange(chain) /\ done <= Len(chain)
  BY DEF DexInv, OnChain, TablesRight
<1>1. UNCHANGED <<rows, sess, started, from, upto, pass, done>>
  BY DEF World, syncVars
<1>2. Growing /\ HeadsCurrent'
  BY <1>0, ChainGrows DEF World, OnChain
<1>3. done \in Int /\ upto \in Int /\ from \in Int /\ To \in Int /\ To <= upto
  BY <1>0, Numbers, RangeEnd
<1>4. ASSUME NEW r \in steady'
      PROVE  \/ r \in steady
             \/ r[1] > Len(chain)
  BY <1>2 DEF World, Growing
<1>5. ASSUME NEW r \in steady'
      PROVE  /\ r \in Block \X Event /\ r[2].token \in listed'
             /\ r[1] <= Len(chain') /\ r[2] \in chain'[r[1]]
  <2>1. CASE r \in steady /\ r[2].token \in listed'
    <3>1. r \in Block \X Event /\ r[1] <= Len(chain) /\ r[2] \in chain[r[1]]
      BY <1>0, <2>1 DEF OnChain
    <3>2. r[1] \in Block /\ r[1] \in Int
      BY <3>1 DEF Block
    <3>3. r[1] <= Len(chain') /\ chain'[r[1]] = chain[r[1]]
      BY <1>2, <3>1, <3>2 DEF Growing
    <3> QED BY <2>1, <3>1, <3>3
  <2>2. CASE ~(r \in steady /\ r[2].token \in listed')
    BY <1>2, <2>2 DEF World, Growing
  <2> QED BY <2>1, <2>2
<1>6. OnChain'
  BY <1>2, <1>5 DEF OnChain
<1>7. ASSUME NEW h \in Int, h <= Len(chain), NEW r \in steady', NEW kind,
             kind # "Register", r[2] \in Known(kind, h)
      PROVE  r \in steady
  <2>1. r[2] \in Known(kind, h)'
    BY <1>2, <1>7, KnownStays
  <2>2. PICK b \in Block : b <= h /\ b <= Len(chain') /\ r[2] \in chain'[b]
    BY <2>1 DEF Known
  <2>3. r \in Block \X Event /\ r[1] <= Len(chain') /\ r[2] \in chain'[r[1]] /\ r[1] \in Int
    BY <1>5 DEF Block
  <2>4. r[2].kind # "Register"
    BY <1>7 DEF Known
  <2>5. b \in DOMAIN chain' /\ b \in Int
    <3>1. chain' \in Seq(SUBSET Event)
      BY <1>0, ChainTyped DEF World, SyncTypeOK, ChainTypeOK
    <3> QED BY <2>2, <3>1 DEF Block
  <2>6. r[1] = b
    BY <2>2, <2>3, <2>4, <2>5 DEF Exchange
  <2> QED BY <1>2, <1>4, <1>7, <2>2, <2>5, <2>6 DEF Growing
<1>8. ASSUME NEW k PROVE Kept(k)' = Kept(k)
  <2>1. PICK h \in Int : h = done /\ h = done' /\ h <= Len(chain)
    BY <1>0, <1>1, <1>3
  <2>2. Known(Kinds[k], h)' = Known(Kinds[k], h)
    BY <1>2, <2>1, KnownStays
  <2>3. Kept(k)' = Known(Kinds[k], h)'
    BY <2>1 DEF Kept, Known
  <2> QED BY <2>1, <2>2, <2>3 DEF Kept
<1>9. TablesRight'
  <2>1. AgreementsShown(Kept(4), Kept(5), Kept(6))' = AgreementsShown(Kept(4), Kept(5), Kept(6))
    <3>1. \A e \in Kept(4) : Counterpart(e)' = Counterpart(e)
      BY <1>0, <1>2, <1>3, CounterpartStays, KindOfPass DEF Kept
    <3> QED BY <1>8, <3>1 DEF AgreementsShown
  <2>2. \A r \in steady' : r[2] \in Kept(1) /\ Fits(r[2]) => HasOrder(rows, r[2])
    BY <1>0, <1>3, <1>7, KindOfPass DEF TablesRight, Kept
  <2>3. done' <= Len(chain')
    BY <1>0, <1>1, <1>2, <1>3 DEF Growing
  <2> QED BY <1>0, <1>1, <1>8, <2>1, <2>2, <2>3 DEF TablesRight, IsTables, HasOrder
<1>10. ASSUME pass # 0 PROVE (SessionBounds /\ OrdersRead /\ AgreementsRead)'
  <2>0. SessionBounds /\ OrdersRead /\ AgreementsRead /\ upto <= Len(chain) /\ from <= upto
    BY <1>10 DEF DexInv, SessionRight, SessionBounds
  <2>1. To' = To
    BY <1>1 DEF To
  <2>2. \A k : ReadNow(k)' = ReadNow(k) /\ ReadEver(k)' = ReadEver(k)
    BY <1>1, <2>1 DEF ReadNow, ReadEver
  <2>3. Len(chain) \in Int
    BY <1>0, Numbers
  <2>4. ASSUME NEW k
        PROVE  /\ ReadNow(k) \in Int /\ ReadNow(k) <= Len(chain)
               /\ ReadEver(k) \in Int /\ ReadEver(k) <= Len(chain)
    BY <1>0, <1>3, <2>0, <2>3 DEF ReadNow, ReadEver, Later
  <2>5. ASSUME NEW k PROVE Seen(k)' = Seen(k) /\ SeenNow(k)' = SeenNow(k)
    <3>1. PICK h \in Int, g \in Int : /\ h = ReadEver(k) /\ h = ReadEver(k)' /\ h <= Len(chain)
                                     /\ g = ReadNow(k) /\ g = ReadNow(k)' /\ g <= Len(chain)
      BY <2>2, <2>4
    <3>2. Known(Kinds[k], h)' = Known(Kinds[k], h) /\ Known(Kinds[k], g)' = Known(Kinds[k], g)
      BY <1>2, <3>1, KnownStays
    <3>3. Seen(k)' = Known(Kinds[k], h)' /\ SeenNow(k)' = Known(Kinds[k], g)'
      BY <3>1 DEF Seen, SeenNow, Known
    <3> QED BY <3>1, <3>2, <3>3 DEF Seen, SeenNow
  <2>6. \A e : Cancels(e)' = Cancels(e)
    BY <1>1, <2>5 DEF Cancels, HasOrder
  <2>7. \A e \in Seen(4) : Counterpart(e)' = Counterpart(e)
    BY <1>0, <1>2, <2>4, CounterpartStays, KindOfPass DEF Seen
  <2>8. SessionBounds'
    BY <1>1, <1>2, <1>3, <2>0, <2>1, <2>3 DEF SessionBounds, IsTables, Growing
  <2>9. \A r \in steady' : r[2] \in Seen(1) /\ Fits(r[2]) => HasOrder(sess, r[2])
    BY <1>7, <2>0, <2>4, KindOfPass DEF OrdersRead, Seen
  <2>10. OrdersRead'
    BY <1>1, <2>0, <2>5, <2>6, <2>9 DEF OrdersRead, HasOrder
  <2>11. AgreementsRead'
    BY <1>1, <2>0, <2>5, <2>7 DEF AgreementsRead, AgreementsShown
  <2> QED BY <2>8, <2>10, <2>11
<1> QED BY <1>1, <1>6, <1>9, <1>10 DEF SessionRight

\* DexInv is inductive.
LEMMA DexInvariant ==
    ASSUME Assumptions, OneNode, DexInv, [Next]_vars
    PROVE  DexInv'
<1>0. SyncTypeOK /\ pass >= 0 /\ HeadsCurrent /\ done <= Len(chain)
  BY DEF DexInv, OnChain, TablesRight
<1>1. SyncTypeOK' /\ pass' >= 0
  BY <1>0, TypesPreserved
<1>2. CASE InitialSync \/ SyncNewLogs
  BY <1>0, <1>1, <1>2, SyncOpens, OpeningKeeps DEF DexInv
<1>3. CASE Sync
  BY <1>1, <1>3, PassKeeps DEF DexInv
<1>4. CASE Commit
  BY <1>1, <1>4, CommitKeeps DEF DexInv
<1>5. CASE Fail \/ Restart
  <2>1. UNCHANGED <<chain, head, listed, rows, done, steady>> /\ pass' = 0
    BY <1>5 DEF Fail, Restart, chainVars
  <2>2. OnChain' /\ TablesRight'
    BY <2>1, TablesStay DEF DexInv, OnChain, HeadsCurrent
  <2> QED BY <1>1, <2>1, <2>2 DEF DexInv, SessionRight
<1>6. CASE World /\ Exchange(chain')
  BY <1>1, <1>6, WorldKeeps DEF DexInv
<1>7. CASE UNCHANGED vars
  <2>1. UNCHANGED <<chain, head, listed, rows, sess, started, from, upto, pass, done, steady>>
    BY <1>7 DEF vars, chainVars, syncVars
  <2>2. OnChain' /\ TablesRight'
    BY <2>1, TablesStay DEF DexInv, OnChain, HeadsCurrent
  <2>3. \A k : ReadNow(k)' = ReadNow(k) /\ ReadEver(k)' = ReadEver(k) /\ To' = To
    BY <2>1 DEF ReadNow, ReadEver, To
  <2>4. \A k : Seen(k)' = Seen(k) /\ SeenNow(k)' = SeenNow(k)
    BY <2>1, <2>3 DEF Seen, SeenNow, Known
  <2>5. \A e : Cancels(e)' = Cancels(e) /\ Counterpart(e)' = Counterpart(e)
    BY <2>1, <2>4, BlocksStay DEF Cancels, HasOrder
  <2>6. OrdersRead' = OrdersRead /\ AgreementsRead' = AgreementsRead
    BY <2>1, <2>4, <2>5 DEF OrdersRead, AgreementsRead, AgreementsShown, HasOrder
  <2>7. SessionBounds' = SessionBounds
    BY <2>1, <2>3 DEF SessionBounds, IsTables
  <2> QED BY <1>1, <2>1, <2>2, <2>6, <2>7 DEF DexInv, SessionRight
<1> QED BY <1>2, <1>3, <1>4, <1>5, <1>6, <1>7 DEF Next

\* At first there is nothing.
LEMMA DexBegins ==
    ASSUME Assumptions, Init
    PROVE  DexInv
<1>1. /\ chain = <<>> /\ head = [n \in Node |-> 0] /\ listed = {} /\ steady = {}
      /\ rows = NoRows /\ latest = 0 /\ started = FALSE /\ targets = {} /\ from = 0 /\ upto = 0
      /\ pass = 0 /\ failures = 0 /\ done = 0
  BY DEF Init, SyncInit, ChainInit
<1>2. MaxBlock \in Nat /\ MaxFailures \in Nat /\ Len(Kinds) = 6 /\ Len(chain) = 0
  BY <1>1, KindOfPass DEF Assumptions, ChainAssumption, DexAssumption
<1>3. chain \in Seq(SUBSET Event)
  BY <1>1
<1>4. SyncTypeOK /\ pass >= 0
  <2>1. ChainTypeOK
    BY <1>1, <1>2, <1>3 DEF ChainTypeOK, BlockNumber
  <2>2. pass \in Listed..Len(Kinds) + 1 /\ pass >= 0
    BY <1>1, <1>2 DEF Listed
  <2>3. /\ latest \in BlockNumber /\ upto \in BlockNumber /\ done \in BlockNumber
        /\ from \in 0..MaxBlock + 1
    BY <1>1, <1>2 DEF BlockNumber
  <2>4. targets \subseteq Token /\ failures \in 0..MaxFailures /\ latest <= done
    BY <1>1, <1>2
  <2>5. started \in BOOLEAN
    BY <1>1
  <2> QED BY <2>1, <2>2, <2>3, <2>4, <2>5 DEF SyncTypeOK
<1>5. OnChain
  BY <1>1, <1>2 DEF OnChain, HeadsCurrent, Exchange, Block
<1>6. TablesRight
  <2>1. rows = [orders |-> {}, agreements |-> {}]
    BY <1>1 DEF Assumptions, DexAssumption
  <2>2. Kept(4) = {}
    BY <1>1 DEF Kept, Known, Block
  <2> QED BY <1>1, <1>2, <2>1, <2>2 DEF TablesRight, IsTables, AgreementsShown
<1> QED BY <1>1, <1>4, <1>5, <1>6 DEF DexInv, SessionRight

------------------------------------------------------------------------------
(* What the invariant says of the tables.                                    *)

\* The tables are as on the chain.
LEMMA TablesAreRight ==
    ASSUME Assumptions, DexInv
    PROVE  TypeOK /\ OrdersAsOnChain /\ ListedOrdersKept /\ AgreementsAsOnChain
<1>0. SyncTypeOK /\ OnChain /\ TablesRight
  BY DEF DexInv
<1>1. /\ Kept(1) = Known("NewOrder", done)
      /\ Kept(2) = Known("CancelOrder", done) /\ Kept(3) = Known("ForceCancelOrder", done)
      /\ Kept(4) = Known("Agree", done)
      /\ Kept(5) = Known("SettlementOK", done) /\ Kept(6) = Known("SettlementNG", done)
  BY KindOfPass DEF Kept
<1>2. ASSUME NEW o \in rows.orders
      PROVE  \E e \in Known("NewOrder", done) :
                /\ o = [OrderRow(e) EXCEPT !.cancelled = Cancelled(OrderOf(e))]
                /\ o = OrderShown(e, Kept(2) \union Kept(3)) /\ o.order = OrderOf(e)
  <2>1. PICK e \in Known("NewOrder", done) : o = OrderShown(e, Kept(2) \union Kept(3))
    BY <1>0, <1>1 DEF TablesRight
  <2>2. PICK c \in BOOLEAN : c = Cancelled(OrderOf(e))
    BY DEF Cancelled
  <2>3. c = \E x \in Kept(2) \union Kept(3) : OrderOf(x) = OrderOf(e)
    BY <1>1, <2>2 DEF Cancelled
  <2>4. OrderShown(e, Kept(2) \union Kept(3)) =
           [order |-> OrderOf(e), token |-> e.token, account |-> e.account, isBuy |-> e.isBuy,
            amount |-> e.amount, cancelled |-> c]
    BY <2>3 DEF OrderShown
  <2>5. o = [OrderRow(e) EXCEPT !.cancelled = c]
    BY <2>1, <2>4 DEF OrderRow
  <2>6. o.order = OrderOf(e)
    BY <2>1, <2>4
  <2> QED BY <2>1, <2>2, <2>5, <2>6
<1>3. OrdersAsOnChain
  BY <1>2 DEF OrdersAsOnChain
<1>4. ListedOrdersKept
  <2> SUFFICES ASSUME NEW r \in steady, r[2].kind = "NewOrder", r[1] <= done,
                      r[2].amount <= MaxSize
               PROVE  \E o \in rows.orders : o.order = OrderOf(r[2])
    BY DEF ListedOrdersKept
  <2>1. r \in Block \X Event /\ r[1] <= Len(chain) /\ r[2] \in chain[r[1]]
    BY <1>0 DEF OnChain
  <2>2. r[2] \in Known("NewOrder", done)
    BY <2>1 DEF Known
  <2> QED BY <1>0, <1>1, <2>2 DEF TablesRight, HasOrder, Fits
<1>5. ASSUME NEW e \in Known("Agree", done)
      PROVE  AgreementShown(e, Counterpart(e), Kept(5), Kept(6)) =
                [AgreementRow(e, done) EXCEPT !.status = Status(AgreementOf(e))]
  <2>1. IsBuy(OrderOf(e), Len(chain)) <=> IsBuy(OrderOf(e), done)
    <3>0. done \in Int /\ done <= Len(chain) /\ Len(chain) \in Int
      BY <1>0, Numbers DEF TablesRight
    <3>1. PICK o \in Known("NewOrder", done) : OrderOf(o) = OrderOf(e)
      BY <1>0, <3>0, ExchangeOrder DEF OnChain
    <3>2. o \in Known("NewOrder", Len(chain))
      BY <3>0 DEF Known
    <3> QED BY <3>1, <3>2, NumbersAreUnique DEF IsBuy
  <2>2. StatusShown(AgreementOf(e), Kept(5), Kept(6)) = Status(AgreementOf(e))
    BY <1>1 DEF StatusShown, Status
  <2> QED BY <2>1, <2>2 DEF AgreementShown, AgreementRow, Counterpart
<1>6. AgreementsAsOnChain
  BY <1>0, <1>1, <1>5 DEF TablesRight, AgreementsShown, AgreementsAsOnChain, Fits
<1>7. \A x, y \in rows.orders : x.order = y.order => x = y
  BY <1>2, NumbersAreUnique
<1>8. \A x, y \in rows.agreements : x.id = y.id => x = y
  <2>1. ASSUME NEW x \in rows.agreements
        PROVE  \E e \in Known("Agree", done) :
                  /\ x = AgreementShown(e, Counterpart(e), Kept(5), Kept(6))
                  /\ x.id = AgreementOf(e)
    BY <1>0, <1>1, AgreementNumber DEF TablesRight, AgreementsShown
  <2> QED BY <2>1, NumbersAreUnique
<1> QED BY <1>0, <1>3, <1>4, <1>6, <1>7, <1>8 DEF TypeOK
------------------------------------------------------------------------------
(* The invariant of a request r, where the tables stand at block d and the   *)
(* chain at block n.                                                         *)

DoneUpTo(id, h) == \E s \in Known("SettlementOK", h) : AgreementOf(s) = id

\* The rows of the first query that are left and the entries made of the others.
OrdersLeft(r) == IF r.at = 1 THEN r.rest ELSE {}
OrdersMade(r) == IF r.at = 1 THEN r.part ELSE r.answer.orders
OrderIn(r, order) == \E x \in OrdersLeft(r) \union OrdersMade(r) : x.order = order

\* The agreements of the other two, either way.
PendingOnes(r) == IF r.at = 2 THEN r.rest \union r.part ELSE r.answer.settlements
ClosedOnes(r) == IF r.at = 3 THEN r.rest \union r.part ELSE r.answer.completed
ClosedMade(r) == IF r.at = 3 THEN r.part ELSE r.answer.completed
AgreementIn(r, id) == \E x \in PendingOnes(r) \union ClosedOnes(r) : x.id = id

RequestShape(r, d) ==
    /\ r = [at |-> r.at, query |-> r.query, rest |-> r.rest, part |-> r.part,
            answer |-> r.answer, failed |-> r.failed, since |-> r.since, known |-> r.known]
    /\ r.answer = [orders |-> r.answer.orders, settlements |-> r.answer.settlements,
                   completed |-> r.answer.completed]
    /\ r.at \in 0..4 /\ r.since \in 0..d
    /\ r.at \in 0..1 => r.answer = NoAnswer
    /\ r.at = 2 => r.answer.settlements = {} /\ r.answer.completed = {}
    /\ r.at = 3 => r.answer.completed = {}
    /\ r.at \in 1..3 => ~r.failed

\* Of orders: what is shown was not cancelled, its amount was left at some block since, and
\* so is every order that was asked for and in the tables.
OrdersShown(r, n) ==
    /\ \A x \in OrdersLeft(r) \union OrdersMade(r) :
          ~r.query.withCanceled => ~ChainOrder(x.order, r.since).canceled
    /\ \A x \in OrdersMade(r) :
          \E h \in r.since..n : x.amount = ChainOrder(x.order, h).amount /\ x.amount # 0

OrdersCovered(r, n) ==
    r.at # 0 /\ ~r.failed =>
        \A e \in Known("NewOrder", r.since) :
            (OrderOf(e) \in r.known /\ e.account = r.query.account
               /\ Concerns(r.query, OrderOf(e), r.since)) =>
                \/ OrderIn(r, OrderOf(e))
                \/ ~r.query.withCanceled /\ ChainOrder(OrderOf(e), r.since).canceled
                \/ \E h \in r.since..n : ChainOrder(OrderOf(e), h).amount = 0

\* Of agreements: the open ones were not settled when the request began, the closed ones are,
\* and the others that were there have been settled since and are still to be found, or they
\* were cancelled, or their order was not in the tables.
AgreementsShownRight(r, d) ==
    /\ \A x \in PendingOnes(r) : x.id \in AgreedUpTo(r.query, d) /\ ~SettledUpTo(x.id, r.since)
    /\ \A x \in ClosedOnes(r) : /\ x.id \in AgreedUpTo(r.query, d) /\ SettledUpTo(x.id, d)
                                /\ ~r.query.withCanceled => DoneUpTo(x.id, d)
    /\ \A x \in ClosedMade(r) : ~r.query.withCanceled => ~x.canceled

AgreementsCovered(r, d) ==
    r.at >= 2 /\ ~r.failed =>
        \A id \in AgreedUpTo(r.query, r.since) :
            \/ AgreementIn(r, id)
            \/ r.at = 2 /\ SettledUpTo(id, d)
            \/ r.at > 2 /\ ~r.query.withCanceled /\ AgreementCanceled(id, d)
            \/ r.query.by = "token" /\ id[1] \notin r.known

\* Orders stay in the tables.
KnownKept(r) == \A order \in r.known : \E o \in rows.orders : o.order = order

Right(r, d, n) ==
    /\ RequestShape(r, d) /\ OrdersShown(r, n) /\ OrdersCovered(r, n)
    /\ AgreementsShownRight(r, d) /\ AgreementsCovered(r, d) /\ KnownKept(r)

RequestRight == \E r, d, n : r = request /\ d = done /\ n = Len(chain) /\ Right(r, d, n)


------------------------------------------------------------------------------
(* What the tables say of the chain.                                         *)

\* An agreement of the table is one of the chain ...
LEMMA AgreementRows ==
    ASSUME AgreementsAsOnChain
    PROVE  /\ \A a \in rows.agreements : \E e \in Known("Agree", done) :
                 /\ e.amount <= MaxSize
                 /\ a.id = AgreementOf(e) /\ a.buyer = e.buyer /\ a.seller = e.seller
                 /\ a.status = Status(AgreementOf(e))
                 /\ a.counterpart = IF IsBuy(OrderOf(e), done) THEN e.seller ELSE e.buyer
           /\ \A e \in Known("Agree", done) : e.amount <= MaxSize =>
                 \E a \in rows.agreements :
                    /\ a.id = AgreementOf(e) /\ a.buyer = e.buyer /\ a.seller = e.seller
                    /\ a.status = Status(AgreementOf(e))
<1> DEFINE Row(e) == [AgreementRow(e, done) EXCEPT !.status = Status(AgreementOf(e))]
<1>1. ASSUME NEW e
      PROVE  /\ Row(e).id = AgreementOf(e)
             /\ Row(e).buyer = e.buyer /\ Row(e).seller = e.seller
             /\ Row(e).status = Status(AgreementOf(e))
             /\ Row(e).counterpart = IF IsBuy(OrderOf(e), done) THEN e.seller ELSE e.buyer
  BY DEF AgreementRow
<1>2. rows.agreements = {Row(e) : e \in {x \in Known("Agree", done) : x.amount <= MaxSize}}
  BY DEF AgreementsAsOnChain
<1> HIDE DEF Row
<1> QED BY <1>1, <1>2

\* ... and an order one of an order.
LEMMA OrderRows ==
    ASSUME OrdersAsOnChain
    PROVE  \A o \in rows.orders : \E e \in Known("NewOrder", done) :
              /\ o.order = OrderOf(e) /\ o.token = e.token /\ o.account = e.account
              /\ o.cancelled = Cancelled(o.order)
<1> SUFFICES ASSUME NEW o \in rows.orders
             PROVE  \E e \in Known("NewOrder", done) :
                       /\ o.order = OrderOf(e) /\ o.token = e.token /\ o.account = e.account
                       /\ o.cancelled = Cancelled(o.order)
  OBVIOUS
<1>1. PICK e \in Known("NewOrder", done) :
         o = [OrderRow(e) EXCEPT !.cancelled = Cancelled(OrderOf(e))]
  BY DEF OrdersAsOnChain
<1>2. PICK c : c = Cancelled(OrderOf(e))
  OBVIOUS
<1>3. o = [OrderRow(e) EXCEPT !.cancelled = c]
  BY <1>1, <1>2
<1>4. /\ o.order = OrderOf(e) /\ o.token = e.token /\ o.account = e.account /\ o.cancelled = c
  BY <1>3 DEF OrderRow
<1> QED BY <1>2, <1>4

\* The status of an agreement is what the chain says, and an agreement that is done is not
\* cancelled at any block.
LEMMA StatusMeans ==
    ASSUME Assumptions, DexInv, NEW id
    PROVE  /\ Status(id) \in {"DONE", "CANCELED", "PENDING"}
           /\ Status(id) = "DONE" <=> DoneUpTo(id, done)
           /\ Status(id) = "CANCELED" <=> AgreementCanceled(id, done)
           /\ Status(id) = "PENDING" <=> ~SettledUpTo(id, done)
           /\ DoneUpTo(id, done) => \A h \in Int : ~AgreementCanceled(id, h)
<1>1. SyncTypeOK /\ Exchange(chain) /\ done \in Int
  BY Numbers DEF DexInv, OnChain
<1>2. \A h \in Int : \A s \in Known("SettlementNG", h), t \in Known("SettlementOK", done) :
         AgreementOf(t) # AgreementOf(s)
  BY <1>1, ExchangeOrder
<1>3. DoneUpTo(id, done) => \A h \in Int : ~AgreementCanceled(id, h)
  BY <1>2 DEF DoneUpTo, AgreementCanceled
<1>4. SettledUpTo(id, done) <=> DoneUpTo(id, done) \/ AgreementCanceled(id, done)
  BY DEF SettledUpTo, DoneUpTo, AgreementCanceled
<1>5. Status(id) = IF DoneUpTo(id, done) THEN "DONE"
                   ELSE IF AgreementCanceled(id, done) THEN "CANCELED" ELSE "PENDING"
  BY DEF Status, DoneUpTo, AgreementCanceled
<1>6. ~(DoneUpTo(id, done) /\ AgreementCanceled(id, done))
  BY <1>1, <1>3
<1>7. /\ Status(id) \in {"DONE", "CANCELED", "PENDING"}
      /\ Status(id) = "DONE" <=> DoneUpTo(id, done)
      /\ Status(id) = "CANCELED" <=> AgreementCanceled(id, done)
      /\ Status(id) = "PENDING" <=> ~SettledUpTo(id, done)
  BY <1>4, <1>5, <1>6
<1> QED BY <1>3, <1>7

\* What is cancelled on the chain, of an order.
LEMMA CancelledMeans ==
    \A order : ChainOrder(order, done).canceled <=> Cancelled(order)
BY DEF ChainOrder, Cancelled

\* What is known stays known further on.
LEMMA KnownMore ==
    ASSUME NEW g \in Int, NEW h \in Int, g <= h
    PROVE  \A kind : Known(kind, g) \subseteq Known(kind, h)
<1>1. \A b \in Block : b <= g => b <= h
  BY DEF Block
<1> QED BY <1>1 DEF Known

------------------------------------------------------------------------------
(* The other answers.                                                        *)

\* An agreement by its number.
LEMMA RetrievedAsListed ==
    ASSUME Assumptions, MarketAssumption, DexInv
    PROVE  AgreementRetrieved
<1>0. /\ AgreementsAsOnChain /\ SyncTypeOK /\ Exchange(chain)
      /\ done \in Int /\ Len(chain) \in Int
  BY TablesAreRight, Numbers DEF DexInv, OnChain
<1> SUFFICES ASSUME NEW a \in rows.agreements, NEW h \in done..Len(chain),
                    NEW g \in done..Len(chain)
             PROVE  \E r \in RetrieveAgreement(a.id, h, g) :
                       /\ RetrieveAgreement(a.id, h, g) = {r}
                       /\ r.buyer = a.buyer /\ r.seller = a.seller
                       /\ r.counterpart = a.counterpart
                       /\ a.status # "PENDING" => (r.canceled <=> a.status = "CANCELED")
  BY DEF AgreementRetrieved
<1>1. PICK e \in Known("Agree", done) :
         /\ a.id = AgreementOf(e) /\ a.buyer = e.buyer /\ a.seller = e.seller
         /\ a.status = Status(AgreementOf(e))
         /\ a.counterpart = IF IsBuy(OrderOf(e), done) THEN e.seller ELSE e.buyer
  BY <1>0, AgreementRows
<1>2. a.id[1] = OrderOf(e)
  BY <1>1 DEF AgreementOf
<1>3. PICK o \in Known("NewOrder", done) : OrderOf(o) = OrderOf(e)
  BY <1>0, ExchangeOrder
<1>4. /\ o \in Known("NewOrder", h)
      /\ \A i : \A x \in Known("NewOrder", i) : OrderOf(x) = OrderOf(e) => x = o
  BY <1>0, <1>3, KnownMore, NumbersAreUnique
<1>5. /\ e \in Known("Agree", g)
      /\ \A x \in Known("Agree", g) : AgreementOf(x) = AgreementOf(e) => x = e
  BY <1>0, KnownMore, NumbersAreUnique
<1>6. PICK buys \in BOOLEAN : buys = IsBuy(OrderOf(e), done)
  BY DEF IsBuy
<1>7. buys <=> o.isBuy
  BY <1>3, <1>4, <1>6 DEF IsBuy
<1>8. \A i \in {h, g} : IsBuy(OrderOf(e), i) <=> buys
  <2>1. o \in Known("NewOrder", g)
    BY <1>0, <1>3, KnownMore
  <2> QED BY <1>3, <1>4, <1>7, <2>1 DEF IsBuy
<1>9. Maker(a.id[1], h) = {IF buys THEN e.buyer ELSE e.seller}
  <2>1. o.account = IF o.isBuy THEN e.buyer ELSE e.seller
    BY <1>3, KnownEvents DEF MarketAssumption
  <2>2. Maker(a.id[1], h) = {o.account}
    BY <1>2, <1>3, <1>4 DEF Maker
  <2> QED BY <1>7, <2>1, <2>2
<1>10. Taker(a.id, g) = {IF buys THEN e.seller ELSE e.buyer}
  <2>1. {x \in Known("Agree", g) : AgreementOf(x) = a.id} = {e}
    BY <1>1, <1>5
  <2>2. IsBuy(a.id[1], g) <=> buys
    BY <1>2, <1>8
  <2> QED BY <2>1, <2>2 DEF Taker
<1>11. PICK canceled \in BOOLEAN : canceled = AgreementCanceled(a.id, g)
  BY DEF AgreementCanceled
<1>12. a.status # "PENDING" => (canceled <=> a.status = "CANCELED")
  <2>1. g \in Int
    BY <1>0
  <2>2. AgreementCanceled(a.id, done) => AgreementCanceled(a.id, g)
    BY <1>0, KnownMore DEF AgreementCanceled
  <2> QED BY <1>1, <1>11, <2>1, <2>2, StatusMeans
<1>13. RetrieveAgreement(a.id, h, g) =
          {[buyer |-> e.buyer, seller |-> e.seller,
            counterpart |-> IF buys THEN e.seller ELSE e.buyer, canceled |-> canceled]}
  <2>1. IsBuy(a.id[1], h) <=> buys
    BY <1>2, <1>8
  <2>2. RetrieveAgreement(a.id, h, g) =
           {[buyer |-> IF buys THEN maker ELSE taker, seller |-> IF buys THEN taker ELSE maker,
             counterpart |-> taker, canceled |-> canceled] :
               maker \in {IF buys THEN e.buyer ELSE e.seller},
               taker \in {IF buys THEN e.seller ELSE e.buyer}}
    BY <1>9, <1>10, <1>11, <2>1 DEF RetrieveAgreement
  <2> QED BY <2>2
<1> QED BY <1>1, <1>6, <1>12, <1>13

\* The ticks of a token.
LEMMA TicksAreRight ==
    ASSUME Assumptions, DexInv, NEW token
    PROVE  {k.id : k \in Tick(token)} = SettledOf(token)
<1>0. AgreementsAsOnChain
  BY TablesAreRight
<1>1. \A x : AgreementOf(x)[1] = OrderOf(x)
  BY DEF AgreementOf
<1>2. ASSUME NEW k \in Tick(token) PROVE k.id \in SettledOf(token)
  <2>1. PICK a \in rows.agreements : /\ k.id = a.id /\ a.status = "DONE"
                                     /\ \E o \in rows.orders : o.order = a.id[1] /\ o.token = token
    BY DEF Tick
  <2>2. PICK e \in Known("Agree", done) : /\ e.amount <= MaxSize /\ a.id = AgreementOf(e)
                                          /\ a.status = Status(AgreementOf(e))
    BY <1>0, AgreementRows
  <2>3. DoneUpTo(AgreementOf(e), done)
    BY <2>1, <2>2, StatusMeans
  <2>4. PICK s \in Known("SettlementOK", done) : AgreementOf(s) = AgreementOf(e)
    BY <2>3 DEF DoneUpTo
  <2>5. OrderOf(s) = a.id[1]
    BY <1>1, <2>2, <2>4
  <2> QED BY <2>1, <2>2, <2>4, <2>5 DEF SettledOf
<1>3. ASSUME NEW id \in SettledOf(token) PROVE \E k \in Tick(token) : k.id = id
  <2>1. PICK s \in Known("SettlementOK", done) :
           /\ id = AgreementOf(s)
           /\ \E a \in Known("Agree", done) : AgreementOf(a) = AgreementOf(s) /\ a.amount <= MaxSize
           /\ \E o \in rows.orders : o.order = OrderOf(s) /\ o.token = token
    BY DEF SettledOf
  <2>2. PICK a \in rows.agreements : a.id = id /\ a.status = Status(id)
    BY <1>0, <2>1, AgreementRows
  <2>3. a.status = "DONE"
    <3>1. DoneUpTo(id, done)
      BY <2>1 DEF DoneUpTo
    <3> QED BY <2>2, <3>1, StatusMeans
  <2>4. a.id[1] = OrderOf(s)
    BY <1>1, <2>1, <2>2
  <2>5. [id |-> a.id, buyer |-> a.buyer, seller |-> a.seller] \in Tick(token)
    BY <2>1, <2>3, <2>4 DEF Tick
  <2> QED BY <2>2, <2>5
<1> QED BY <1>2, <1>3

\* The ticks of two tokens.
LEMMA TicksAnswered ==
    ASSUME Assumptions, DexInv
    PROVE  TicksAsOnChain
<1> SUFFICES ASSUME NEW s \in Token, NEW t \in Token, NEW failing \in {{}, {1}}
             PROVE  LET answer == Ticks(<<s, t>>, failing)
                    IN  /\ failing = {} => DOMAIN answer = {1, 2}
                        /\ AsSettled(answer)
  BY DEF TicksAsOnChain, ListAllMembershipTick, ListAllCouponTick
<1> DEFINE all == <<s, t>>
           answer == Ticks(all, failing)
           answered == {i \in DOMAIN all : \A j \in failing : j < i}
<1>1. answer = [i \in answered |-> [token |-> all[i], tick |-> Tick(all[i])]]
  BY DEF Ticks
<1>2. DOMAIN all = {1, 2} /\ (failing = {} => answered = {1, 2})
  OBVIOUS
<1> HIDE DEF all, answer, answered
<1>3. ASSUME NEW i \in DOMAIN answer
      PROVE  {k.id : k \in answer[i].tick} = SettledOf(answer[i].token)
  <2>1. answer[i].token = all[i] /\ answer[i].tick = Tick(all[i])
    BY <1>1
  <2>2. {k.id : k \in Tick(all[i])} = SettledOf(all[i])
    BY TicksAreRight
  <2> QED BY <2>1, <2>2
<1> QED BY <1>1, <1>2, <1>3 DEF all, answer, AsSettled

------------------------------------------------------------------------------
(* What a step leaves to a request.                                          *)

\* The blocks that were there are as they were, the tables are those of the same or a later
\* block, and no order leaves them.
Onward ==
    /\ done \in Nat /\ Len(chain) \in Nat /\ done <= Len(chain)
    /\ done' \in Nat /\ Len(chain') \in Nat /\ done' <= Len(chain')
    /\ done <= done' /\ Len(chain) <= Len(chain')
    /\ \A h \in Int : h <= Len(chain) => \A kind : Known(kind, h)' = Known(kind, h)
    /\ \A o \in rows.orders : \E s \in rows'.orders : s.order = o.order

\* A step of the indexer or of the environment.
LEMMA StepsGoOn ==
    ASSUME Assumptions, OneNode, DexInv, [Next]_vars
    PROVE  Onward
<1>0. /\ SyncTypeOK /\ HeadsCurrent /\ TablesRight /\ Exchange(chain)
      /\ done \in Nat /\ Len(chain) \in Nat /\ done <= Len(chain)
  <2>1. SyncTypeOK /\ HeadsCurrent /\ TablesRight /\ Exchange(chain)
    BY DEF DexInv, OnChain
  <2>2. done \in 0..MaxBlock /\ Len(chain) \in 0..MaxBlock /\ MaxBlock \in Nat
    BY <2>1, Numbers
  <2>3. done <= Len(chain)
    BY <2>1 DEF TablesRight
  <2> QED BY <2>1, <2>2, <2>3
<1>1. /\ DexInv' /\ done' \in Nat /\ Len(chain') \in Nat /\ done' <= Len(chain')
  <2>1. DexInv'
    BY DexInvariant
  <2>2. SyncTypeOK' /\ done' <= Len(chain')
    BY <2>1 DEF DexInv, TablesRight
  <2>3. MaxBlock \in Nat
    BY DEF Assumptions, ChainAssumption
  <2>4. done' \in Nat /\ Len(chain') \in Nat
    BY <2>2, <2>3 DEF SyncTypeOK, ChainTypeOK, BlockNumber
  <2> QED BY <2>1, <2>2, <2>4
<1>2. ASSUME UNCHANGED <<chain, rows, done>> PROVE Onward
  BY <1>0, <1>2, BlocksStay DEF Onward
<1>3. CASE InitialSync \/ SyncNewLogs
  <2>1. Opening
    BY <1>0, <1>3, SyncOpens
  <2> QED BY <1>2, <2>1 DEF Opening
<1>4. CASE Sync
  <2>1. \E k \in 1..6 : PassOver(k)
    BY <1>0, <1>4, PassReads
  <2> QED BY <1>2, <2>1 DEF PassOver
<1>5. CASE Commit
  <2>1. /\ pass = 7 /\ rows' = sess /\ chain' = chain
        /\ done' = (IF upto > done THEN upto ELSE done)
    <3>1. Len(Kinds) = 6
      BY KindOfPass
    <3> QED BY <1>5, <3>1 DEF Commit, chainVars
  <2>2. SessionBounds /\ OrdersRead
    BY <2>1 DEF DexInv, SessionRight
  <2>3. done <= done'
    BY <1>0, <2>1, Numbers
  <2>4. \A h \in Int : h <= Len(chain) => \A kind : Known(kind, h)' = Known(kind, h)
    BY <2>1, BlocksStay
  <2>5. \A o \in rows.orders : \E s \in rows'.orders : s.order = o.order
    BY <2>1, <2>2 DEF OrdersRead
  <2>6. Len(chain) <= Len(chain')
    BY <1>0, <2>1
  <2> QED BY <1>0, <1>1, <2>3, <2>4, <2>5, <2>6 DEF Onward
<1>6. CASE Fail \/ Restart
  BY <1>2, <1>6 DEF Fail, Restart, chainVars
<1>7. CASE World
  <2>1. Growing /\ UNCHANGED <<rows, done>>
    BY <1>0, <1>7, ChainGrows DEF World, syncVars
  <2>2. \A h \in Int : h <= Len(chain) => \A kind : Known(kind, h)' = Known(kind, h)
    BY <2>1, KnownStays
  <2>3. done <= done' /\ Len(chain) <= Len(chain')
    BY <1>0, <2>1 DEF Growing
  <2>4. \A o \in rows.orders : \E s \in rows'.orders : s.order = o.order
    BY <2>1
  <2> QED BY <1>0, <1>1, <2>2, <2>3, <2>4 DEF Onward
<1>8. CASE UNCHANGED vars
  BY <1>2, <1>8 DEF vars, chainVars, syncVars
<1> QED BY <1>3, <1>4, <1>5, <1>6, <1>7, <1>8 DEF Next

\* What the blocks say of orders and agreements stays what it was ...
LEMMA SayingsStay ==
    ASSUME Onward, NEW h \in Int, h <= Len(chain)
    PROVE  /\ \A q : AgreedUpTo(q, h)' = AgreedUpTo(q, h)
           /\ \A q, order : Concerns(q, order, h)' <=> Concerns(q, order, h)
           /\ \A id : SettledUpTo(id, h)' <=> SettledUpTo(id, h)
           /\ \A order : ChainOrder(order, h)' = ChainOrder(order, h)
<1>1. \A kind : Known(kind, h)' = Known(kind, h)
  BY DEF Onward
<1>2. \A q, order : Concerns(q, order, h)' <=> Concerns(q, order, h)
  BY <1>1 DEF Concerns
<1>3. \A q : AgreedUpTo(q, h)' = AgreedUpTo(q, h)
  BY <1>1, <1>2 DEF AgreedUpTo
<1>4. \A id : SettledUpTo(id, h)' <=> SettledUpTo(id, h)
  BY <1>1 DEF SettledUpTo
<1>5. \A order : ChainOrder(order, h)' = ChainOrder(order, h)
  <2> TAKE order
  <2>1. /\ Agreed(order, h)' = Agreed(order, h)
        /\ Undone(order, h)' = Undone(order, h)
    BY <1>1 DEF Agreed, Undone
  <2>2. {e \in Known("NewOrder", h) : OrderOf(e) = order}' =
           {e \in Known("NewOrder", h) : OrderOf(e) = order}
    BY <1>1
  <2>3. PICK x, y, z : /\ x = Total({e \in Known("NewOrder", h) : OrderOf(e) = order})
                       /\ y = Total(Agreed(order, h)) /\ z = Total(Undone(order, h))
    OBVIOUS
  <2>4. /\ x = Total({e \in Known("NewOrder", h) : OrderOf(e) = order})'
        /\ y = Total(Agreed(order, h))' /\ z = Total(Undone(order, h))'
    BY <2>1, <2>2, <2>3
  <2>5. PICK c \in BOOLEAN :
           c <=> \E e \in Known("CancelOrder", h) \union Known("ForceCancelOrder", h) :
                    OrderOf(e) = order
    OBVIOUS
  <2>6. c <=> (\E e \in Known("CancelOrder", h) \union Known("ForceCancelOrder", h) :
                    OrderOf(e) = order)'
    BY <1>1, <2>5
  <2>7. ChainOrder(order, h) = [amount |-> x - y + z, canceled |-> c]
    BY <2>3, <2>5 DEF ChainOrder
  <2>8. ChainOrder(order, h)' = [amount |-> x - y + z, canceled |-> c]
    BY <2>4, <2>6 DEF ChainOrder
  <2> QED BY <2>7, <2>8
<1> QED BY <1>2, <1>3, <1>4, <1>5

\* ... and holds further on.
LEMMA SayingsHold ==
    ASSUME Onward, NEW d, NEW e, d = done, e = done'
    PROVE  /\ \A q : AgreedUpTo(q, d) \subseteq AgreedUpTo(q, e)'
           /\ \A id : SettledUpTo(id, d) => SettledUpTo(id, e)'
           /\ \A id : DoneUpTo(id, d) => DoneUpTo(id, e)'
           /\ \A id : AgreementCanceled(id, d) => AgreementCanceled(id, e)'
<1>1. d \in Int /\ e \in Int /\ d <= e /\ d <= Len(chain)
  BY DEF Onward
<1>2. ASSUME NEW kind PROVE Known(kind, d) \subseteq Known(kind, e)'
  <2>1. Known(kind, d)' = Known(kind, d)
    BY <1>1 DEF Onward
  <2>2. \A b \in Block : b <= d => b <= e
    BY <1>1 DEF Block
  <2>3. Known(kind, d)' \subseteq Known(kind, e)'
    BY <2>2 DEF Known
  <2> QED BY <2>1, <2>3
<1>3. \A q, order : Concerns(q, order, d) => Concerns(q, order, e)'
  BY <1>2 DEF Concerns
<1>4. \A q : AgreedUpTo(q, d) \subseteq AgreedUpTo(q, e)'
  BY <1>2, <1>3 DEF AgreedUpTo
<1>5. \A id : SettledUpTo(id, d) => SettledUpTo(id, e)'
  BY <1>2 DEF SettledUpTo
<1> QED BY <1>2, <1>4, <1>5 DEF DoneUpTo, AgreementCanceled

\* So a request that is right stays right while the rest of the system goes on.
LEMMA RightStays ==
    ASSUME Onward, NEW r, NEW d, NEW n, NEW e, NEW m,
           d = done, n = Len(chain), e = done', m = Len(chain'), Right(r, d, n)
    PROVE  Right(r, e, m)'
<1>1. /\ d \in Int /\ e \in Int /\ n \in Int /\ m \in Int
      /\ d <= e /\ n <= m /\ d <= n /\ e <= m /\ 0 <= d
  BY DEF Onward
<1>2. RequestShape(r, d)
  BY DEF Right
<1>3. RequestShape(r, e)
  BY <1>1, <1>2 DEF RequestShape
<1>4. /\ r.since \in Int /\ r.since <= Len(chain) /\ r.since <= n /\ r.since <= d
  BY <1>1, <1>2 DEF RequestShape
<1>5. /\ \A order : ChainOrder(order, r.since)' = ChainOrder(order, r.since)
      /\ \A order : Concerns(r.query, order, r.since)' <=> Concerns(r.query, order, r.since)
      /\ \A id : SettledUpTo(id, r.since)' <=> SettledUpTo(id, r.since)
      /\ AgreedUpTo(r.query, r.since)' = AgreedUpTo(r.query, r.since)
      /\ Known("NewOrder", r.since)' = Known("NewOrder", r.since)
  <2>1. PICK h \in Int : h = r.since /\ h <= Len(chain)
    BY <1>4
  <2>2. Known("NewOrder", h)' = Known("NewOrder", h)
    BY <2>1 DEF Onward
  <2> QED BY <2>1, <2>2, SayingsStay
<1>6. \A h \in r.since..n : /\ h \in r.since..m
                            /\ \A order : ChainOrder(order, h)' = ChainOrder(order, h)
  <2> TAKE h \in r.since..n
  <2>1. h \in Int /\ h <= Len(chain) /\ h \in r.since..m
    BY <1>1, <1>4
  <2> QED BY <2>1, SayingsStay
<1>7. OrdersShown(r, m)'
  <2>1. OrdersShown(r, n)
    BY DEF Right
  <2> QED BY <1>5, <1>6, <2>1 DEF OrdersShown
<1>8. OrdersCovered(r, m)'
  <2>1. OrdersCovered(r, n)
    BY DEF Right
  <2> QED BY <1>5, <1>6, <2>1 DEF OrdersCovered
<1>9. /\ \A id \in AgreedUpTo(r.query, d) : id \in AgreedUpTo(r.query, e)'
      /\ \A id : SettledUpTo(id, d) => SettledUpTo(id, e)'
      /\ \A id : DoneUpTo(id, d) => DoneUpTo(id, e)'
      /\ \A id : AgreementCanceled(id, d) => AgreementCanceled(id, e)'
  BY SayingsHold
<1>10. AgreementsShownRight(r, e)'
  <2>1. AgreementsShownRight(r, d)
    BY DEF Right
  <2>2. /\ \A x \in PendingOnes(r) : x.id \in AgreedUpTo(r.query, d) /\ ~SettledUpTo(x.id, r.since)
        /\ \A x \in ClosedOnes(r) : /\ x.id \in AgreedUpTo(r.query, d) /\ SettledUpTo(x.id, d)
                                    /\ ~r.query.withCanceled => DoneUpTo(x.id, d)
        /\ \A x \in ClosedMade(r) : ~r.query.withCanceled => ~x.canceled
    BY <2>1 DEF AgreementsShownRight
  <2>3. \A x \in PendingOnes(r) :
           x.id \in AgreedUpTo(r.query, e)' /\ ~SettledUpTo(x.id, r.since)'
    BY <1>5, <1>9, <2>2
  <2>4. \A x \in ClosedOnes(r) : /\ x.id \in AgreedUpTo(r.query, e)' /\ SettledUpTo(x.id, e)'
                                 /\ ~r.query.withCanceled => DoneUpTo(x.id, e)'
    BY <1>9, <2>2
  <2> QED BY <2>2, <2>3, <2>4 DEF AgreementsShownRight
<1>11. AgreementsCovered(r, e)'
  <2>1. AgreementsCovered(r, d)
    BY DEF Right
  <2> QED BY <1>5, <1>9, <2>1 DEF AgreementsCovered
<1>12. KnownKept(r)'
  <2>1. KnownKept(r)
    BY DEF Right
  <2> QED BY <2>1 DEF KnownKept, Onward
<1> QED BY <1>3, <1>7, <1>8, <1>10, <1>11, <1>12 DEF Right

------------------------------------------------------------------------------
(* The steps of a request.                                                   *)

\* The lists.
LEMMA ListNames ==
    /\ Lists[1] = "orders" /\ Lists[2] = "settlements" /\ Lists[3] = "completed"
    /\ Answered = 4
    /\ \A q : /\ Found("orders", q) = GetOrderList(q)
              /\ Found("settlements", q) = GetSettlementList(q)
              /\ Found("completed", q) = GetCompleteList(q)
BY DEF Lists, Answered, Found

\* An order of the tables that is asked for is found, unless it is cancelled.
LEMMA OrdersFound ==
    ASSUME Assumptions, DexInv, NEW q, NEW o \in rows.orders
    PROVE  /\ o \in GetOrderList(q) /\ ~q.withCanceled => ~ChainOrder(o.order, done).canceled
           /\ \A e \in Known("NewOrder", done) :
                 (o.order = OrderOf(e) /\ e.account = q.account /\ Concerns(q, OrderOf(e), done)) =>
                    \/ o \in GetOrderList(q)
                    \/ ~q.withCanceled /\ ChainOrder(OrderOf(e), done).canceled
<1>1. PICK f \in Known("NewOrder", done) :
         /\ o.order = OrderOf(f) /\ o.token = f.token /\ o.account = f.account
         /\ o.cancelled = Cancelled(o.order)
  BY TablesAreRight, OrderRows
<1>2. o.cancelled <=> ChainOrder(o.order, done).canceled
  BY <1>1, CancelledMeans
<1>3. o \in GetOrderList(q) /\ ~q.withCanceled => ~ChainOrder(o.order, done).canceled
  BY <1>2 DEF GetOrderList
<1>4. ASSUME NEW e \in Known("NewOrder", done), o.order = OrderOf(e), e.account = q.account,
             Concerns(q, OrderOf(e), done), q.withCanceled \/ ~ChainOrder(OrderOf(e), done).canceled
      PROVE  o \in GetOrderList(q)
  <2>1. e = f
    BY <1>1, <1>4, NumbersAreUnique
  <2>2. OrderAsked(o, q)
    <3>1. CASE OnExchange(OrderOf(e), q)
      BY <1>4, <3>1 DEF OrderAsked
    <3>2. ASSUME q.by = "token", NEW x \in Known("NewOrder", done), OrderOf(x) = OrderOf(e),
                 x.token = q.of
          PROVE  OrderAsked(o, q)
      <4>1. x = f
        BY <1>1, <1>4, <3>2, NumbersAreUnique
      <4> QED BY <1>1, <3>2, <4>1 DEF OrderAsked
    <3> QED BY <1>4, <3>1, <3>2 DEF Concerns
  <2>3. q.withCanceled \/ ~o.cancelled
    BY <1>2, <1>4
  <2> QED BY <1>1, <1>4, <2>1, <2>2, <2>3 DEF GetOrderList
<1> QED BY <1>3, <1>4

\* A request begins.
LEMMA AskedRight ==
    ASSUME Assumptions, DexInv, NEW q, NEW r,
           r = [at |-> 1, query |-> q, rest |-> Found(Lists[1], q), part |-> {},
                answer |-> NoAnswer, failed |-> FALSE,
                since |-> done, known |-> {o.order : o \in rows.orders}]
    PROVE  Right(r, done, Len(chain))
<1>0. r.rest = GetOrderList(q)
  BY ListNames
<1>1. /\ r.at = 1 /\ r.query = q /\ r.part = {} /\ r.answer = NoAnswer
      /\ r.failed = FALSE /\ r.since = done /\ r.known = {o.order : o \in rows.orders}
  OBVIOUS
<1>2. NoAnswer.orders = {} /\ NoAnswer.settlements = {} /\ NoAnswer.completed = {}
  BY DEF NoAnswer
<1>3. OrdersLeft(r) = GetOrderList(q) /\ OrdersMade(r) = {}
  BY <1>0, <1>1 DEF OrdersLeft, OrdersMade
<1>4. PendingOnes(r) = {} /\ ClosedOnes(r) = {} /\ ClosedMade(r) = {}
  BY <1>1, <1>2 DEF PendingOnes, ClosedOnes, ClosedMade
<1>5. RequestShape(r, done)
  <2>1. done \in Nat
    BY Numbers DEF DexInv
  <2> QED BY <1>1, <2>1 DEF RequestShape, NoAnswer
<1>6. GetOrderList(q) \subseteq rows.orders
  BY DEF GetOrderList
<1>7. OrdersShown(r, Len(chain))
  <2>1. \A x \in GetOrderList(q) : ~q.withCanceled => ~ChainOrder(x.order, done).canceled
    BY <1>6, OrdersFound
  <2> QED BY <1>1, <1>3, <2>1 DEF OrdersShown
<1>8. OrdersCovered(r, Len(chain))
  <2> SUFFICES ASSUME NEW e \in Known("NewOrder", done), OrderOf(e) \in r.known,
                      e.account = q.account, Concerns(q, OrderOf(e), done),
                      ~(~q.withCanceled /\ ChainOrder(OrderOf(e), done).canceled)
               PROVE  OrderIn(r, OrderOf(e))
    BY <1>1 DEF OrdersCovered
  <2>1. PICK o \in rows.orders : o.order = OrderOf(e)
    BY <1>1
  <2>2. o \in GetOrderList(q)
    BY <2>1, OrdersFound
  <2> QED BY <1>3, <2>1, <2>2 DEF OrderIn
<1>9. AgreementsShownRight(r, done) /\ AgreementsCovered(r, done)
  BY <1>1, <1>4 DEF AgreementsShownRight, AgreementsCovered
<1>10. KnownKept(r)
  BY <1>1 DEF KnownKept
<1> QED BY <1>5, <1>7, <1>8, <1>9, <1>10 DEF Right

\* What the queries for agreements find, and what they do not miss.
LEMMA AgreementsFound ==
    ASSUME Assumptions, DexInv, NEW q, NEW S
    PROVE  /\ \A a \in AgreementsOf(q, S) :
                 a.id \in AgreedUpTo(q, done) /\ Status(a.id) \in S
           /\ \A g \in 0..done : \A id \in AgreedUpTo(q, g) :
                 (Status(id) \in S /\ (q.by = "token" => \E o \in rows.orders : o.order = id[1]))
                    => \E a \in AgreementsOf(q, S) : a.id = id
<1>0. /\ OrdersAsOnChain /\ AgreementsAsOnChain /\ done \in Nat
      /\ \A x : AgreementOf(x)[1] = OrderOf(x)
  BY TablesAreRight, Numbers DEF DexInv, AgreementOf
<1>1. ASSUME NEW a \in AgreementsOf(q, S)
      PROVE  a.id \in AgreedUpTo(q, done) /\ Status(a.id) \in S
  <2>1. /\ a \in rows.agreements /\ q.account \in {a.buyer, a.seller} /\ a.status \in S
        /\ \/ OnExchange(a.id[1], q)
           \/ q.by = "token" /\ (\E o \in rows.orders : o.order = a.id[1] /\ o.token = q.of)
    BY DEF AgreementsOf
  <2>2. PICK e \in Known("Agree", done) :
           /\ e.amount <= MaxSize /\ a.id = AgreementOf(e)
           /\ a.buyer = e.buyer /\ a.seller = e.seller /\ a.status = Status(AgreementOf(e))
    BY <1>0, <2>1, AgreementRows
  <2>3. Concerns(q, OrderOf(e), done)
    <3>1. CASE OnExchange(a.id[1], q)
      BY <1>0, <2>2, <3>1 DEF Concerns
    <3>2. ASSUME q.by = "token", NEW o \in rows.orders, o.order = a.id[1], o.token = q.of
          PROVE  Concerns(q, OrderOf(e), done)
      <4>1. PICK f \in Known("NewOrder", done) : o.order = OrderOf(f) /\ o.token = f.token
        BY <1>0, OrderRows
      <4> QED BY <1>0, <2>2, <3>2, <4>1 DEF Concerns
    <3> QED BY <2>1, <3>1, <3>2
  <2> QED BY <2>1, <2>2, <2>3 DEF AgreedUpTo
<1>2. ASSUME NEW g \in 0..done, NEW id \in AgreedUpTo(q, g), Status(id) \in S,
             q.by = "token" => \E o \in rows.orders : o.order = id[1]
      PROVE  \E a \in AgreementsOf(q, S) : a.id = id
  <2>0. \A kind : Known(kind, g) \subseteq Known(kind, done)
    BY <1>0, KnownMore
  <2>1. PICK e \in Known("Agree", done) :
           /\ id = AgreementOf(e) /\ e.amount <= MaxSize /\ q.account \in {e.buyer, e.seller}
           /\ Concerns(q, OrderOf(e), g)
    BY <2>0 DEF AgreedUpTo
  <2>2. PICK a \in rows.agreements :
           /\ a.id = id /\ a.buyer = e.buyer /\ a.seller = e.seller /\ a.status = Status(id)
    BY <1>0, <2>1, AgreementRows
  <2>3. \/ OnExchange(a.id[1], q)
        \/ q.by = "token" /\ (\E o \in rows.orders : o.order = a.id[1] /\ o.token = q.of)
    <3>1. CASE OnExchange(OrderOf(e), q)
      BY <1>0, <2>1, <2>2, <3>1
    <3>2. ASSUME q.by = "token", NEW x \in Known("NewOrder", g), OrderOf(x) = OrderOf(e),
                 x.token = q.of
          PROVE  q.by = "token" /\ \E o \in rows.orders : o.order = a.id[1] /\ o.token = q.of
      <4>1. PICK o \in rows.orders : o.order = id[1]
        BY <1>2, <3>2
      <4>2. PICK f \in Known("NewOrder", done) : o.order = OrderOf(f) /\ o.token = f.token
        BY <1>0, OrderRows
      <4>3. x \in Known("NewOrder", done) /\ OrderOf(f) = OrderOf(x)
        BY <1>0, <2>0, <2>1, <3>2, <4>1, <4>2
      <4>4. f = x
        BY <4>3, NumbersAreUnique
      <4> QED BY <2>2, <3>2, <4>1, <4>2, <4>4
    <3> QED BY <2>1, <3>1, <3>2 DEF Concerns
  <2>4. a \in AgreementsOf(q, S)
    BY <1>2, <2>1, <2>2, <2>3 DEF AgreementsOf
  <2> QED BY <2>2, <2>4
<1> QED BY <1>1, <1>2

\* A contract is called for a row.
LEMMA CallRight ==
    ASSUME Assumptions, DexInv, NEW p, Right(p, done, Len(chain)), p.at \in 1..3, NEW row \in p.rest,
           NEW r, r = [p EXCEPT !.rest = @ \ {row},
                                !.part = @ \union Entries(Lists[p.at], row, p.query, Len(chain))]
    PROVE  Right(r, done, Len(chain))
<1> DEFINE new == Entries(Lists[p.at], row, p.query, Len(chain))
           n == Len(chain)
<1>0. /\ RequestShape(p, done) /\ OrdersShown(p, n) /\ OrdersCovered(p, n)
      /\ AgreementsShownRight(p, done) /\ AgreementsCovered(p, done) /\ KnownKept(p)
  BY DEF Right
<1>1. /\ done \in Nat /\ n \in Nat /\ done <= n /\ p.since \in 0..done /\ n \in p.since..n
  <2>1. SyncTypeOK /\ TablesRight
    BY DEF DexInv
  <2>2. done <= n
    BY <2>1 DEF TablesRight
  <2>3. done \in Nat /\ n \in Nat
    BY <2>1, Numbers
  <2>4. p.since \in 0..done
    BY <1>0 DEF RequestShape
  <2> HIDE DEF n
  <2> QED BY <2>2, <2>3, <2>4
<1> HIDE DEF new, n
<1>2. /\ r.at = p.at /\ r.query = p.query /\ r.rest = p.rest \ {row} /\ r.part = p.part \union new
      /\ r.answer = p.answer /\ r.failed = p.failed /\ r.since = p.since /\ r.known = p.known
      /\ r = [at |-> r.at, query |-> r.query, rest |-> r.rest, part |-> r.part,
              answer |-> r.answer, failed |-> r.failed, since |-> r.since, known |-> r.known]
  <2>1. p = [at |-> p.at, query |-> p.query, rest |-> p.rest, part |-> p.part,
             answer |-> p.answer, failed |-> p.failed, since |-> p.since, known |-> p.known]
    BY <1>0 DEF RequestShape
  <2>2. r = [p EXCEPT !.rest = p.rest \ {row}, !.part = p.part \union new]
    BY DEF new
  <2> QED BY <2>1, <2>2
<1>3. RequestShape(r, done)
  BY <1>0, <1>2 DEF RequestShape
<1>4. KnownKept(r)
  BY <1>0, <1>2 DEF KnownKept
<1>5. CASE p.at = 1
  <2>1. /\ new \subseteq {OrderEntry(row, n)}
        /\ OrderEntry(row, n) \in new <=> OrderEntry(row, n).amount # 0
    BY <1>5, ListNames DEF new, n, Entries
  <2>2. /\ OrderEntry(row, n).order = row.order
        /\ OrderEntry(row, n).amount = ChainOrder(row.order, n).amount
    BY DEF OrderEntry
  <2>3. /\ OrdersLeft(p) = p.rest /\ OrdersMade(p) = p.part
        /\ OrdersLeft(r) = p.rest \ {row} /\ OrdersMade(r) = p.part \union new
    BY <1>2, <1>5 DEF OrdersLeft, OrdersMade
  <2>4. /\ PendingOnes(r) = PendingOnes(p) /\ ClosedOnes(r) = ClosedOnes(p)
        /\ ClosedMade(r) = ClosedMade(p)
    BY <1>2, <1>5 DEF PendingOnes, ClosedOnes, ClosedMade
  <2>5. \A x \in new : x.order = row.order /\ x.amount = ChainOrder(row.order, n).amount
                         /\ x.amount # 0
    BY <2>1, <2>2
  <2>6. OrdersShown(r, n)
    <3>1. \A x \in p.rest \union p.part :
             ~p.query.withCanceled => ~ChainOrder(x.order, p.since).canceled
      BY <1>0, <1>5, <2>3 DEF OrdersShown
    <3>2. \A x \in p.part : \E h \in p.since..n :
             x.amount = ChainOrder(x.order, h).amount /\ x.amount # 0
      BY <1>0, <1>5, <2>3 DEF OrdersShown
    <3>3. \A x \in (p.rest \ {row}) \union (p.part \union new) :
             ~p.query.withCanceled => ~ChainOrder(x.order, p.since).canceled
      BY <2>5, <3>1
    <3>4. \A x \in p.part \union new : \E h \in p.since..n :
             x.amount = ChainOrder(x.order, h).amount /\ x.amount # 0
      BY <1>1, <2>5, <3>2
    <3> QED BY <1>2, <2>3, <3>3, <3>4 DEF OrdersShown
  <2>7. OrdersCovered(r, n)
    <3>1. ASSUME NEW order, OrderIn(p, order)
          PROVE  OrderIn(r, order) \/ \E h \in p.since..n : ChainOrder(order, h).amount = 0
      <4>1. PICK x \in p.rest \union p.part : x.order = order
        BY <2>3, <3>1 DEF OrderIn
      <4>2. CASE x # row \/ x \in p.part
        BY <2>3, <4>1, <4>2 DEF OrderIn
      <4>3. CASE x = row /\ OrderEntry(row, n) \in new
        BY <2>2, <2>3, <4>1, <4>3 DEF OrderIn
      <4>4. CASE x = row /\ OrderEntry(row, n) \notin new
        BY <1>1, <2>1, <2>2, <4>1, <4>4
      <4> QED BY <4>2, <4>3, <4>4
    <3> QED BY <1>0, <1>2, <3>1 DEF OrdersCovered
  <2>8. AgreementsShownRight(r, done) /\ AgreementsCovered(r, done)
    BY <1>0, <1>2, <1>5, <2>4 DEF AgreementsShownRight, AgreementsCovered, AgreementIn
  <2> QED BY <1>3, <1>4, <2>6, <2>7, <2>8 DEF Right, n
<1>6. CASE p.at \in 2..3
  <2>1. /\ OrdersLeft(r) = OrdersLeft(p) /\ OrdersMade(r) = OrdersMade(p)
    BY <1>2, <1>6 DEF OrdersLeft, OrdersMade
  <2>2. OrdersShown(r, n) /\ OrdersCovered(r, n)
    BY <1>0, <1>2, <2>1 DEF OrdersShown, OrdersCovered, OrderIn
  <2>3. new = {AgreementEntry(row, p.query.account, n)}
    BY <1>6, ListNames DEF new, n, Entries
  <2>4. /\ AgreementEntry(row, p.query.account, n).id = row.id
        /\ AgreementEntry(row, p.query.account, n).canceled = AgreementCanceled(row.id, n)
    BY DEF AgreementEntry
  <2>5. \A x \in new : x.id = row.id /\ x.canceled = AgreementCanceled(row.id, n)
    BY <2>3, <2>4
  <2>6. /\ \A x \in PendingOnes(r) : \E y \in PendingOnes(p) : y.id = x.id
        /\ \A x \in ClosedOnes(r) : \E y \in ClosedOnes(p) : y.id = x.id
        /\ \A y \in PendingOnes(p) : \E x \in PendingOnes(r) : y.id = x.id
        /\ \A y \in ClosedOnes(p) : \E x \in ClosedOnes(r) : y.id = x.id
    <3>1. /\ \A x \in (p.rest \ {row}) \union (p.part \union new) :
                \E y \in p.rest \union p.part : y.id = x.id
          /\ \A y \in p.rest \union p.part :
                \E x \in (p.rest \ {row}) \union (p.part \union new) : y.id = x.id
      BY <2>3, <2>5
    <3> QED BY <1>2, <3>1 DEF PendingOnes, ClosedOnes
  <2>7. \A x \in ClosedMade(r) : ~p.query.withCanceled => ~x.canceled
    <3>1. \A x \in ClosedMade(p) : ~p.query.withCanceled => ~x.canceled
      BY <1>0 DEF AgreementsShownRight
    <3>2. ASSUME p.at = 3, ~p.query.withCanceled PROVE \A x \in new : ~x.canceled
      <4>1. row \in ClosedOnes(p)
        BY <3>2 DEF ClosedOnes
      <4>2. DoneUpTo(row.id, done)
        BY <1>0, <3>2, <4>1 DEF AgreementsShownRight
      <4>3. ~AgreementCanceled(row.id, n)
        BY <1>1, <4>2, StatusMeans
      <4> QED BY <2>5, <4>3
    <3> QED BY <1>2, <3>1, <3>2 DEF ClosedMade
  <2>8. AgreementsShownRight(r, done)
    BY <1>0, <1>2, <2>6, <2>7 DEF AgreementsShownRight
  <2>9. AgreementsCovered(r, done)
    <3>1. \A id : AgreementIn(p, id) => AgreementIn(r, id)
      BY <2>6 DEF AgreementIn
    <3> QED BY <1>0, <1>2, <3>1 DEF AgreementsCovered
  <2> QED BY <1>3, <1>4, <2>2, <2>8, <2>9 DEF Right, n
<1> QED BY <1>5, <1>6

\* A list is complete, and the next query is made.
LEMMA ListRight ==
    ASSUME Assumptions, DexInv, NEW p, Right(p, done, Len(chain)), p.at \in 1..3, p.rest = {}, NEW r,
           r = [p EXCEPT !.at = @ + 1,
                         !.rest = IF p.at + 1 = Answered THEN {}
                                  ELSE Found(Lists[p.at + 1], p.query),
                         !.part = {},
                         !.answer = [@ EXCEPT ![Lists[p.at]] = p.part]]
    PROVE  Right(r, done, Len(chain))
<1> DEFINE n == Len(chain)
           next == IF p.at + 1 = Answered THEN {} ELSE Found(Lists[p.at + 1], p.query)
           answer == [p.answer EXCEPT ![Lists[p.at]] = p.part]
<1>0. /\ RequestShape(p, done) /\ OrdersShown(p, n) /\ OrdersCovered(p, n)
      /\ AgreementsShownRight(p, done) /\ AgreementsCovered(p, done) /\ KnownKept(p)
  BY DEF Right
<1>1. done \in Nat /\ p.since \in 0..done /\ ~p.failed
  BY <1>0, Numbers DEF DexInv, RequestShape
<1> HIDE DEF n, next, answer
<1>2. /\ r.at = p.at + 1 /\ r.query = p.query /\ r.rest = next /\ r.part = {}
      /\ r.answer = answer /\ r.failed = p.failed /\ r.since = p.since /\ r.known = p.known
      /\ r = [at |-> r.at, query |-> r.query, rest |-> r.rest, part |-> r.part,
              answer |-> r.answer, failed |-> r.failed, since |-> r.since, known |-> r.known]
  <2>1. p = [at |-> p.at, query |-> p.query, rest |-> p.rest, part |-> p.part,
             answer |-> p.answer, failed |-> p.failed, since |-> p.since, known |-> p.known]
    BY <1>0 DEF RequestShape
  <2>2. r = [p EXCEPT !.at = p.at + 1, !.rest = next, !.part = {}, !.answer = answer]
    BY DEF next, answer
  <2> QED BY <2>1, <2>2
<1>3. /\ answer = [orders |-> answer.orders, settlements |-> answer.settlements,
                   completed |-> answer.completed]
      /\ answer.orders = IF p.at = 1 THEN p.part ELSE p.answer.orders
      /\ answer.settlements = IF p.at = 2 THEN p.part ELSE p.answer.settlements
      /\ answer.completed = IF p.at = 3 THEN p.part ELSE p.answer.completed
  <2>1. p.answer = [orders |-> p.answer.orders, settlements |-> p.answer.settlements,
                    completed |-> p.answer.completed]
    BY <1>0 DEF RequestShape
  <2>2. CASE p.at = 1
    <3>1. answer = [p.answer EXCEPT !["orders"] = p.part]
      BY <2>2, ListNames DEF answer
    <3> QED BY <2>1, <2>2, <3>1
  <2>3. CASE p.at = 2
    <3>1. answer = [p.answer EXCEPT !["settlements"] = p.part]
      BY <2>3, ListNames DEF answer
    <3> QED BY <2>1, <2>3, <3>1
  <2>4. CASE p.at = 3
    <3>1. answer = [p.answer EXCEPT !["completed"] = p.part]
      BY <2>4, ListNames DEF answer
    <3> QED BY <2>1, <2>4, <3>1
  <2> QED BY <2>2, <2>3, <2>4
<1>4. /\ p.at = 1 => p.answer.settlements = {} /\ p.answer.completed = {}
      /\ p.at = 2 => p.answer.completed = {}
  BY <1>0 DEF RequestShape, NoAnswer
<1>5. RequestShape(r, done)
  BY <1>0, <1>2, <1>3, <1>4 DEF RequestShape
<1>6. KnownKept(r)
  BY <1>0, <1>2 DEF KnownKept
<1>7. OrdersShown(r, n) /\ OrdersCovered(r, n)
  <2>1. OrdersLeft(r) = {} /\ OrdersLeft(p) = {} /\ OrdersMade(r) = OrdersMade(p)
    BY <1>2, <1>3 DEF OrdersLeft, OrdersMade
  <2> QED BY <1>0, <1>2, <2>1 DEF OrdersShown, OrdersCovered, OrderIn
<1>8. /\ p.at = 1 => next = AgreementsOf(p.query, {"PENDING"})
      /\ p.at = 2 => next = AgreementsOf(p.query, IF p.query.withCanceled THEN {"DONE", "CANCELED"}
                                                  ELSE {"DONE"})
  BY ListNames DEF next, GetSettlementList, GetCompleteList
<1>9. \A id \in AgreedUpTo(p.query, p.since) :
         \/ p.query.by = "token" => \E o \in rows.orders : o.order = id[1]
         \/ p.query.by = "token" /\ id[1] \notin p.known
  BY <1>0 DEF KnownKept
<1>10. CASE p.at = 1
  <2>1. PendingOnes(r) = next /\ ClosedOnes(r) = {} /\ ClosedMade(r) = {}
    BY <1>2, <1>3, <1>4, <1>10 DEF PendingOnes, ClosedOnes, ClosedMade
  <2>2. AgreementsShownRight(r, done)
    <3>1. ASSUME NEW x \in next
          PROVE  x.id \in AgreedUpTo(p.query, done) /\ ~SettledUpTo(x.id, p.since)
      <4>1. x.id \in AgreedUpTo(p.query, done) /\ Status(x.id) \in {"PENDING"}
        BY <1>8, <1>10, AgreementsFound
      <4>2. ~SettledUpTo(x.id, done)
        BY <4>1, StatusMeans
      <4>3. SettledUpTo(x.id, p.since) => SettledUpTo(x.id, done)
        BY <1>1, KnownMore DEF SettledUpTo
      <4> QED BY <4>1, <4>2, <4>3
    <3> QED BY <1>2, <2>1, <3>1 DEF AgreementsShownRight
  <2>3. AgreementsCovered(r, done)
    <3>1. ASSUME NEW id \in AgreedUpTo(p.query, p.since), ~SettledUpTo(id, done),
                 p.query.by = "token" => \E o \in rows.orders : o.order = id[1]
          PROVE  AgreementIn(r, id)
      <4>1. Status(id) \in {"PENDING"}
        BY <3>1, StatusMeans
      <4>2. \E a \in next : a.id = id
        BY <1>1, <1>8, <1>10, <3>1, <4>1, AgreementsFound
      <4> QED BY <2>1, <4>2 DEF AgreementIn
    <3> QED BY <1>2, <1>9, <1>10, <3>1 DEF AgreementsCovered
  <2> QED BY <1>5, <1>6, <1>7, <2>2, <2>3 DEF Right, n
<1>11. CASE p.at = 2
  <2>1. /\ PendingOnes(r) = PendingOnes(p) /\ ClosedOnes(r) = next /\ ClosedMade(r) = {}
        /\ ClosedOnes(p) = {}
    BY <1>2, <1>3, <1>4, <1>11 DEF PendingOnes, ClosedOnes, ClosedMade
  <2>2. AgreementsShownRight(r, done)
    <3>1. ASSUME NEW x \in next
          PROVE  /\ x.id \in AgreedUpTo(p.query, done) /\ SettledUpTo(x.id, done)
                 /\ ~p.query.withCanceled => DoneUpTo(x.id, done)
      <4>1. /\ x.id \in AgreedUpTo(p.query, done)
            /\ Status(x.id) \in IF p.query.withCanceled THEN {"DONE", "CANCELED"} ELSE {"DONE"}
        BY <1>8, <1>11, AgreementsFound
      <4> QED BY <4>1, StatusMeans
    <3>2. \A x \in PendingOnes(p) :
             x.id \in AgreedUpTo(p.query, done) /\ ~SettledUpTo(x.id, p.since)
      BY <1>0 DEF AgreementsShownRight
    <3> QED BY <1>2, <2>1, <3>1, <3>2 DEF AgreementsShownRight
  <2>3. AgreementsCovered(r, done)
    <3>1. ASSUME NEW id \in AgreedUpTo(p.query, p.since), SettledUpTo(id, done),
                 p.query.by = "token" => \E o \in rows.orders : o.order = id[1],
                 p.query.withCanceled \/ ~AgreementCanceled(id, done)
          PROVE  AgreementIn(r, id)
      <4>1. Status(id) \in IF p.query.withCanceled THEN {"DONE", "CANCELED"} ELSE {"DONE"}
        BY <3>1, StatusMeans
      <4>2. \E a \in next : a.id = id
        BY <1>1, <1>8, <1>11, <3>1, <4>1, AgreementsFound
      <4> QED BY <2>1, <4>2 DEF AgreementIn
    <3>2. \A id : AgreementIn(p, id) => AgreementIn(r, id)
      BY <2>1 DEF AgreementIn
    <3>3. \A id \in AgreedUpTo(p.query, p.since) :
             \/ AgreementIn(p, id) \/ SettledUpTo(id, done)
             \/ p.query.by = "token" /\ id[1] \notin p.known
      BY <1>0, <1>1, <1>11 DEF AgreementsCovered
    <3> QED BY <1>2, <1>9, <1>11, <3>1, <3>2, <3>3 DEF AgreementsCovered
  <2> QED BY <1>5, <1>6, <1>7, <2>2, <2>3 DEF Right, n
<1>12. CASE p.at = 3
  <2>1. /\ PendingOnes(r) = PendingOnes(p) /\ ClosedOnes(r) = ClosedOnes(p)
        /\ ClosedMade(r) = ClosedMade(p)
    BY <1>2, <1>3, <1>12 DEF PendingOnes, ClosedOnes, ClosedMade
  <2>2. AgreementsShownRight(r, done)
    BY <1>0, <1>2, <2>1 DEF AgreementsShownRight
  <2>3. AgreementsCovered(r, done)
    BY <1>0, <1>2, <1>12, <2>1 DEF AgreementsCovered, AgreementIn
  <2> QED BY <1>5, <1>6, <1>7, <2>2, <2>3 DEF Right, n
<1> QED BY <1>10, <1>11, <1>12

\* An exception: what is answered is what was complete.
LEMMA FailedRight ==
    ASSUME Assumptions, DexInv, NEW p, Right(p, done, Len(chain)), p.at \in 1..3, NEW r,
           r = [p EXCEPT !.at = Answered, !.rest = {}, !.part = {}, !.failed = TRUE]
    PROVE  Right(r, done, Len(chain))
<1>0. /\ RequestShape(p, done) /\ OrdersShown(p, Len(chain)) /\ AgreementsShownRight(p, done)
      /\ KnownKept(p)
  BY DEF Right
<1>1. p = [at |-> p.at, query |-> p.query, rest |-> p.rest, part |-> p.part,
           answer |-> p.answer, failed |-> p.failed, since |-> p.since, known |-> p.known]
  BY <1>0 DEF RequestShape
<1>2. /\ r.at = 4 /\ r.query = p.query /\ r.rest = {} /\ r.part = {}
      /\ r.answer = p.answer /\ r.failed = TRUE /\ r.since = p.since /\ r.known = p.known
      /\ r = [at |-> r.at, query |-> r.query, rest |-> r.rest, part |-> r.part,
              answer |-> r.answer, failed |-> r.failed, since |-> r.since, known |-> r.known]
  BY <1>1, ListNames
<1>3. RequestShape(r, done) /\ KnownKept(r)
  BY <1>0, <1>2 DEF RequestShape, KnownKept
<1>4. /\ OrdersLeft(r) = {} /\ OrdersMade(r) \subseteq OrdersMade(p)
      /\ PendingOnes(r) \subseteq PendingOnes(p) /\ ClosedOnes(r) \subseteq ClosedOnes(p)
      /\ ClosedMade(r) \subseteq ClosedMade(p)
  <2>1. /\ p.at = 1 => p.answer.orders = {} /\ p.answer.settlements = {} /\ p.answer.completed = {}
        /\ p.at = 2 => p.answer.settlements = {} /\ p.answer.completed = {}
        /\ p.at = 3 => p.answer.completed = {}
    BY <1>0 DEF RequestShape, NoAnswer
  <2> QED BY <1>2, <2>1 DEF OrdersLeft, OrdersMade, PendingOnes, ClosedOnes, ClosedMade
<1>5. OrdersShown(r, Len(chain))
  BY <1>0, <1>2, <1>4 DEF OrdersShown
<1>6. AgreementsShownRight(r, done)
  BY <1>0, <1>2, <1>4 DEF AgreementsShownRight
<1>7. OrdersCovered(r, Len(chain)) /\ AgreementsCovered(r, done)
  BY <1>2 DEF OrdersCovered, AgreementsCovered
<1> QED BY <1>3, <1>5, <1>6, <1>7 DEF Right

------------------------------------------------------------------------------
(* The invariant of the indexer with a request.                              *)

HistoryInv == DexInv /\ RequestRight

\* RequestRight says that of the request.
LEMMA RightNow ==
    RequestRight <=> Right(request, done, Len(chain))
BY DEF RequestRight

\* At first no request has been made.
LEMMA HistoryBegins ==
    ASSUME Assumptions, HistoryInit
    PROVE  HistoryInv
<1>1. DexInv
  BY DexBegins DEF HistoryInit
<1>2. PICK r : r = request /\ r = [at |-> 0, query |-> [by |-> "none"], rest |-> {}, part |-> {},
                                   answer |-> NoAnswer, failed |-> FALSE, since |-> 0, known |-> {}]
  BY DEF HistoryInit
<1>3. /\ r.at = 0 /\ r.answer = NoAnswer /\ r.since = 0 /\ r.known = {}
      /\ NoAnswer.orders = {} /\ NoAnswer.settlements = {} /\ NoAnswer.completed = {}
  BY <1>2 DEF NoAnswer
<1>4. RequestShape(r, done)
  <2>1. done \in Nat
    BY <1>1, Numbers DEF DexInv
  <2> QED BY <1>2, <1>3, <2>1 DEF RequestShape, NoAnswer
<1>5. /\ OrdersLeft(r) = {} /\ OrdersMade(r) = {} /\ PendingOnes(r) = {} /\ ClosedOnes(r) = {}
      /\ ClosedMade(r) = {}
  BY <1>3 DEF OrdersLeft, OrdersMade, PendingOnes, ClosedOnes, ClosedMade
<1>6. OrdersShown(r, Len(chain)) /\ OrdersCovered(r, Len(chain))
  BY <1>3, <1>5 DEF OrdersShown, OrdersCovered
<1>7. AgreementsShownRight(r, done) /\ AgreementsCovered(r, done) /\ KnownKept(r)
  BY <1>3, <1>5 DEF AgreementsShownRight, AgreementsCovered, KnownKept
<1> QED BY <1>1, <1>2, <1>4, <1>6, <1>7 DEF HistoryInv, RequestRight, Right

\* A step of a request.
LEMMA ServeKeeps ==
    ASSUME Assumptions, DexInv, Right(request, done, Len(chain)), Serve
    PROVE  \E r : r = request' /\ Right(r, done, Len(chain))
<1>0. \A h \in Heads : h = Len(chain)
  BY OneHead DEF DexInv, OnChain
<1>1. request.at \in 0..4
  BY DEF Right, RequestShape
<1>2. ~Idle(request) => request.at \in 1..3
  BY <1>1, ListNames DEF Idle
<1>3. CASE MembershipOrderList \/ CouponOrderList \/ OrderList
  <2>1. \E by, of : Ask(by, of)
    BY <1>3 DEF MembershipOrderList, CouponOrderList, OrderList
  <2>2. \E q : request' = [at |-> 1, query |-> q, rest |-> Found(Lists[1], q), part |-> {},
                           answer |-> NoAnswer, failed |-> FALSE,
                           since |-> done, known |-> {o.order : o \in rows.orders}]
    BY <2>1 DEF Ask
  <2>3. PICK q, r : r = request' /\
           r = [at |-> 1, query |-> q, rest |-> Found(Lists[1], q), part |-> {},
                answer |-> NoAnswer, failed |-> FALSE,
                since |-> done, known |-> {o.order : o \in rows.orders}]
    BY <2>2
  <2> QED BY <2>3, AskedRight
<1>4. CASE CallExchange
  <2>0. PICK row \in request.rest, h \in Heads :
           request' = [request EXCEPT
                          !.rest = @ \ {row},
                          !.part = @ \union Entries(Lists[request.at], row, request.query, h)]
    BY <1>4 DEF CallExchange
  <2>1. PICK r : r = request'
    OBVIOUS
  <2>2. h = Len(chain) /\ request.at \in 1..3
    BY <1>0, <1>2, <1>4 DEF CallExchange
  <2>3. PICK p : p = request
    OBVIOUS
  <2>4. /\ Right(p, done, Len(chain)) /\ p.at \in 1..3 /\ row \in p.rest
        /\ r = [p EXCEPT !.rest = @ \ {row},
                         !.part = @ \union Entries(Lists[p.at], row, p.query, Len(chain))]
    BY <2>0, <2>1, <2>2, <2>3
  <2>5. Right(r, done, Len(chain))
    BY <2>4, CallRight
  <2> QED BY <2>1, <2>5
<1>5. CASE ListMade
  <2>1. PICK r : /\ r = request'
                 /\ r = [request EXCEPT
                           !.at = @ + 1,
                           !.rest = IF request.at + 1 = Answered THEN {}
                                    ELSE Found(Lists[request.at + 1], request.query),
                           !.part = {},
                           !.answer = [@ EXCEPT ![Lists[request.at]] = request.part]]
    BY <1>5 DEF ListMade
  <2>2. request.rest = {} /\ request.at \in 1..3
    BY <1>2, <1>5 DEF ListMade
  <2>3. PICK p : p = request
    OBVIOUS
  <2>4. /\ Right(p, done, Len(chain)) /\ p.at \in 1..3 /\ p.rest = {}
        /\ r = [p EXCEPT !.at = @ + 1,
                         !.rest = IF p.at + 1 = Answered THEN {}
                                  ELSE Found(Lists[p.at + 1], p.query),
                         !.part = {},
                         !.answer = [@ EXCEPT ![Lists[p.at]] = p.part]]
    BY <2>1, <2>2, <2>3
  <2>5. Right(r, done, Len(chain))
    BY <2>4, ListRight
  <2> QED BY <2>1, <2>5
<1>6. CASE RequestFails
  <2>1. PICK r : /\ r = request'
                 /\ r = [request EXCEPT !.at = Answered, !.rest = {}, !.part = {}, !.failed = TRUE]
    BY <1>6 DEF RequestFails
  <2>2. request.at \in 1..3
    BY <1>2, <1>6 DEF RequestFails
  <2>3. PICK p : p = request
    OBVIOUS
  <2>4. Right(r, done, Len(chain))
    BY <2>1, <2>2, <2>3, FailedRight
  <2> QED BY <2>1, <2>4
<1> QED BY <1>3, <1>4, <1>5, <1>6 DEF Serve

\* HistoryInv is inductive.
LEMMA HistoryInvariant ==
    ASSUME Assumptions, OneNode, HistoryInv, [HistoryNext]_historyVars
    PROVE  HistoryInv'
<1>1. DexInv /\ Right(request, done, Len(chain))
  BY RightNow DEF HistoryInv
<1>2. [Next]_vars
  BY DEF HistoryNext, historyVars, Serve, MembershipOrderList, CouponOrderList, OrderList, Ask,
         CallExchange, ListMade, RequestFails
<1>3. DexInv' /\ Onward
  BY <1>1, <1>2, DexInvariant, StepsGoOn
<1>4. \E r : r = request' /\ Right(r, done, Len(chain))
  <2>1. CASE Serve
    BY <1>1, <2>1, ServeKeeps
  <2>2. CASE UNCHANGED request
    BY <1>1, <2>2
  <2> QED BY <2>1, <2>2 DEF HistoryNext, historyVars
<1>5. PICK r, d, n, e, m : /\ r = request' /\ d = done /\ n = Len(chain)
                           /\ e = done' /\ m = Len(chain') /\ Right(r, d, n)
  BY <1>4
<1>6. Right(r, e, m)'
  BY <1>3, <1>5, RightStays
<1>7. RequestRight'
  BY <1>5, <1>6 DEF RequestRight
<1> QED BY <1>3, <1>7 DEF HistoryInv

\* What the invariant says of an answer.
LEMMA AnswersAreRight ==
    ASSUME Assumptions, HistoryInv
    PROVE  HistoryListed
<1>0. /\ DexInv /\ RequestShape(request, done) /\ OrdersShown(request, Len(chain))
      /\ OrdersCovered(request, Len(chain)) /\ AgreementsShownRight(request, done)
      /\ AgreementsCovered(request, done) /\ KnownKept(request)
  BY RightNow DEF HistoryInv, Right
<1>1. CurrentListsShowNothingCancelled
  <2> SUFFICES ASSUME request.at # 0, ~request.query.withCanceled
               PROVE  /\ \A n \in request.answer.orders :
                            ~ChainOrder(n.order, request.since).canceled
                      /\ \A n \in request.answer.settlements :
                            ~AgreementCanceled(n.id, request.since)
                      /\ \A n \in request.answer.completed : ~n.canceled
    BY DEF CurrentListsShowNothingCancelled
  <2>1. /\ request.answer.orders \subseteq OrdersMade(request)
        /\ request.answer.settlements \subseteq PendingOnes(request)
        /\ request.answer.completed \subseteq ClosedMade(request)
    <3>1. /\ request.at = 1 => request.answer.orders = {}
          /\ request.at = 2 => request.answer.settlements = {}
          /\ request.at = 3 => request.answer.completed = {}
      BY <1>0 DEF RequestShape, NoAnswer
    <3> QED BY <3>1 DEF OrdersMade, PendingOnes, ClosedMade
  <2>2. \A n \in request.answer.orders : ~ChainOrder(n.order, request.since).canceled
    BY <1>0, <2>1 DEF OrdersShown
  <2>3. \A n \in request.answer.settlements : ~AgreementCanceled(n.id, request.since)
    BY <1>0, <2>1 DEF AgreementsShownRight, SettledUpTo, AgreementCanceled
  <2>4. \A n \in request.answer.completed : ~n.canceled
    BY <1>0, <2>1 DEF AgreementsShownRight
  <2> QED BY <2>2, <2>3, <2>4
<1>2. ASSUME request.at = Answered
      PROVE  /\ request.at = 4
             /\ OrdersLeft(request) = {} /\ OrdersMade(request) = request.answer.orders
             /\ PendingOnes(request) = request.answer.settlements
             /\ ClosedOnes(request) = request.answer.completed
  BY <1>2, ListNames DEF OrdersLeft, OrdersMade, PendingOnes, ClosedOnes
<1>3. AgreementsListed
  <2> DEFINE q == request.query
             open == {n.id : n \in request.answer.settlements}
             closed == {n.id : n \in request.answer.completed}
  <2> SUFFICES ASSUME request.at = Answered
               PROVE  /\ open \union closed \subseteq AgreedUpTo(q, done)
                      /\ \A id \in open : ~SettledUpTo(id, request.since)
                      /\ \A id \in closed : SettledUpTo(id, done)
                      /\ ~request.failed =>
                            \A id \in AgreedUpTo(q, request.since) :
                                \/ id \in open \union closed
                                \/ ~q.withCanceled /\ AgreementCanceled(id, done)
                                \/ q.by = "token" /\ id[1] \notin request.known
    BY DEF AgreementsListed
  <2>1. \A id : id \in open \union closed <=> AgreementIn(request, id)
    BY <1>2 DEF AgreementIn
  <2>2. /\ \A id \in open : id \in AgreedUpTo(q, done) /\ ~SettledUpTo(id, request.since)
        /\ \A id \in closed : id \in AgreedUpTo(q, done) /\ SettledUpTo(id, done)
    BY <1>0, <1>2 DEF AgreementsShownRight
  <2> HIDE DEF open, closed
  <2>3. ~request.failed =>
           \A id \in AgreedUpTo(q, request.since) :
               \/ AgreementIn(request, id)
               \/ ~q.withCanceled /\ AgreementCanceled(id, done)
               \/ q.by = "token" /\ id[1] \notin request.known
    BY <1>0, <1>2 DEF AgreementsCovered
  <2> QED BY <2>1, <2>2, <2>3
<1>4. OrdersListed
  <2>1. CASE request.at # Answered
    BY <2>1 DEF OrdersListed
  <2>2. CASE request.at = Answered
    <3>1. \A n \in request.answer.orders : \E h \in request.since..Len(chain) :
             n.amount = ChainOrder(n.order, h).amount /\ n.amount # 0
      BY <1>0, <1>2, <2>2 DEF OrdersShown
    <3>2. ~request.failed =>
             \A e \in Known("NewOrder", request.since) :
                (OrderOf(e) \in request.known /\ e.account = request.query.account
                   /\ Concerns(request.query, OrderOf(e), request.since)) =>
                    \/ \E n \in request.answer.orders : n.order = OrderOf(e)
                    \/ ~request.query.withCanceled /\ ChainOrder(OrderOf(e), request.since).canceled
                    \/ \E h \in request.since..Len(chain) : ChainOrder(OrderOf(e), h).amount = 0
      BY <1>0, <1>2, <2>2 DEF OrdersCovered, OrderIn
    <3> QED BY <3>1, <3>2 DEF OrdersListed
  <2> QED BY <2>1, <2>2
<1> QED BY <1>1, <1>3, <1>4 DEF HistoryListed

\* What it says of agreements and ticks.
LEMMA AnswersAgree ==
    ASSUME Assumptions, MarketAssumption, HistoryInv
    PROVE  DexAnswersAgree
BY RetrievedAsListed, TicksAnswered DEF HistoryInv, DexAnswersAgree
==============================================================================
