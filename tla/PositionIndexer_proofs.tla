------------------------ MODULE PositionIndexer_proofs ------------------------
(***************************************************************************)
(* Proofs about the four position indexers, for requests that are answered *)
(* by one node.                                                            *)
(*                                                                         *)
(* The inductive invariant says which events the open session shows: those *)
(* up to the stored block number of the token, those of the chunks done in *)
(* this sync, and within the chunk those whose kind a pass has read        *)
(* already.  What every pass does is proved once, for PositionIndexer, and *)
(* used for the passes of each of the four.                                *)
(***************************************************************************)
EXTENDS PositionShare, PositionBond, PositionCoupon, PositionMembership,
        FiniteSetTheorems, WellFoundedInduction, TLAPS

------------------------------------------------------------------------------
(* The invariant. *)

\* One node answers all requests.
OneNode == \E n : Node = {n}

\* Tokens are not issued into locks nor redeemed out of them.
NoIssueIntoLock == \A e \in Event : e.kind \in {"Issue", "Redeem"} => e.at = Zero

\* What is claimed of a column an event changes: those on the exchange while no token
\* moved, and the locked amount while no exception was swallowed.
Claimed(e, c) ==
    /\ c \in {"deposit", "commitment"} => moves = 0 /\ BookOf(e) = tradable[e.token]
    /\ c = "locked" => swallowed = 0 /\ NoIssueIntoLock

\* The values are not older than event e of block b.
Covered(tab, b, e) ==
    \A a \in Account, c \in Column :
        <<a, c>> \in Changed(e) /\ Claimed(e, c) => tab[<<e.token, a, c>>] >= b

\* The tables show event e of block b.
Shown(tab, rows, b, e) ==
    /\ Covered(tab, b, e)
    /\ e.kind \in LockKinds /\ swallowed = 0 => rows[<<b, e>>] > 0

InSession(b, e) == Shown(sess.table, sess.lockRows, b, e)

ChainInv ==
    /\ \A n \in Node : head[n] = Len(chain)
    /\ \A b \in 1..Len(chain) : Traded(chain[b])

\* What the stored block numbers say.
StoredInv ==
    \A t \in Token, x \in Venue :
        /\ cursor[<<t, x>>] <= Len(chain)
        /\ \A b \in 1..Len(chain) : \A e \in chain[b] :
              e.token = t /\ b <= cursor[<<t, x>>] =>
                  Shown(table, lockRows, b, e) /\ InSession(b, e)

\* The call in progress, and the chunks it has done.
CallInv ==
    /\ pc # "idle" => latest <= Len(chain) /\ blockTo <= latest /\ done <= blockTo
    /\ pc = "idle" => targets = {} /\ done = -1
    /\ accounts \subseteq targets \X Account
    /\ pc = "set_block_number" => done = latest
    /\ \A t \in targets : /\ exchangeCache[t] \in Venue
                          /\ start[t] = cursor[<<t, exchangeCache[t]>>] + 1
    /\ moves = 0 => \A t \in Token : exchangeCache[t] \in {"absent", tradable[t]}
    /\ \A b \in 1..Len(chain) : \A e \in chain[b] :
          e.token \in targets /\ b <= done => InSession(b, e)

BaseInv == TypeOK /\ ChainInv /\ StoredInv /\ CallInv

\* The session shows the events of the chunk that have one of these kinds.
Chunk(kinds) ==
    \A b \in 1..Len(chain) : \A e \in chain[b] :
        e.token \in targets /\ b <= blockTo /\ e.kind \in kinds => InSession(b, e)

\* It shows the transfers, but for the accounts that are left to read.
Batches ==
    \A b \in 1..Len(chain) : \A e \in chain[b] :
        e.token \in targets /\ b <= blockTo /\ e.kind = "Transfer" =>
            \A a \in Account, c \in Column :
                <<a, c>> \in Changed(e) /\ Claimed(e, c) =>
                    sess.table[<<e.token, a, c>>] >= b \/ <<e.token, a>> \in accounts

------------------------------------------------------------------------------
(* The newest and the oldest of some blocks. *)

\* A set of natural numbers that is not empty has a least element.
LEMMA LeastExists ==
  ASSUME NEW S \in SUBSET Nat, S # {}
  PROVE  Min(S) \in S /\ \A x \in S : Min(S) <= x
<1>1. \E x \in S : \A y \in S : ~ (<<y, x>> \in OpToRel(<, Nat))
  BY WFMin, NatLessThanWellFounded
<1>2. PICK x \in S : \A y \in S : ~ (<<y, x>> \in OpToRel(<, Nat))
  BY <1>1
<1>3. \A y \in S : x <= y
  <2>1. ASSUME NEW y \in S PROVE x <= y
    <3>1. x \in Nat /\ y \in Nat
      OBVIOUS
    <3>2. ~ (<<y, x>> \in OpToRel(<, Nat))
      BY <1>2
    <3>3. ~ (y < x)
      BY <3>1, <3>2 DEF OpToRel
    <3> QED
      BY <3>1, <3>3
  <2> QED
    BY <2>1
<1> QED
  BY <1>3 DEF Min

\* One that is bounded has a greatest.
LEMMA GreatestExists ==
  ASSUME NEW N \in Nat, NEW S \in SUBSET (0..N), S # {}
  PROVE  Max(S) \in S /\ \A x \in S : x <= Max(S)
<1> DEFINE T == {N - x : x \in S}
<1>1. \A x \in S : x \in 0..N
  OBVIOUS
<1>2. T \in SUBSET Nat /\ T # {}
  <2>1. PICK y \in S : TRUE
    OBVIOUS
  <2>2. \A x \in S : N - x \in Nat
    BY <1>1
  <2> QED
    BY <2>1, <2>2
<1>3. Min(T) \in T /\ \A y \in T : Min(T) <= y
  BY <1>2, LeastExists
<1>4. PICK m \in S : Min(T) = N - m
  BY <1>3
<1>5. \A x \in S : N - m <= N - x
  BY <1>3, <1>4
<1>6. \A x \in S : x <= m
  BY <1>1, <1>5
<1>7. \A x \in S : m >= x
  BY <1>1, <1>6
<1>8. \E y \in S : \A x \in S : y >= x
  BY <1>7
<1>9. Max(S) \in S /\ \A x \in S : Max(S) >= x
  BY <1>8 DEF Max
<1> QED
  BY <1>1, <1>9

\* Of two numbers.
LEMMA LeastOfTwo ==
  ASSUME NEW x \in Nat, NEW y \in Nat
  PROVE  Min({x, y}) \in {x, y} /\ Min({x, y}) <= x /\ Min({x, y}) <= y
BY LeastExists

\* What a node that has all blocks answers is not older than any event that changed it.
LEMMA ValueIsNewest ==
  ASSUME ChainTypeOK, NEW t, NEW a, NEW c, NEW x, NEW h \in Nat
  PROVE  /\ ValueOf(t, a, c, x, h) \in BlockNumber
         /\ \A b \in 1..Len(chain) : \A e \in chain[b] :
               /\ b <= h
               /\ e.token = t /\ <<a, c>> \in Changed(e)
               /\ c \in {"deposit", "commitment"} => BookOf(e) = x
               => ValueOf(t, a, c, x, h) >= b
<1> DEFINE B == {b \in Block : /\ b <= h /\ b <= Len(chain)
                               /\ \E e \in chain[b] :
                                     /\ e.token = t
                                     /\ <<a, c>> \in Changed(e)
                                     /\ c \in {"deposit", "commitment"} => BookOf(e) = x}
           S == {0} \union B
<1>1. S \in SUBSET (0..MaxBlock) /\ S # {} /\ MaxBlock \in Nat
  BY ChainAssumption DEF Block
<1>2. Max(S) \in S /\ \A y \in S : y <= Max(S)
  BY <1>1, GreatestExists
<1>3. ValueOf(t, a, c, x, h) = Max(S)
  BY DEF ValueOf
<1>4. ASSUME NEW b \in 1..Len(chain), NEW e \in chain[b], b <= h,
             e.token = t /\ <<a, c>> \in Changed(e),
             c \in {"deposit", "commitment"} => BookOf(e) = x
      PROVE  b \in S
  BY <1>4, ChainAssumption DEF ChainTypeOK, Block
<1> HIDE DEF S
<1>5. Max(S) \in 0..MaxBlock
  BY <1>1, <1>2
<1>6. ASSUME NEW b \in 1..Len(chain), NEW e \in chain[b], b <= h,
             e.token = t /\ <<a, c>> \in Changed(e),
             c \in {"deposit", "commitment"} => BookOf(e) = x
      PROVE  Max(S) >= b
  <2>1. b <= Max(S)
    BY <1>2, <1>4, <1>6
  <2> QED
    BY <1>5, <2>1
<1> QED
  BY <1>3, <1>5, <1>6 DEF BlockNumber

------------------------------------------------------------------------------
(* Types. *)

USE ChainAssumption DEF Block, BlockNumber

Table == [Token \X Account \X Column -> BlockNumber]
RowCount == [Row -> 0..MaxCopies]

\* The types of what is stored, and of what the call in progress knows.
StoredTypes ==
    /\ tradable \in [Token -> Venue]
    /\ moves \in 0..MaxMoves
    /\ table \in Table
    /\ lockRows \in RowCount
    /\ cursor \in [Token \X Venue -> BlockNumber \union {-1}]
    /\ sess \in [table : Table, lockRows : RowCount]

CallTypes ==
    /\ exchangeCache \in [Token -> Venue \union {"absent"}]
    /\ targets \subseteq Token
    /\ start \in [Token -> 0..MaxBlock + 1]
    /\ done \in BlockNumber \union {-1}
    /\ latest \in BlockNumber
    /\ blockTo \in BlockNumber
    /\ accounts \subseteq Token \X Account
    /\ pc \in Steps
    /\ failures \in 0..MaxFailures
    /\ swallowed \in 0..MaxSwallowed

\* The type invariant, split by chain, tables and call.
LEMMA TypesInParts == TypeOK <=> ChainTypeOK /\ StoredTypes /\ CallTypes
BY DEF TypeOK, StoredTypes, CallTypes, Table, RowCount

\* The same after a step.
LEMMA NextTypesInParts == TypeOK' <=> ChainTypeOK' /\ StoredTypes' /\ CallTypes'
BY DEF TypeOK, StoredTypes, CallTypes, Table, RowCount

\* An event of the chain.
LEMMA EventsAre ==
  ASSUME ChainTypeOK, NEW b \in 1..Len(chain), NEW e \in chain[b]
  PROVE  /\ e \in Event /\ e.token \in Token /\ b \in Block /\ b \in Nat
         /\ e.kind \in LockKinds => <<b, e>> \in Row
<1>1. chain[b] \in SUBSET Event /\ b \in Block
  BY DEF ChainTypeOK
<1> QED
  BY <1>1 DEF Row

------------------------------------------------------------------------------
(* Claims only get weaker, and a pass only adds to what the session shows. *)

\* A token moves once and for all, and what was swallowed stays swallowed.
Later ==
    /\ moves' = 0 => moves = 0 /\ tradable' = tradable
    /\ swallowed' = 0 => swallowed = 0

\* A covered event stays covered while the chain only grows.
LEMMA StaysCovered ==
  ASSUME Later, NEW tab, NEW b, NEW e, Covered(tab, b, e)
  PROVE  Covered(tab, b, e)'
BY DEF Later, Covered, Claimed

\* A shown event stays shown while the chain only grows.
LEMMA StaysShown ==
  ASSUME Later, NEW tab, NEW rows, NEW b, NEW e, Shown(tab, rows, b, e)
  PROVE  Shown(tab, rows, b, e)'
BY StaysCovered DEF Shown, Later

\* The cells are read anew, the others are left.  Those on the exchange are read from
\* the books of the exchange the token is traded on.
Refreshed(new, cells) ==
    \A t \in Token, a \in Account, c \in Column :
        IF <<t, a, c>> \in cells
        THEN \E x : /\ new[<<t, a, c>>] = ValueOf(t, a, c, x, Len(chain))
                    /\ c \in {"deposit", "commitment"} /\ moves = 0 => x = tradable[t]
        ELSE new[<<t, a, c>>] = sess.table[<<t, a, c>>]

\* A cell that is read again shows the changes of all blocks.
LEMMA RefreshReads ==
  ASSUME ChainTypeOK, NEW new, NEW cells, Refreshed(new, cells),
         NEW b \in 1..Len(chain), NEW e \in chain[b], NEW a \in Account, NEW c \in Column,
         <<a, c>> \in Changed(e), Claimed(e, c), <<e.token, a, c>> \in cells
  PROVE  new[<<e.token, a, c>>] >= b
<1>1. Len(chain) \in Nat /\ e.token \in Token /\ b <= Len(chain)
  BY EventsAre DEF ChainTypeOK
<1>2. PICK x : /\ new[<<e.token, a, c>>] = ValueOf(e.token, a, c, x, Len(chain))
               /\ c \in {"deposit", "commitment"} /\ moves = 0 => x = tradable[e.token]
  BY <1>1 DEF Refreshed
<1>3. c \in {"deposit", "commitment"} => BookOf(e) = x
  BY <1>2 DEF Claimed
<1> QED
  BY <1>1, <1>2, <1>3, ValueIsNewest

\* No cell forgets an event when others are read again.
LEMMA RefreshKeeps ==
  ASSUME ChainTypeOK, NEW new, NEW cells, Refreshed(new, cells),
         NEW b \in 1..Len(chain), NEW e \in chain[b], Covered(sess.table, b, e)
  PROVE  Covered(new, b, e)
<1> SUFFICES ASSUME NEW a \in Account, NEW c \in Column, <<a, c>> \in Changed(e), Claimed(e, c)
             PROVE  new[<<e.token, a, c>>] >= b
  BY DEF Covered
<1>1. CASE <<e.token, a, c>> \in cells
  BY <1>1, RefreshReads
<1>2. CASE <<e.token, a, c>> \notin cells
  BY <1>2, EventsAre DEF Refreshed, Covered
<1> QED
  BY <1>1, <1>2

\* The values read are blocks.
LEMMA RefreshType ==
  ASSUME ChainTypeOK, NEW new, NEW cells, Refreshed(new, cells),
         sess.table \in Table, new = [k \in Token \X Account \X Column |-> new[k]]
  PROVE  new \in Table
<1>1. Len(chain) \in Nat
  BY DEF ChainTypeOK
<1>2. ASSUME NEW t \in Token, NEW a \in Account, NEW c \in Column
      PROVE  new[<<t, a, c>>] \in BlockNumber
  <2>1. CASE <<t, a, c>> \in cells
    <3>1. PICK x : new[<<t, a, c>>] = ValueOf(t, a, c, x, Len(chain))
      BY <2>1 DEF Refreshed
    <3>2. ValueOf(t, a, c, x, Len(chain)) \in BlockNumber
      BY <1>1, ValueIsNewest
    <3> QED
      BY <3>1, <3>2
  <2>2. CASE <<t, a, c>> \notin cells
    <3>1. new[<<t, a, c>>] = sess.table[<<t, a, c>>]
      BY <2>2 DEF Refreshed
    <3> QED
      BY <3>1 DEF Table
  <2> QED
    BY <2>1, <2>2
<1>3. ASSUME NEW k \in Token \X Account \X Column
      PROVE  new[k] \in BlockNumber
  <2>1. PICK t \in Token, a \in Account, c \in Column : k = <<t, a, c>>
    OBVIOUS
  <2> QED
    BY <1>2, <2>1
<1> QED
  BY <1>3 DEF Table

------------------------------------------------------------------------------
(* A pass: from one step of __sync_all to the next. *)

\* The variables a pass leaves alone.  Nothing is stored, or the session is committed.
PassFrame ==
    /\ UNCHANGED <<chainVars, marketVars, cursor, listVars, done, blockTo, failures>>
    /\ \/ UNCHANGED <<table, lockRows>>
       \/ table' = sess'.table /\ lockRows' = sess'.lockRows
    /\ pc \notin {"idle", "set_block_number"} /\ pc' \notin {"idle", "set_block_number"}
    /\ pc' \in Steps
    /\ swallowed' \in 0..MaxSwallowed /\ swallowed <= swallowed'

\* What becomes of the session.
Writes(new, rows) ==
    /\ sess' = [table |-> new, lockRows |-> rows]
    /\ new \in Table /\ rows \in RowCount
    /\ \A r \in Row : rows[r] >= sess.lockRows[r]

\* A pass of the call loses nothing the session has.
LEMMA PassKeepsSession ==
  ASSUME BaseInv, PassFrame, NEW new, NEW rows, NEW cells,
         Writes(new, rows), Refreshed(new, cells)
  PROVE  /\ Later
         /\ \A b \in 1..Len(chain) : \A e \in chain[b] : InSession(b, e) => InSession(b, e)'
<1>0. ChainTypeOK /\ StoredTypes /\ CallTypes
  BY TypesInParts DEF BaseInv
<1>1. Later
  BY <1>0 DEF Later, PassFrame, marketVars, CallTypes
<1> SUFFICES ASSUME NEW b \in 1..Len(chain), NEW e \in chain[b], InSession(b, e)
             PROVE  InSession(b, e)'
  BY <1>1
<1>2. Covered(new, b, e)
  BY <1>0, RefreshKeeps DEF InSession, Shown
<1>3. e.kind \in LockKinds /\ swallowed = 0 => rows[<<b, e>>] > 0
  <2>1. ASSUME e.kind \in LockKinds, swallowed = 0
        PROVE  rows[<<b, e>>] > 0
    <3>1. <<b, e>> \in Row
      BY <1>0, <2>1, EventsAre
    <3>2. sess.lockRows[<<b, e>>] > 0 /\ rows[<<b, e>>] >= sess.lockRows[<<b, e>>]
      BY <2>1, <3>1 DEF InSession, Shown, Writes
    <3>3. sess.lockRows[<<b, e>>] \in Int /\ rows[<<b, e>>] \in Int
      BY <1>0, <3>1, PositionAssumption DEF StoredTypes, RowCount, Writes
    <3> QED
      BY <3>2, <3>3
  <2> QED
    BY <2>1
<1>4. Shown(new, rows, b, e)
  BY <1>2, <1>3 DEF Shown
<1>5. Shown(new, rows, b, e)'
  BY <1>1, <1>4, StaysShown
<1> QED
  BY <1>5 DEF InSession, Writes

\* A pass of the call keeps the common part of the invariant.
LEMMA PassKeepsBase ==
  ASSUME BaseInv, PassFrame, NEW new, NEW rows, NEW cells,
         Writes(new, rows), Refreshed(new, cells), accounts' \subseteq targets \X Account
  PROVE  BaseInv' /\ Later
<1>0. ChainTypeOK /\ StoredTypes /\ CallTypes
  BY TypesInParts DEF BaseInv
<1>1. /\ Later
      /\ \A b \in 1..Len(chain) : \A e \in chain[b] : InSession(b, e) => InSession(b, e)'
  BY PassKeepsSession
<1>2. /\ UNCHANGED <<chain, head, listed, tradable, moves, cursor>>
      /\ UNCHANGED <<exchangeCache, targets, start, latest, done, blockTo, failures>>
      /\ \/ UNCHANGED <<table, lockRows>>
         \/ table' = sess'.table /\ lockRows' = sess'.lockRows
  BY DEF PassFrame, chainVars, marketVars, listVars
<1>3. TypeOK'
  <2>1. ChainTypeOK'
    BY <1>0, <1>2 DEF ChainTypeOK
  <2>2. sess' \in [table : Table, lockRows : RowCount]
    BY DEF Writes
  <2>3. StoredTypes'
    BY <1>0, <1>2, <2>2 DEF StoredTypes
  <2>4. CallTypes'
    BY <1>0, <1>2 DEF CallTypes, PassFrame
  <2> QED
    BY <2>1, <2>3, <2>4, NextTypesInParts
<1>4. ChainInv'
  BY <1>2 DEF BaseInv, ChainInv, Traded
<1>5. StoredInv'
  <2> SUFFICES ASSUME NEW t \in Token, NEW x \in Venue
               PROVE  /\ cursor[<<t, x>>] <= Len(chain)
                      /\ \A b \in 1..Len(chain) : \A e \in chain[b] :
                            e.token = t /\ b <= cursor[<<t, x>>] =>
                                Shown(table, lockRows, b, e)' /\ InSession(b, e)'
    BY <1>2 DEF StoredInv
  <2>1. ASSUME NEW b \in 1..Len(chain), NEW e \in chain[b], e.token = t, b <= cursor[<<t, x>>]
        PROVE  Shown(table, lockRows, b, e)' /\ InSession(b, e)'
    <3>1. Shown(table, lockRows, b, e) /\ InSession(b, e)
      BY <2>1 DEF BaseInv, StoredInv
    <3>2. Shown(table, lockRows, b, e)'
      <4>1. ASSUME NEW T, NEW R, Shown(T, R, b, e), T = table', R = lockRows'
            PROVE  Shown(table, lockRows, b, e)'
        BY <1>1, <4>1, StaysShown
      <4>2. CASE UNCHANGED <<table, lockRows>>
        BY <3>1, <4>1, <4>2
      <4>3. CASE table' = sess'.table /\ lockRows' = sess'.lockRows
        BY <1>1, <3>1, <4>3 DEF InSession
      <4> QED
        BY <1>2, <4>2, <4>3
    <3> QED
      BY <1>1, <3>1, <3>2
  <2> QED
    BY <2>1 DEF BaseInv, StoredInv
<1>6. CallInv'
  <2>1. \A b \in 1..Len(chain) : \A e \in chain[b] :
           e.token \in targets /\ b <= done => InSession(b, e)'
    BY <1>1 DEF BaseInv, CallInv
  <2>2. /\ pc' # "idle" => latest <= Len(chain) /\ blockTo <= latest /\ done <= blockTo
        /\ \A t \in targets : /\ exchangeCache[t] \in Venue
                              /\ start[t] = cursor[<<t, exchangeCache[t]>>] + 1
        /\ moves = 0 => \A t \in Token : exchangeCache[t] \in {"absent", tradable[t]}
    BY DEF BaseInv, CallInv, PassFrame
  <2>3. pc' \notin {"idle", "set_block_number"}
    BY DEF PassFrame
  <2> QED
    BY <1>2, <2>1, <2>2, <2>3 DEF CallInv
<1> QED
  BY <1>1, <1>3, <1>4, <1>5, <1>6 DEF BaseInv

\* A sink refreshes the columns C of the pairs.
Cells(pairs, C) ==
    {k \in Token \X Account \X Column : <<k[1], k[2]>> \in pairs /\ k[3] \in C}

\* The cells of pairs and columns, one by one.
LEMMA CellIs ==
  ASSUME NEW pairs, NEW C, NEW t \in Token, NEW a \in Account, NEW c \in Column
  PROVE  <<t, a, c>> \in Cells(pairs, C) <=> <<t, a>> \in pairs /\ c \in C
BY DEF Cells

\* Sink gives a table.
LEMMA SinkWrites ==
  ASSUME NEW tab \in Table, NEW pairs, NEW C, NEW x, NEW h
  PROVE  Sink(tab, pairs, C, x, h)
             = [k \in Token \X Account \X Column |-> Sink(tab, pairs, C, x, h)[k]]
<1>1. DOMAIN tab = Token \X Account \X Column
  BY DEF Table
<1> QED
  BY <1>1 DEF Sink

\* What Sink writes to a cell.
LEMMA SinkAt ==
  ASSUME NEW tab \in Table, NEW pairs, NEW C, NEW x, NEW h,
         NEW t \in Token, NEW a \in Account, NEW c \in Column
  PROVE  Sink(tab, pairs, C, x, h)[<<t, a, c>>] =
             IF <<t, a>> \in pairs /\ c \in C
             THEN ValueOf(t, a, c, x[<<t, a>>], h) ELSE tab[<<t, a, c>>]
<1> DEFINE k == <<t, a, c>>
<1>1. k \in DOMAIN tab /\ k[1] = t /\ k[2] = a /\ k[3] = c
  BY DEF Table
<1> QED
  BY <1>1 DEF Sink

\* Sink reads its cells from the contracts, if the exchange is the present one.
LEMMA SinkRefreshes ==
  ASSUME sess.table \in Table, NEW pairs, NEW C, NEW x,
         \A t \in Token, a \in Account :
             /\ <<t, a>> \in pairs /\ moves = 0
             /\ "deposit" \in C \/ "commitment" \in C
             => x[<<t, a>>] = tradable[t]
  PROVE  Refreshed(Sink(sess.table, pairs, C, x, Len(chain)), Cells(pairs, C))
<1> DEFINE new == Sink(sess.table, pairs, C, x, Len(chain))
<1> SUFFICES ASSUME NEW t \in Token, NEW a \in Account, NEW c \in Column
             PROVE  IF <<t, a, c>> \in Cells(pairs, C)
                    THEN \E y : /\ new[<<t, a, c>>] = ValueOf(t, a, c, y, Len(chain))
                                /\ c \in {"deposit", "commitment"} /\ moves = 0
                                   => y = tradable[t]
                    ELSE new[<<t, a, c>>] = sess.table[<<t, a, c>>]
  BY DEF Refreshed
<1>1. new[<<t, a, c>>] = IF <<t, a>> \in pairs /\ c \in C
                         THEN ValueOf(t, a, c, x[<<t, a>>], Len(chain))
                         ELSE sess.table[<<t, a, c>>]
  BY SinkAt
<1> HIDE DEF new
<1> QED
  BY <1>1, CellIs

------------------------------------------------------------------------------
(* What a pass reads. *)

\* What the books of a listed token are, as long as no token moved.
LEMMA BooksRight ==
  ASSUME BaseInv, moves = 0, NEW t \in targets
  PROVE  exchangeCache[t] = tradable[t]
<1>1. exchangeCache[t] \in Venue /\ exchangeCache[t] \in {"absent", tradable[t]}
  BY TypesInParts DEF BaseInv, CallInv, CallTypes
<1>2. "absent" # Zero
  BY DEF Zero
<1> QED
  BY <1>1, <1>2, PositionAssumption DEF Venue, Party

\* Before its cursor a token has nothing new.
LEMMA SkippedAreShown ==
  ASSUME BaseInv, NEW b \in 1..Len(chain), NEW e \in chain[b], e.token \in targets,
         b < TokenCursor(e.token)
  PROVE  InSession(b, e)
<1>1. CASE b <= done
  BY <1>1 DEF BaseInv, CallInv
<1>2. CASE ~(b <= done)
  <2>1. /\ done \in Int /\ b \in Int /\ e.token \in Token
        /\ start[e.token] \in Int
        /\ cursor[<<e.token, exchangeCache[e.token]>>] \in Int
        /\ exchangeCache[e.token] \in Venue
        /\ start[e.token] = cursor[<<e.token, exchangeCache[e.token]>>] + 1
    BY TypesInParts DEF BaseInv, CallInv, CallTypes, StoredTypes
  <2>2. b <= cursor[<<e.token, exchangeCache[e.token]>>]
    BY <1>2, <2>1 DEF TokenCursor, AtLeast
  <2> QED
    BY <2>1, <2>2 DEF BaseInv, StoredInv
<1> QED
  BY <1>1, <1>2

\* From there on the node reports the events of the chunk.
LEMMA LogsHave ==
  ASSUME BaseInv, NEW b \in 1..Len(chain), NEW e \in chain[b], e.token \in targets,
         b <= blockTo, ~(b < TokenCursor(e.token))
  PROVE  <<b, e>> \in TokenLogs(e.token, e.kind, Len(chain))
<1>1. /\ TokenCursor(e.token) \in Int /\ blockTo \in Int /\ Len(chain) \in Nat
      /\ b \in Block /\ e \in Event
  BY TypesInParts, EventsAre DEF BaseInv, CallTypes, TokenCursor, AtLeast, ChainTypeOK
<1>2. TokenCursor(e.token) <= b /\ ~(TokenCursor(e.token) > blockTo)
  BY <1>1
<1> QED
  BY <1>1, <1>2 DEF TokenLogs, Logs

\* What an event claims is read, so it is shown afterwards.
LEMMA PassReads ==
  ASSUME BaseInv, PassFrame, NEW new, NEW rows, NEW cells,
         Writes(new, rows), Refreshed(new, cells),
         NEW b \in 1..Len(chain), NEW e \in chain[b],
         \A a \in Account, c \in Column :
             <<a, c>> \in Changed(e) /\ Claimed(e, c)' => <<e.token, a, c>> \in cells,
         e.kind \in LockKinds /\ swallowed' = 0 => rows[<<b, e>>] > 0
  PROVE  InSession(b, e)'
<1>1. ChainTypeOK /\ Later
  BY PassKeepsSession DEF BaseInv, TypeOK
<1>2. ASSUME NEW a \in Account, NEW c \in Column, <<a, c>> \in Changed(e), Claimed(e, c)'
      PROVE  new[<<e.token, a, c>>] >= b
  <2>1. Claimed(e, c)
    BY <1>1, <1>2 DEF Later, Claimed
  <2> QED
    BY <1>1, <1>2, <2>1, RefreshReads
<1>3. sess'.table = new /\ sess'.lockRows = rows
  BY DEF Writes
<1> QED
  BY <1>2, <1>3 DEF InSession, Shown, Covered

\* The cells of event e that are read, and the row that is made, are those claimed.
Reads(new, rows, cells, b, e) ==
    /\ \A a \in Account, c \in Column :
          <<a, c>> \in Changed(e) /\ Claimed(e, c)' => <<e.token, a, c>> \in cells
    /\ e.kind \in LockKinds /\ swallowed' = 0 => rows[<<b, e>>] > 0

\* A pass that reads the events of some kinds adds them to the chunk.
Adds(kinds) == \A H, G : G \subseteq H \union kinds /\ Chunk(H) => Chunk(G)'

\* A pass that reads all events of some kinds adds these kinds.
LEMMA PassAdds ==
  ASSUME BaseInv, PassFrame, accounts' \subseteq targets \X Account,
         NEW new, NEW rows, NEW cells, NEW kinds,
         Writes(new, rows), Refreshed(new, cells),
         \A b \in 1..Len(chain) : \A e \in chain[b] :
             /\ e.token \in targets /\ b <= blockTo /\ e.kind \in kinds
             /\ ~(b < TokenCursor(e.token))
             => Reads(new, rows, cells, b, e)
  PROVE  Adds(kinds)
<1> SUFFICES ASSUME NEW H, NEW G, G \subseteq H \union kinds, Chunk(H)
             PROVE  Chunk(G)'
  BY DEF Adds
<1>1. UNCHANGED <<chain, targets, blockTo>>
  BY DEF PassFrame, chainVars, listVars
<1> SUFFICES ASSUME NEW b \in 1..Len(chain), NEW e \in chain[b],
                    e.token \in targets, b <= blockTo, e.kind \in G
             PROVE  InSession(b, e)'
  BY <1>1 DEF Chunk
<1>2. InSession(b, e) => InSession(b, e)'
  BY PassKeepsSession
<1>3. CASE e.kind \in H
  BY <1>2, <1>3 DEF Chunk
<1>4. CASE b < TokenCursor(e.token)
  BY <1>2, <1>4, SkippedAreShown
<1>5. CASE e.kind \notin H /\ ~(b < TokenCursor(e.token))
  <2>1. Reads(new, rows, cells, b, e)
    BY <1>5
  <2> QED
    BY <2>1, PassReads DEF Reads
<1> QED
  BY <1>3, <1>4, <1>5

\* The names of the passes, without the two that store.
Between(name) == name \in Steps \ {"idle", "set_block_number"}

\* A pass over token events that no lock is part of.
LEMMA TokenPassAdds ==
  ASSUME BaseInv, NEW k, NEW fields, NEW next, TokenPass(k, fields, next),
         Between(k), Between(next), k \notin LockKinds,
         \A e \in Event : \A a \in Account, c \in Column :
             e.kind = k /\ <<a, c>> \in Changed(e) /\ Claimed(e, c) =>
                 c = "own" /\ a \in {e[f] : f \in fields}
  PROVE  BaseInv' /\ Adds({k})
<1>0. ChainTypeOK /\ StoredTypes /\ CallTypes
  BY TypesInParts DEF BaseInv
<1>1. PICK n \in Node :
         sess' = [sess EXCEPT !.table = Sink(@, AccountsIn(PassLogs(k, head[n]), fields),
                                             {"own"}, Books, head[n])]
  BY DEF TokenPass
<1>2. head[n] = Len(chain)
  BY DEF BaseInv, ChainInv
<1> DEFINE pairs == AccountsIn(PassLogs(k, Len(chain)), fields)
           new == Sink(sess.table, pairs, {"own"}, Books, Len(chain))
           rows == sess.lockRows
           cells == Cells(pairs, {"own"})
<1>3. sess' = [sess EXCEPT !.table = new]
  BY <1>1, <1>2
<1>4. \A t \in targets : \A r \in TokenLogs(t, k, Len(chain)) : \A f \in fields :
         <<r[2].token, r[2][f]>> \in pairs
  BY DEF AccountsIn, PassLogs
<1> HIDE DEF pairs
<1>5. Refreshed(new, cells)
  BY <1>0, SinkRefreshes DEF StoredTypes
<1>6. new = [c \in Token \X Account \X Column |-> new[c]]
  BY <1>0, SinkWrites DEF StoredTypes
<1> HIDE DEF new
<1>7. new \in Table
  BY <1>0, <1>5, <1>6, RefreshType DEF StoredTypes
<1>8. Writes(new, rows)
  <2>1. sess' = [table |-> new, lockRows |-> rows]
    BY <1>0, <1>3 DEF StoredTypes
  <2>2. rows \in RowCount /\ \A r \in Row : rows[r] \in Int
    BY <1>0, PositionAssumption DEF StoredTypes, RowCount
  <2> QED
    BY <1>7, <2>1, <2>2 DEF Writes
<1>9. PassFrame /\ accounts' = accounts
  BY <1>0, PositionAssumption DEF TokenPass, PassFrame, Between, faultVars, tableVars, CallTypes
<1>10. accounts' \subseteq targets \X Account /\ accounts' \subseteq Token \X Account
  BY <1>0, <1>9 DEF BaseInv, CallInv, CallTypes
<1>11. ASSUME NEW b \in 1..Len(chain), NEW e \in chain[b], e.token \in targets,
              e.kind = k, b <= blockTo, ~(b < TokenCursor(e.token))
       PROVE  Reads(new, rows, cells, b, e)
  <2>0. Later
    BY <1>5, <1>8, <1>9, PassKeepsSession
  <2>1. ASSUME NEW a \in Account, NEW c \in Column,
               <<a, c>> \in Changed(e), Claimed(e, c)'
        PROVE  <<e.token, a, c>> \in cells
    <3>1. e \in Event /\ e.token \in Token /\ Claimed(e, c)
      BY <1>0, <2>0, <2>1, EventsAre DEF Later, Claimed
    <3>2. c = "own" /\ a \in {e[f] : f \in fields}
      BY <1>11, <2>1, <3>1
    <3>3. <<e.token, a>> \in pairs
      BY <1>4, <1>11, <3>2, LogsHave
    <3> QED
      BY <3>1, <3>2, <3>3, CellIs
  <2> QED
    BY <1>11, <2>1 DEF Reads
<1>12. Adds({k})
  BY <1>5, <1>8, <1>9, <1>10, <1>11, PassAdds
<1> QED
  BY <1>5, <1>8, <1>9, <1>10, <1>12, PassKeepsBase

\* The rows of a pass over lock events.
LEMMA OneMoreRow ==
  ASSUME NEW x \in 0..MaxCopies
  PROVE  /\ Min({MaxCopies, x + 1}) \in 0..MaxCopies
         /\ Min({MaxCopies, x + 1}) > 0
         /\ Min({MaxCopies, x + 1}) >= x
<1>1. MaxCopies \in Nat /\ MaxCopies > 0
  BY PositionAssumption
<1>2. /\ Min({MaxCopies, x + 1}) \in {MaxCopies, x + 1}
      /\ Min({MaxCopies, x + 1}) <= MaxCopies
  BY <1>1, LeastOfTwo
<1> QED
  BY <1>1, <1>2

\* The locked amounts and the balances are read one after the other.
LEMMA TwoSinks ==
  ASSUME ChainTypeOK, sess.table \in Table, NEW P, NEW Q
  PROVE  LET new == Sink(Sink(sess.table, P, {"locked"}, Books, Len(chain)), Q, {"own"},
                         Books, Len(chain))
         IN  /\ Refreshed(new, Cells(P, {"locked"}) \union Cells(Q, {"own"}))
             /\ new \in Table
<1> DEFINE L == {"locked"}
           O == {"own"}
           mid == Sink(sess.table, P, L, Books, Len(chain))
           new == Sink(mid, Q, O, Books, Len(chain))
           cells == Cells(P, L) \union Cells(Q, O)
<1>0. /\ "deposit" \notin L /\ "commitment" \notin L
      /\ \A c : (c \in L <=> c = "locked") /\ (c \in O <=> c = "own")
  OBVIOUS
<1> HIDE DEF L, O
<1>1. Refreshed(mid, Cells(P, L))
  BY <1>0, SinkRefreshes
<1>2. mid \in Table
  <2>1. mid = [k \in Token \X Account \X Column |-> mid[k]]
    BY SinkWrites
  <2> HIDE DEF mid
  <2> QED
    BY <1>1, <2>1, RefreshType
<1>3. ASSUME NEW t \in Token, NEW a \in Account, NEW c \in Column
      PROVE  mid[<<t, a, c>>] = IF <<t, a>> \in P /\ c \in L
                            THEN ValueOf(t, a, c, Books[<<t, a>>], Len(chain))
                            ELSE sess.table[<<t, a, c>>]
  BY SinkAt
<1> HIDE DEF mid
<1>4. ASSUME NEW t \in Token, NEW a \in Account, NEW c \in Column
      PROVE  new[<<t, a, c>>] = IF <<t, a>> \in Q /\ c \in O
                            THEN ValueOf(t, a, c, Books[<<t, a>>], Len(chain))
                            ELSE mid[<<t, a, c>>]
  BY <1>2, SinkAt
<1>5. new = [k \in Token \X Account \X Column |-> new[k]]
  BY ZenonT(60), <1>2, SinkWrites
<1> HIDE DEF new
<1>6. Refreshed(new, cells)
  <2> SUFFICES ASSUME NEW t \in Token, NEW a \in Account, NEW c \in Column
               PROVE  IF <<t, a, c>> \in cells
                      THEN \E y : /\ new[<<t, a, c>>] = ValueOf(t, a, c, y, Len(chain))
                                  /\ c \in {"deposit", "commitment"} /\ moves = 0
                                     => y = tradable[t]
                      ELSE new[<<t, a, c>>] = sess.table[<<t, a, c>>]
    BY DEF Refreshed
  <2>1. <<t, a, c>> \in cells <=> (<<t, a>> \in P /\ c = "locked") \/ (<<t, a>> \in Q /\ c = "own")
    BY <1>0, CellIs
  <2>2. CASE <<t, a>> \in Q /\ c = "own"
    BY <1>0, <1>4, <2>1, <2>2
  <2>3. CASE <<t, a>> \in P /\ c = "locked"
    BY <1>0, <1>3, <1>4, <2>1, <2>3
  <2>4. CASE <<t, a, c>> \notin cells
    BY <1>0, <1>3, <1>4, <2>1, <2>4
  <2> QED
    BY <2>1, <2>2, <2>3, <2>4
<1>7. new \in Table
  BY <1>5, <1>6, RefreshType
<1> QED
  BY <1>6, <1>7 DEF new, mid, cells, L, O

\* A pass over lock events.
LEMMA LockPassAdds ==
  ASSUME BaseInv, NEW k, NEW lockFields, NEW fields, NEW next,
         LockPass(k, lockFields, fields, next),
         Between(k), Between(next), k \in LockKinds,
         \A e \in Event : \A a \in Account, c \in Column :
             e.kind = k /\ <<a, c>> \in Changed(e) =>
                 \/ c = "own" /\ a \in {e[f] : f \in fields}
                 \/ c = "locked" /\ a \in {e[f] : f \in lockFields}
  PROVE  BaseInv' /\ Adds({k})
<1>0. ChainTypeOK /\ StoredTypes /\ CallTypes
  BY TypesInParts DEF BaseInv
<1> DEFINE logs == PassLogs(k, Len(chain))
           Good(bad) == {r \in logs : r[2].token \notin bad}
           Indexed(bad, b) == Good(bad) \union {r \in logs : r[2].token \in bad /\ r[1] <= b}
           New(bad) == Sink(Sink(sess.table, AccountsIn(Good(bad), lockFields), {"locked"},
                                 Books, Len(chain)),
                            AccountsIn(logs, fields), {"own"}, Books, Len(chain))
           Rows(bad, b) == [r \in Row |-> IF r \in Indexed(bad, b)
                                         THEN Min({MaxCopies, sess.lockRows[r] + 1})
                                         ELSE sess.lockRows[r]]
<1>1. PICK bad \in {{}} \union {{t} : t \in targets}, b \in BlockNumber :
         /\ bad # {} => swallowed < MaxSwallowed
         /\ swallowed' = swallowed + Cardinality(bad)
         /\ sess' = [table |-> New(bad), lockRows |-> Rows(bad, b)]
  <2>1. PICK n \in Node, bad \in {{}} \union {{t} : t \in targets}, b \in BlockNumber :
           LET logs_1 == PassLogs(k, head[n])
               good == {r \in logs_1 : r[2].token \notin bad}
               indexed == good \union {r \in logs_1 : r[2].token \in bad /\ r[1] <= b}
           IN  /\ bad = {} => b = 0
               /\ bad # {} => swallowed < MaxSwallowed /\ logs_1 # good
               /\ swallowed' = swallowed + Cardinality(bad)
               /\ sess' = [table |-> Sink(Sink(sess.table, AccountsIn(good, lockFields),
                                               {"locked"}, Books, head[n]),
                                          AccountsIn(logs_1, fields),
                                          {"own"}, Books, head[n]),
                           lockRows |-> [r \in Row |-> IF r \in indexed
                                            THEN Min({MaxCopies, sess.lockRows[r] + 1})
                                            ELSE sess.lockRows[r]]]
    BY Zenon DEF LockPass
  <2>2. head[n] = Len(chain)
    BY DEF BaseInv, ChainInv
  <2> QED
    BY <2>1, <2>2
<1> DEFINE good == Good(bad)
           new == New(bad)
           rows == Rows(bad, b)
           cells == Cells(AccountsIn(good, lockFields), {"locked"})
                      \union Cells(AccountsIn(logs, fields), {"own"})
<1>2. Refreshed(new, cells) /\ new \in Table
  BY <1>0, TwoSinks DEF StoredTypes
<1>3. rows \in RowCount /\ \A r \in Row : rows[r] >= sess.lockRows[r]
  <2>1. \A r \in Row : sess.lockRows[r] \in 0..MaxCopies
    BY <1>0 DEF StoredTypes, RowCount
  <2>2. ASSUME NEW r \in Row PROVE rows[r] \in 0..MaxCopies /\ rows[r] >= sess.lockRows[r]
    <3>1. CASE r \in Indexed(bad, b)
      BY <2>1, <3>1, OneMoreRow
    <3>2. CASE r \notin Indexed(bad, b)
      BY <2>1, <3>2, PositionAssumption
    <3> QED
      BY <3>1, <3>2
  <2>3. rows = [r \in Row |-> rows[r]]
    OBVIOUS
  <2> HIDE DEF rows
  <2> QED
    BY <2>2, <2>3 DEF RowCount
<1>4. \A r \in Row : r \in Indexed(bad, b) => rows[r] > 0
  <2>1. \A r \in Row : sess.lockRows[r] \in 0..MaxCopies
    BY <1>0 DEF StoredTypes, RowCount
  <2> QED
    BY <2>1, OneMoreRow
<1>5. Writes(new, rows)
  BY <1>1, <1>2, <1>3 DEF Writes
<1>6. /\ swallowed' \in 0..MaxSwallowed /\ swallowed <= swallowed'
      /\ swallowed' = 0 => bad = {}
  <2>1. swallowed \in 0..MaxSwallowed /\ MaxSwallowed \in Nat
    BY <1>0, PositionAssumption DEF CallTypes
  <2>2. CASE bad = {}
    BY <1>1, <2>1, <2>2, FS_EmptySet
  <2>3. CASE bad # {}
    <3>1. PICK t \in targets : bad = {t}
      BY <1>1, <2>3
    <3>2. Cardinality(bad) = 1
      BY <3>1, FS_Singleton
    <3> QED
      BY <1>1, <2>1, <2>3, <3>2
  <2> QED
    BY <2>2, <2>3
<1>7. PassFrame /\ accounts' = accounts
  BY <1>6 DEF LockPass, PassFrame, Between, tableVars
<1>8. accounts' \subseteq targets \X Account /\ accounts' \subseteq Token \X Account
  BY <1>0, <1>7 DEF BaseInv, CallInv, CallTypes
<1>9. \A r \in logs : \A f \in fields : <<r[2].token, r[2][f]>> \in AccountsIn(logs, fields)
  BY DEF AccountsIn
<1>10. \A r \in good : \A f \in lockFields :
          <<r[2].token, r[2][f]>> \in AccountsIn(good, lockFields)
  BY DEF AccountsIn
<1>11. ASSUME NEW d \in 1..Len(chain), NEW e \in chain[d], e.token \in targets,
              e.kind = k, d <= blockTo, ~(d < TokenCursor(e.token))
       PROVE  Reads(new, rows, cells, d, e)
  <2>0. Later
    BY <1>2, <1>5, <1>7, PassKeepsSession
  <2>1. e \in Event /\ e.token \in Token /\ <<d, e>> \in Row
    BY <1>0, <1>11, EventsAre
  <2>2. <<d, e>> \in logs
    BY <1>11, LogsHave DEF PassLogs
  <2>3. swallowed' = 0 => <<d, e>> \in good
    BY <1>6, <2>2
  <2>4. swallowed' = 0 => rows[<<d, e>>] > 0
    BY <1>4, <2>1, <2>3
  <2>5. ASSUME NEW a \in Account, NEW c \in Column, <<a, c>> \in Changed(e), Claimed(e, c)'
        PROVE  <<e.token, a, c>> \in cells
    <3>1. CASE c = "own" /\ a \in {e[f] : f \in fields}
      <4>1. <<e.token, a>> \in AccountsIn(logs, fields)
        BY <1>9, <2>2, <3>1
      <4> QED
        BY <2>1, <3>1, <4>1, CellIs
    <3>2. CASE c = "locked" /\ a \in {e[f] : f \in lockFields}
      <4>1. <<d, e>> \in good
        BY <2>3, <2>5, <3>2 DEF Claimed
      <4>2. <<e.token, a>> \in AccountsIn(good, lockFields)
        BY <1>10, <4>1, <3>2
      <4> QED
        BY <2>1, <3>2, <4>2, CellIs
    <3> QED
      BY <1>11, <2>1, <2>5, <3>1, <3>2
  <2> QED
    BY <2>4, <2>5 DEF Reads
<1> HIDE DEF new, rows, cells
<1>12. Adds({k})
  BY <1>2, <1>5, <1>7, <1>8, <1>11, PassAdds
<1> QED
  BY <1>2, <1>5, <1>7, <1>8, <1>12, PassKeepsBase

\* The exchange of an event is one of those the pass visits, while no token moved.
LEMMA ExchangeVisited ==
  ASSUME BaseInv, moves = 0, NEW b \in 1..Len(chain), NEW e \in chain[b],
         e.token \in targets, e.kind \in VenueKinds, b <= blockTo,
         ~(b < TokenCursor(e.token)), NEW kinds, e.kind \in kinds
  PROVE  e.at \in Exchanges /\ <<b, e>> \in ExchangeLogs(e.at, kinds, Len(chain))
<1>0. ChainTypeOK /\ StoredTypes /\ CallTypes
  BY TypesInParts DEF BaseInv
<1>1. e.at = exchangeCache[e.token] /\ e.at = tradable[e.token]
  BY BooksRight DEF BaseInv, ChainInv, Traded
<1>2. /\ e \in Event /\ e.token \in Token /\ b \in Block
      /\ e.at \in Exchange /\ e.at # Zero
  BY <1>0, EventsAre, PositionAssumption DEF Party
<1>3. e.at \in Exchanges
  BY <1>1, <1>2 DEF Exchanges
<1> DEFINE S == {start[t] : t \in {u \in targets : exchangeCache[u] = e.at}}
<1>4. S \in SUBSET Nat /\ start[e.token] \in S
  <2>1. \A t \in targets : start[t] \in Nat
    BY <1>0 DEF CallTypes
  <2>2. S \in SUBSET Nat
    BY <2>1
  <2> QED
    BY <1>1, <2>2
<1>5. Min(S) \in Nat /\ Min(S) <= start[e.token]
  BY <1>4, LeastExists
<1> HIDE DEF S
<1>6. ExchangeCursor(e.at) = AtLeast(Min(S), done + 1)
  BY DEF ExchangeCursor, S
<1>7. /\ start[e.token] \in Nat /\ done \in Int /\ blockTo \in Int /\ Len(chain) \in Nat
      /\ b \in Nat
  BY <1>0, <1>2 DEF CallTypes, ChainTypeOK
<1>8. /\ ExchangeCursor(e.at) \in Int /\ ExchangeCursor(e.at) <= b
      /\ TokenCursor(e.token) \in Int /\ b >= TokenCursor(e.token)
  BY <1>5, <1>6, <1>7 DEF TokenCursor, AtLeast
<1>9. <<b, e>> \in Logs(e.token, e.kind, ExchangeCursor(e.at), blockTo, Len(chain))
  BY <1>2, <1>7, <1>8 DEF Logs
<1>10. ~(ExchangeCursor(e.at) > blockTo)
  BY <1>7, <1>8
<1>11. <<b, e>> \in UNION {Logs(t, k, ExchangeCursor(e.at), blockTo, Len(chain)) :
                             t \in targets, k \in kinds}
  BY <1>9
<1> QED
  BY <1>3, <1>8, <1>10, <1>11 DEF ExchangeLogs

\* The events a pass finds at an exchange are made there, by tokens traded there.
LEMMA ExchangeLogsAre ==
  ASSUME BaseInv, moves = 0, NEW x, NEW kinds, kinds \subseteq VenueKinds,
         NEW r \in ExchangeLogs(x, kinds, Len(chain))
  PROVE  x = tradable[r[2].token]
<1>1. PICK t \in targets, k \in kinds :
         r \in Logs(t, k, ExchangeCursor(x), blockTo, Len(chain))
  BY DEF ExchangeLogs
<1>2. r[2].at = x
  BY DEF ExchangeLogs
<1>3. r[1] \in 1..Len(chain) /\ r[2] \in chain[r[1]] /\ r[2].kind = k
  BY <1>1, TypesInParts DEF Logs, BaseInv, ChainTypeOK
<1> QED
  BY <1>2, <1>3 DEF BaseInv, ChainInv, Traded

\* The books a pass reads are those of an exchange that has events of the account.
LEMMA LastIs ==
  ASSUME IsFiniteSet(Exchanges), NEW order \in Orders, NEW kinds, NEW both, NEW h, NEW p,
         NEW x \in Exchanges, p \in PartiesOf(ExchangeLogs(x, kinds, h), both)
  PROVE  LET y == order[Max({i \in DOMAIN order :
                                 p \in PartiesOf(ExchangeLogs(order[i], kinds, h), both)})]
         IN  p \in PartiesOf(ExchangeLogs(y, kinds, h), both)
<1> DEFINE N == Cardinality(Exchanges)
           S == {i \in DOMAIN order :
                   p \in PartiesOf(ExchangeLogs(order[i], kinds, h), both)}
<1>1. N \in Nat
  BY FS_CardinalityType
<1> HIDE DEF N
<1>2. /\ order \in [1..N -> Exchanges]
      /\ \E i \in DOMAIN order : order[i] = x
  BY DEF Orders, N
<1>3. S \in SUBSET (0..N) /\ S # {}
  <2>1. PICK i \in DOMAIN order : order[i] = x
    BY <1>2
  <2> QED
    BY <1>1, <1>2, <2>1
<1>4. Max(S) \in S
  BY <1>1, <1>3, GreatestExists
<1> QED
  BY <1>2, <1>4

\* A pass over the exchanges.
LEMMA ExchangePassAdds ==
  ASSUME BaseInv, NEW name, NEW kinds, NEW both, NEW next,
         ExchangePass(name, kinds, both, next),
         Between(name), Between(next), kinds \subseteq VenueKinds,
         \A e \in Event : \A a \in Account, c \in Column :
             e.kind \in kinds /\ <<a, c>> \in Changed(e) =>
                 /\ c \in {"deposit", "commitment"}
                 /\ a = e.from \/ (e.kind \in both /\ a = e.to)
  PROVE  BaseInv' /\ Adds(kinds)
<1>0. ChainTypeOK /\ StoredTypes /\ CallTypes
  BY TypesInParts DEF BaseInv
<1> DEFINE pairs(x) == PartiesOf(ExchangeLogs(x, kinds, Len(chain)), both)
           Last(order) == [p \in UNION {pairs(x) : x \in Exchanges} |->
                              order[Max({i \in DOMAIN order : p \in pairs(order[i])})]]
           C == {"deposit", "commitment"}
           New(order) == Sink(sess.table, DOMAIN Last(order), C, Last(order), Len(chain))
<1>1. PICK order \in Orders : sess' = [sess EXCEPT !.table = New(order)]
  <2>1. PICK n \in Node, order \in Orders :
           LET pairs_1(x) == PartiesOf(ExchangeLogs(x, kinds, head[n]), both)
               last == [p \in UNION {pairs_1(x) : x \in Exchanges} |->
                           order[Max({i \in DOMAIN order : p \in pairs_1(order[i])})]]
           IN  sess' = [sess EXCEPT !.table =
                           Sink(@, DOMAIN last, {"deposit", "commitment"}, last, head[n])]
    BY Zenon DEF ExchangePass
  <2>2. head[n] = Len(chain)
    BY DEF BaseInv, ChainInv
  <2> QED
    BY ZenonT(60), <2>1, <2>2
<1> DEFINE last == Last(order)
           Q == DOMAIN last
           new == Sink(sess.table, Q, C, last, Len(chain))
           rows == sess.lockRows
           cells == Cells(Q, C)
<1>2. sess' = [sess EXCEPT !.table = new]
  BY <1>1
<1>3. \A p : p \in Q <=> \E x \in Exchanges : p \in pairs(x)
  OBVIOUS
<1>4. \A p \in Q : last[p] = order[Max({i \in DOMAIN order : p \in pairs(order[i])})]
  OBVIOUS
<1>5. ASSUME NEW t \in Token, NEW a \in Account, <<t, a>> \in Q, moves = 0
      PROVE  last[<<t, a>>] = tradable[t]
  <2>1. IsFiniteSet(Exchanges)
    <3>1. Exchanges \subseteq Exchange \union {"absent"}
      BY <1>0 DEF Exchanges, CallTypes, Venue
    <3>2. IsFiniteSet(Exchange \union {"absent"})
      BY PositionAssumption, FS_AddElement
    <3> QED
      BY <3>1, <3>2, FS_Subset
  <2>2. PICK x \in Exchanges : <<t, a>> \in pairs(x)
    BY <1>3, <1>5
  <2>3. <<t, a>> \in pairs(last[<<t, a>>])
    BY <1>4, <1>5, <2>1, <2>2, LastIs
  <2> DEFINE y == last[<<t, a>>]
  <2>4. PICK r \in ExchangeLogs(y, kinds, Len(chain)) : t = r[2].token
    BY <2>3 DEF PartiesOf
  <2> HIDE DEF y
  <2> QED
    BY <1>5, <2>4, ExchangeLogsAre DEF y
<1> HIDE DEF last, Q, C
<1>6. Refreshed(new, cells)
  BY <1>0, <1>5, SinkRefreshes DEF StoredTypes
<1>7. new = [c \in Token \X Account \X Column |-> new[c]]
  <2>1. sess.table \in Table
    BY <1>0 DEF StoredTypes
  <2> QED
    BY <2>1, SinkWrites
<1> HIDE DEF new
<1>8. new \in Table
  BY <1>0, <1>6, <1>7, RefreshType DEF StoredTypes
<1>9. Writes(new, rows)
  <2>1. sess' = [table |-> new, lockRows |-> rows]
    BY <1>0, <1>2 DEF StoredTypes
  <2>2. rows \in RowCount /\ \A r \in Row : rows[r] \in Int
    BY <1>0, PositionAssumption DEF StoredTypes, RowCount
  <2> QED
    BY <1>8, <2>1, <2>2 DEF Writes
<1>10. PassFrame /\ accounts' = accounts
  BY <1>0, PositionAssumption DEF ExchangePass, PassFrame, Between, faultVars, tableVars, CallTypes
<1>11. accounts' \subseteq targets \X Account /\ accounts' \subseteq Token \X Account
  BY <1>0, <1>10 DEF BaseInv, CallInv, CallTypes
<1>12. ASSUME NEW b \in 1..Len(chain), NEW e \in chain[b],
              e.token \in targets, b <= blockTo, e.kind \in kinds,
              ~(b < TokenCursor(e.token))
       PROVE  Reads(new, rows, cells, b, e)
  <2>1. e \in Event /\ e.token \in Token /\ e.kind \notin LockKinds /\ BookOf(e) = e.at
    BY <1>0, <1>12, EventsAre
       DEF LockKinds, VenueKinds, OrderKinds, EscrowKinds, DeliveryKinds, BookOf
  <2>2. ASSUME NEW a \in Account, NEW c \in Column, <<a, c>> \in Changed(e), Claimed(e, c)'
        PROVE  <<e.token, a, c>> \in cells
    <3>1. c \in {"deposit", "commitment"} /\ (a = e.from \/ (e.kind \in both /\ a = e.to))
      BY <1>12, <2>1, <2>2
    <3>2. moves = 0
      BY <1>10, <2>2, <3>1 DEF Claimed, PassFrame, marketVars
    <3>3. e.at \in Exchanges /\ <<b, e>> \in ExchangeLogs(e.at, kinds, Len(chain))
      BY <1>12, <3>2, ExchangeVisited
    <3>4. <<e.token, a>> \in PartiesOf(ExchangeLogs(e.at, kinds, Len(chain)), both)
      BY <2>1, <3>1, <3>3 DEF PartiesOf, Party
    <3>5. <<e.token, a>> \in Q
      BY <1>3, <3>3, <3>4
    <3> QED
      BY <2>1, <3>1, <3>5, CellIs DEF C
  <2> QED
    BY <2>1, <2>2 DEF Reads
<1>13. Adds(kinds)
  BY <1>6, <1>9, <1>10, <1>11, <1>12, PassAdds
<1> QED
  BY <1>6, <1>9, <1>10, <1>11, <1>13, PassKeepsBase

------------------------------------------------------------------------------
(* The pass over transfers. *)

\* A transfer changes values of its two parties, on their own and on the exchange.
LEMMA TransferChanges ==
  ASSUME NEW e, e.kind = "Transfer", NEW a, NEW c, <<a, c>> \in Changed(e)
  PROVE  a \in {e.from, e.to} /\ c \in {"own", "deposit"}
<1>1. Changed(e) = ({e.from, e.to} \X {"own"})
                      \union (IF e.to \in Exchange THEN {<<e.from, "deposit">>} ELSE {})
                      \union (IF e.from \in Exchange THEN {<<e.to, "deposit">>} ELSE {})
  <2>1. e.kind \notin OrderKinds \union EscrowKinds \union DeliveryKinds
    BY DEF OrderKinds, EscrowKinds, DeliveryKinds
  <2> QED
    BY <2>1, Zenon DEF Changed
<1> QED
  BY <1>1

\* Nobody is left to read: the pass is over.
LEMMA BatchesDone ==
  ASSUME Batches', accounts' = {}
  PROVE  Chunk({"Transfer"})'
BY DEF Batches, Chunk, InSession, Shown, Covered, LockKinds

\* The accounts of the transfers of a chunk are gathered.
LEMMA ReadTransfersStep ==
  ASSUME BaseInv, NEW next, ReadTransfers(next), Between(next)
  PROVE  BaseInv' /\ Batches' /\ (pc' # "TransferBatch" => pc' = next /\ Chunk({"Transfer"})')
<1>0. ChainTypeOK /\ StoredTypes /\ CallTypes
  BY TypesInParts DEF BaseInv
<1>1. accounts' = {ta \in targets \X Account :
                      \E r \in TokenLogs(ta[1], "Transfer", Len(chain)) :
                          ta[2] \in {r[2].from, r[2].to}}
  BY DEF ReadTransfers, BaseInv, ChainInv
<1>2. /\ PassFrame /\ sess' = sess
      /\ pc' = IF accounts' = {} THEN next ELSE "TransferBatch"
  <2>0. pc' = (IF accounts' = {} THEN next ELSE "TransferBatch") /\ pc = "Transfer"
    BY Zenon DEF ReadTransfers
  <2>1. /\ pc' \in Steps
        /\ pc \notin {"idle", "set_block_number"} /\ pc' \notin {"idle", "set_block_number"}
    BY <2>0 DEF Between, Steps
  <2>2. swallowed' \in 0..MaxSwallowed /\ swallowed <= swallowed'
    BY <1>0, PositionAssumption DEF ReadTransfers, faultVars, CallTypes
  <2> QED
    BY <2>0, <2>1, <2>2 DEF ReadTransfers, PassFrame, faultVars, tableVars
<1>3. /\ Writes(sess.table, sess.lockRows) /\ Refreshed(sess.table, {})
      /\ accounts' \subseteq targets \X Account /\ accounts' \subseteq Token \X Account
  <2>1. \A r \in Row : sess.lockRows[r] \in Int
    BY <1>0, PositionAssumption DEF StoredTypes, RowCount
  <2>2. Writes(sess.table, sess.lockRows)
    BY <1>0, <1>2, <2>1 DEF Writes, StoredTypes
  <2>3. Refreshed(sess.table, {})
    BY DEF Refreshed
  <2> QED
    BY <1>0, <1>1, <2>2, <2>3 DEF CallTypes
<1>4. BaseInv' /\ Later
  BY <1>2, <1>3, PassKeepsBase
<1>5. Batches'
  <2>0. UNCHANGED <<chain, targets, blockTo>>
    BY <1>2 DEF PassFrame, chainVars, listVars
  <2> SUFFICES ASSUME NEW b \in 1..Len(chain), NEW e \in chain[b],
                      e.token \in targets, b <= blockTo, e.kind = "Transfer",
                      NEW a \in Account, NEW c \in Column,
                      <<a, c>> \in Changed(e), Claimed(e, c)'
               PROVE  sess'.table[<<e.token, a, c>>] >= b \/ <<e.token, a>> \in accounts'
    BY <2>0 DEF Batches
  <2>1. CASE b < TokenCursor(e.token)
    <3>1. InSession(b, e) /\ Claimed(e, c)
      BY <1>4, <2>1, SkippedAreShown DEF Later, Claimed
    <3> QED
      BY <1>2, <3>1 DEF InSession, Shown, Covered
  <2>2. CASE ~(b < TokenCursor(e.token))
    <3>1. <<b, e>> \in TokenLogs(e.token, "Transfer", Len(chain))
      BY <2>2, LogsHave
    <3>2. a \in {e.from, e.to}
      BY TransferChanges
    <3> QED
      BY <1>1, <3>1, <3>2
  <2> QED
    BY <2>1, <2>2
<1> QED
  BY <1>2, <1>4, <1>5, BatchesDone

\* A batch of these accounts is read and committed.
LEMMA SinkTransfersStep ==
  ASSUME BaseInv, Batches, NEW next, SinkTransfers(next), Between(next)
  PROVE  BaseInv' /\ Batches' /\ (pc' # "TransferBatch" => pc' = next /\ Chunk({"Transfer"})')
<1>0. ChainTypeOK /\ StoredTypes /\ CallTypes
  BY TypesInParts DEF BaseInv
<1> DEFINE C == {"own", "deposit"}
           New(batch) == Sink(sess.table, batch, C, Books, Len(chain))
<1>1. PICK batch \in SUBSET accounts :
         /\ sess' = [sess EXCEPT !.table = New(batch)]
         /\ accounts' = accounts \ batch
  <2>1. \A n \in Node : head[n] = Len(chain)
    BY DEF BaseInv, ChainInv
  <2> QED
    BY <2>1 DEF SinkTransfers, kSubset
<1> DEFINE new == New(batch)
           rows == sess.lockRows
           cells == Cells(batch, C)
<1>2. \A t \in Token, a \in Account :
         <<t, a>> \in batch /\ moves = 0 => Books[<<t, a>>] = tradable[t]
  <2>1. accounts \subseteq targets \X Account
    BY DEF BaseInv, CallInv
  <2> QED
    BY <2>1, BooksRight DEF Books
<1>3. \A c : c \in C <=> c \in {"own", "deposit"}
  OBVIOUS
<1> HIDE DEF C
<1>4. sess.table \in Table
  BY <1>0 DEF StoredTypes
<1>5. Refreshed(new, cells)
  BY <1>2, <1>4, SinkRefreshes
<1>6. new = [k \in Token \X Account \X Column |-> new[k]]
  BY <1>4, SinkWrites
<1> HIDE DEF new
<1>7. new \in Table
  BY <1>0, <1>4, <1>5, <1>6, RefreshType
<1>8. Writes(new, rows)
  <2>1. sess' = [table |-> new, lockRows |-> rows]
    BY <1>0, <1>1 DEF StoredTypes, new
  <2>2. rows \in RowCount /\ \A r \in Row : rows[r] \in Int
    BY <1>0, PositionAssumption DEF StoredTypes, RowCount
  <2> QED
    BY <1>7, <2>1, <2>2 DEF Writes
<1>9. PassFrame /\ pc' = IF accounts' = {} THEN next ELSE "TransferBatch"
  BY <1>0, PositionAssumption DEF SinkTransfers, PassFrame, Between, faultVars, CallTypes
<1>10. accounts' \subseteq targets \X Account /\ accounts' \subseteq Token \X Account
  BY <1>0, <1>1 DEF BaseInv, CallInv, CallTypes
<1>11. BaseInv' /\ Later
  BY <1>5, <1>8, <1>9, <1>10, PassKeepsBase
<1>12. Batches'
  <2>0. UNCHANGED <<chain, targets, blockTo>>
    BY <1>9 DEF PassFrame, chainVars, listVars
  <2> SUFFICES ASSUME NEW b \in 1..Len(chain), NEW e \in chain[b],
                      e.token \in targets, b <= blockTo, e.kind = "Transfer",
                      NEW a \in Account, NEW c \in Column,
                      <<a, c>> \in Changed(e), Claimed(e, c)'
               PROVE  sess'.table[<<e.token, a, c>>] >= b \/ <<e.token, a>> \in accounts'
    BY <2>0 DEF Batches
  <2>1. Claimed(e, c) /\ c \in C /\ e.token \in Token
    BY <1>0, <1>3, <1>11, EventsAre, TransferChanges DEF Later, Claimed
  <2>2. sess'.table = new
    BY <1>8 DEF Writes
  <2>3. CASE <<e.token, a>> \in batch
    <3>1. <<e.token, a, c>> \in cells
      BY <2>1, <2>3, CellIs
    <3> QED
      BY <1>0, <1>5, <2>1, <2>2, <3>1, RefreshReads
  <2>4. CASE <<e.token, a>> \notin batch
    <3>1. <<e.token, a, c>> \notin cells
      BY <2>1, <2>4, CellIs
    <3>2. new[<<e.token, a, c>>] = sess.table[<<e.token, a, c>>]
      BY <1>5, <2>1, <3>1 DEF Refreshed
    <3> QED
      BY <1>1, <2>1, <2>2, <2>4, <3>2 DEF Batches
  <2> QED
    BY <2>3, <2>4
<1> QED
  BY <1>9, <1>11, <1>12, BatchesDone

------------------------------------------------------------------------------
(* The steps before and after the passes. *)

\* The common part of the invariant holds in the beginning.
LEMMA InitBase ==
  ASSUME OneNode, Init
  PROVE  BaseInv /\ pc = "idle"
<1>1. ChainTypeOK
  BY DEF Init, ChainInit, ChainTypeOK
<1>2. table \in Table /\ lockRows \in RowCount
  BY PositionAssumption DEF Init, Table, RowCount
<1>3. StoredTypes
  <2>1. cursor \in [Token \X Venue -> BlockNumber \union {-1}]
    BY DEF Init
  <2> QED
    BY <1>2, <2>1, PositionAssumption DEF Init, StoredTypes
<1>4. CallTypes
  BY PositionAssumption DEF Init, CallTypes, Steps
<1>5. chain = <<>> /\ Len(chain) = 0 /\ \A n \in Node : head[n] = 0
  BY DEF Init, ChainInit
<1>6. ChainInv
  BY <1>5 DEF ChainInv
<1>7. StoredInv
  BY <1>5 DEF StoredInv, Init
<1>8. CallInv
  BY <1>5 DEF CallInv, Init
<1> QED
  BY <1>1, <1>3, <1>4, <1>6, <1>7, <1>8, TypesInParts DEF BaseInv, Init

\* What is stored stays right when neither the tables nor the session change.
LEMMA StoredStays ==
  ASSUME StoredInv, Later, UNCHANGED <<chain, table, lockRows, cursor, sess>>
  PROVE  StoredInv'
<1> SUFFICES ASSUME NEW t \in Token, NEW x \in Venue
             PROVE  /\ cursor[<<t, x>>] <= Len(chain)
                    /\ \A b \in 1..Len(chain) : \A e \in chain[b] :
                          e.token = t /\ b <= cursor[<<t, x>>] =>
                              Shown(table, lockRows, b, e)' /\ InSession(b, e)'
  BY DEF StoredInv
<1>1. ASSUME NEW b \in 1..Len(chain), NEW e \in chain[b], e.token = t, b <= cursor[<<t, x>>]
      PROVE  Shown(table, lockRows, b, e)' /\ InSession(b, e)'
  <2>1. Shown(table, lockRows, b, e) /\ Shown(sess.table, sess.lockRows, b, e)
    BY <1>1 DEF StoredInv, InSession
  <2>2. ASSUME NEW tab, NEW rows, Shown(tab, rows, b, e), tab = table', rows = lockRows'
        PROVE  Shown(table, lockRows, b, e)'
    BY <2>2, StaysShown
  <2>3. ASSUME NEW tab, NEW rows, Shown(tab, rows, b, e), tab = sess'.table,
               rows = sess'.lockRows
        PROVE  InSession(b, e)'
    BY <2>3, StaysShown DEF InSession
  <2> QED
    BY <2>1, <2>2, <2>3
<1> QED
  BY <1>1 DEF StoredInv

\* A call takes the listed tokens and their cursors.
LEMMA GetContractListStep ==
  ASSUME BaseInv, NEW first, GetContractList(first), Between(first)
  PROVE  BaseInv' /\ pc' = first
<1>0. ChainTypeOK /\ StoredTypes /\ CallTypes
  BY TypesInParts DEF BaseInv
<1>1. /\ UNCHANGED <<chain, head, listed, tradable, moves, table, lockRows, cursor>>
      /\ UNCHANGED <<sess, done, accounts, failures, swallowed>>
      /\ pc' = first /\ targets' = listed /\ done = -1 /\ accounts = {}
  BY DEF GetContractList, chainVars, marketVars, tableVars, faultVars, BaseInv, CallInv
<1>2. Later
  BY <1>1 DEF Later
<1>3. listed \subseteq Token /\ Len(chain) \in Nat /\ Len(chain) <= MaxBlock
  BY <1>0 DEF ChainTypeOK
<1>4. latest' = Len(chain)
  BY DEF GetContractList, BaseInv, ChainInv
<1>5. /\ exchangeCache' \in [Token -> Venue \union {"absent"}]
      /\ \A t \in listed : exchangeCache'[t] \in Venue
      /\ moves = 0 => \A t \in Token : exchangeCache'[t] \in {"absent", tradable[t]}
  <2>1. exchangeCache' =
            [t \in Token |-> IF t \in listed /\ exchangeCache[t] = "absent"
                            THEN tradable[t] ELSE exchangeCache[t]]
    BY DEF GetContractList
  <2>2. /\ \A t \in Token : exchangeCache[t] \in Venue \union {"absent"} /\ tradable[t] \in Venue
        /\ moves = 0 => \A t \in Token : exchangeCache[t] \in {"absent", tradable[t]}
    BY <1>0 DEF StoredTypes, CallTypes, BaseInv, CallInv
  <2> QED
    BY <1>3, <2>1, <2>2
<1>6. /\ start' \in [Token -> 0..MaxBlock + 1]
      /\ \A t \in listed : start'[t] = cursor[<<t, exchangeCache'[t]>>] + 1
  <2>1. start' = [t \in Token |-> IF t \in listed THEN cursor[<<t, exchangeCache'[t]>>] + 1
                                 ELSE 0]
    BY DEF GetContractList
  <2>2. \A t \in listed : cursor[<<t, exchangeCache'[t]>>] \in BlockNumber \union {-1}
    BY <1>0, <1>3, <1>5 DEF StoredTypes
  <2>3. \A c \in BlockNumber \union {-1} : c + 1 \in 0..MaxBlock + 1
    OBVIOUS
  <2>4. \A t \in listed : cursor[<<t, exchangeCache'[t]>>] + 1 \in 0..MaxBlock + 1
    BY <2>2, <2>3
  <2> QED
    BY <1>3, <2>1, <2>4
<1>7. blockTo' \in Nat /\ blockTo' <= latest'
  <2> DEFINE S == {latest'} \union {start'[t] : t \in listed}
             b == IF listed = {} THEN 0 ELSE Min(S)
  <2>1. blockTo' = Min({b + ChunkSize - 1, latest'})
    BY DEF GetContractList, ChunkEnd
  <2>2. S \in SUBSET Nat /\ S # {}
    <3>1. \A t \in listed : start'[t] \in Nat
      BY <1>3, <1>6
    <3> QED
      BY <1>3, <1>4, <3>1
  <2>3. Min(S) \in Nat
    BY <2>2, LeastExists
  <2>4. b \in Nat
    BY <2>3
  <2>5. ChunkSize \in Nat /\ ChunkSize > 0
    BY PositionAssumption
  <2> HIDE DEF b
  <2>6. b + ChunkSize - 1 \in Nat /\ latest' \in Nat
    BY <1>3, <1>4, <2>4, <2>5
  <2> QED
    BY <2>1, <2>6, LeastOfTwo
<1>8. TypeOK'
  <2>1. ChainTypeOK' /\ StoredTypes'
    BY <1>0, <1>1 DEF ChainTypeOK, StoredTypes
  <2>2. CallTypes'
    BY <1>0, <1>1, <1>3, <1>4, <1>5, <1>6, <1>7 DEF CallTypes, Between
  <2> QED
    BY <2>1, <2>2, NextTypesInParts
<1>9. ChainInv'
  BY <1>1 DEF BaseInv, ChainInv, Traded
<1>10. StoredInv'
  BY <1>1, <1>2, StoredStays DEF BaseInv
<1>11. CallInv'
  BY <1>1, <1>3, <1>4, <1>5, <1>6, <1>7 DEF CallInv, Between
<1> QED
  BY <1>1, <1>8, <1>9, <1>10, <1>11 DEF BaseInv

\* Only registrations change no value and have no row.
LEMMA RegistrationsShown ==
  ASSUME NEW e, e.kind = "Register", NEW b
  PROVE  InSession(b, e)
<1>1. e.kind \notin OrderKinds \union EscrowKinds \union DeliveryKinds /\ e.kind \notin LockKinds
  BY DEF OrderKinds, EscrowKinds, DeliveryKinds, LockKinds
<1>2. Changed(e) = {}
  BY <1>1, Zenon DEF Changed
<1> QED
  BY <1>1, <1>2 DEF InSession, Shown, Covered

\* The cursors advance over a chunk whose kinds were all read.
LEMMA UpdateCursorStep ==
  ASSUME BaseInv, NEW first, UpdateCursor(first), Between(first), NEW kinds, Chunk(kinds),
         \A e \in Event : e.kind \in kinds \union {"Register"}
  PROVE  BaseInv' /\ pc' \in {first, "set_block_number"}
<1>0. ChainTypeOK /\ StoredTypes /\ CallTypes
  BY TypesInParts DEF BaseInv
<1>1. /\ UNCHANGED <<chain, head, listed, tradable, moves, table, lockRows, cursor>>
      /\ UNCHANGED <<sess, exchangeCache, targets, start, latest, accounts, failures, swallowed>>
      /\ done' = blockTo /\ pc = "update_cursor"
  BY DEF UpdateCursor, chainVars, marketVars, tableVars, listVars, faultVars
<1>2. Later
  BY <1>1 DEF Later
<1>3. /\ latest \in Nat /\ blockTo \in Nat /\ ChunkSize \in Nat /\ ChunkSize > 0
      /\ latest <= Len(chain) /\ blockTo <= latest /\ latest <= MaxBlock
  BY <1>0, <1>1, PositionAssumption DEF CallTypes, BaseInv, CallInv
<1>4. /\ blockTo' \in Nat /\ blockTo' <= latest /\ blockTo <= blockTo'
      /\ pc' \in {first, "set_block_number"}
      /\ pc' = "set_block_number" => blockTo = latest
  <2>1. CASE blockTo < latest
    <3>1. blockTo' = Min({blockTo + ChunkSize, latest}) /\ pc' = first
      BY <2>1 DEF UpdateCursor
    <3>2. /\ Min({blockTo + ChunkSize, latest}) \in {blockTo + ChunkSize, latest}
          /\ Min({blockTo + ChunkSize, latest}) <= latest
      BY <1>3, LeastOfTwo
    <3> QED
      BY <1>3, <2>1, <3>1, <3>2 DEF Between
  <2>2. CASE ~(blockTo < latest)
    BY <1>3, <2>2 DEF UpdateCursor
  <2> QED
    BY <2>1, <2>2
<1>5. TypeOK'
  <2>1. ChainTypeOK' /\ StoredTypes'
    BY <1>0, <1>1 DEF ChainTypeOK, StoredTypes
  <2>2. pc' \in Steps
    BY <1>4 DEF Between, Steps
  <2>3. CallTypes'
    BY <1>0, <1>1, <1>3, <1>4, <2>2 DEF CallTypes
  <2> QED
    BY <2>1, <2>3, NextTypesInParts
<1>6. ChainInv'
  BY <1>1 DEF BaseInv, ChainInv, Traded
<1>7. StoredInv'
  BY <1>1, <1>2, StoredStays DEF BaseInv
<1>8. CallInv'
  <2>1. ASSUME NEW b \in 1..Len(chain), NEW e \in chain[b], e.token \in targets, b <= blockTo
        PROVE  InSession(b, e)'
    <3>1. e \in Event
      BY <1>0, EventsAre
    <3>2. InSession(b, e)
      BY <2>1, <3>1, RegistrationsShown DEF Chunk
    <3>3. ASSUME NEW tab, NEW rows, Shown(tab, rows, b, e), tab = sess'.table,
                 rows = sess'.lockRows
          PROVE  InSession(b, e)'
      BY <1>2, <3>3, StaysShown DEF InSession
    <3> QED
      BY <1>1, <3>2, <3>3 DEF InSession
  <2>2. /\ accounts \subseteq targets \X Account
        /\ \A t \in targets : /\ exchangeCache[t] \in Venue
                              /\ start[t] = cursor[<<t, exchangeCache[t]>>] + 1
        /\ moves = 0 => \A t \in Token : exchangeCache[t] \in {"absent", tradable[t]}
    BY DEF BaseInv, CallInv
  <2>3. pc' # "idle" /\ (pc' = "set_block_number" => done' = latest')
    BY <1>1, <1>4 DEF Between
  <2> QED
    BY <1>1, <1>3, <1>4, <2>1, <2>2, <2>3 DEF CallInv
<1> QED
  BY <1>4, <1>5, <1>6, <1>7, <1>8 DEF BaseInv

\* After the end of a call nothing is known of it.
LEMMA EndOfCallTypes ==
  ASSUME CallTypes, EndOfCall, exchangeCache' \in [Token -> Venue \union {"absent"}],
         failures' \in 0..MaxFailures, UNCHANGED swallowed
  PROVE  CallTypes'
BY DEF CallTypes, EndOfCall, Steps

\* A call that is over leaves nothing in memory.
LEMMA EndOfCallInv ==
  ASSUME EndOfCall, moves = 0 => \A t \in Token : exchangeCache'[t] \in {"absent", tradable[t]},
         UNCHANGED <<chain, moves, tradable>>, ChainTypeOK
  PROVE  CallInv'
BY DEF CallInv, EndOfCall, ChainTypeOK

\* The call ends with its commit.
LEMMA SetBlockNumberStep ==
  ASSUME BaseInv, SetBlockNumber
  PROVE  BaseInv' /\ pc' = "idle"
<1>0. ChainTypeOK /\ StoredTypes /\ CallTypes
  BY TypesInParts DEF BaseInv
<1>1. /\ UNCHANGED <<chain, head, listed, tradable, moves, sess, exchangeCache, failures, swallowed>>
      /\ pc = "set_block_number" /\ EndOfCall
      /\ table' = sess.table /\ lockRows' = sess.lockRows
  BY DEF SetBlockNumber, chainVars, marketVars, faultVars
<1>2. Later
  BY <1>1 DEF Later
<1>3. \A t \in Token, x \in Venue :
         \/ t \in targets /\ cursor'[<<t, x>>] = latest
         \/ cursor'[<<t, x>>] = cursor[<<t, x>>]
  BY <1>0 DEF SetBlockNumber, StoredTypes
<1>4. cursor' \in [Token \X Venue -> BlockNumber \union {-1}]
  BY <1>0 DEF SetBlockNumber, StoredTypes, CallTypes
<1>5. TypeOK'
  <2>1. ChainTypeOK'
    BY <1>0, <1>1 DEF ChainTypeOK
  <2>2. StoredTypes'
    BY <1>0, <1>1, <1>4 DEF StoredTypes
  <2>3. CallTypes'
    BY <1>0, <1>1, EndOfCallTypes DEF CallTypes
  <2> QED
    BY <2>1, <2>2, <2>3, NextTypesInParts
<1>6. ChainInv'
  BY <1>1 DEF BaseInv, ChainInv, Traded
<1>7. StoredInv'
  <2>1. latest <= Len(chain) /\ done = latest
    BY <1>1 DEF BaseInv, CallInv
  <2>2. ASSUME NEW t \in Token, NEW x \in Venue
        PROVE  cursor'[<<t, x>>] <= Len(chain)
    BY <1>3, <2>1 DEF BaseInv, StoredInv
  <2>3. ASSUME NEW t \in Token, NEW x \in Venue, NEW b \in 1..Len(chain),
               NEW e \in chain[b], e.token = t, b <= cursor'[<<t, x>>]
        PROVE  Shown(table, lockRows, b, e)' /\ InSession(b, e)'
    <3>1. InSession(b, e)
      BY <1>3, <2>1, <2>3 DEF BaseInv, StoredInv, CallInv
    <3>2. ASSUME NEW tab, NEW rows, Shown(tab, rows, b, e), tab = sess.table,
                 rows = sess.lockRows
          PROVE  Shown(table, lockRows, b, e)' /\ InSession(b, e)'
      BY <1>1, <1>2, <3>2, StaysShown DEF InSession
    <3> QED
      BY <3>1, <3>2 DEF InSession
  <2> QED
    BY <1>1, <2>2, <2>3 DEF StoredInv
<1>8. CallInv'
  BY <1>0, <1>1, EndOfCallInv DEF BaseInv, CallInv
<1> QED
  BY <1>1, <1>5, <1>6, <1>7, <1>8 DEF BaseInv, EndOfCall

\* A call that fails, in this process or with it.
LEMMA FailureStep ==
  ASSUME BaseInv, Rollback \/ Restart
  PROVE  BaseInv' /\ pc' = "idle"
<1>0. ChainTypeOK /\ StoredTypes /\ CallTypes
  BY TypesInParts DEF BaseInv
<1>1. /\ UNCHANGED <<chain, head, listed, tradable, moves, table, lockRows, cursor, swallowed>>
      /\ EndOfCall /\ failures < MaxFailures /\ failures' = failures + 1
      /\ sess' = [table |-> table, lockRows |-> lockRows]
      /\ exchangeCache' = exchangeCache \/ exchangeCache' = [t \in Token |-> "absent"]
  BY DEF Rollback, Restart, chainVars, marketVars, tableVars
<1>2. Later
  BY <1>1 DEF Later
<1>3. /\ exchangeCache' \in [Token -> Venue \union {"absent"}]
      /\ moves = 0 => \A t \in Token : exchangeCache'[t] \in {"absent", tradable[t]}
  BY <1>0, <1>1 DEF CallTypes, BaseInv, CallInv
<1>4. TypeOK'
  <2>1. ChainTypeOK'
    BY <1>0, <1>1 DEF ChainTypeOK
  <2>2. StoredTypes'
    BY <1>0, <1>1 DEF StoredTypes
  <2>3. failures' \in 0..MaxFailures
    BY <1>0, <1>1, PositionAssumption DEF CallTypes
  <2>4. CallTypes'
    BY <1>0, <1>1, <1>3, <2>3, EndOfCallTypes
  <2> QED
    BY <2>1, <2>2, <2>4, NextTypesInParts
<1>5. ChainInv'
  BY <1>1 DEF BaseInv, ChainInv, Traded
<1>6. StoredInv'
  <2>1. ASSUME NEW t \in Token, NEW x \in Venue, NEW b \in 1..Len(chain),
               NEW e \in chain[b], e.token = t, b <= cursor[<<t, x>>]
        PROVE  Shown(table, lockRows, b, e)' /\ InSession(b, e)'
    <3>1. Shown(table, lockRows, b, e)
      BY <2>1 DEF BaseInv, StoredInv
    <3>2. ASSUME NEW tab, NEW rows, Shown(tab, rows, b, e), tab = table, rows = lockRows
          PROVE  Shown(table, lockRows, b, e)' /\ InSession(b, e)'
      BY <1>1, <1>2, <3>2, StaysShown DEF InSession
    <3> QED
      BY <3>1, <3>2
  <2> QED
    BY <1>1, <2>1 DEF StoredInv, BaseInv
<1>7. CallInv'
  BY <1>0, <1>1, <1>3, EndOfCallInv
<1> QED
  BY <1>1, <1>4, <1>5, <1>6, <1>7 DEF BaseInv, EndOfCall

------------------------------------------------------------------------------
(* The contracts and the list of tokens change while the indexer runs. *)

\* Blocks are only added, and the indexer takes no step.
Outside ==
    /\ UNCHANGED <<tableVars, sess, listVars, done, blockTo, accounts, pc, faultVars>>
    /\ Len(chain) <= Len(chain')
    /\ \A b \in 1..Len(chain) : chain'[b] = chain[b]

\* What a pass has shown stays shown; blocks that are new are beyond the chunk.
LEMMA OutsideKeepsChunk ==
  ASSUME BaseInv, Later, Outside, ChainTypeOK'
  PROVE  Adds({}) /\ (Batches => Batches')
<1>0. ChainTypeOK /\ StoredTypes /\ CallTypes
  BY TypesInParts DEF BaseInv
<1>1. UNCHANGED <<sess, targets, done, blockTo, accounts, pc>>
  BY DEF Outside, listVars
<1>2. ASSUME NEW b \in 1..Len(chain'), NEW e \in chain'[b], e.token \in targets, b <= blockTo
      PROVE  b \in 1..Len(chain) /\ e \in chain[b]
  <2>1. pc # "idle" /\ blockTo <= latest /\ latest <= Len(chain)
    BY <1>2 DEF BaseInv, CallInv
  <2>2. blockTo \in Nat /\ latest \in Nat /\ Len(chain) \in Nat
    BY <1>0 DEF CallTypes, ChainTypeOK
  <2>3. b \in 1..Len(chain)
    BY <1>2, <2>1, <2>2
  <2> QED
    BY <2>3 DEF Outside
<1>3. ASSUME NEW b, NEW e, InSession(b, e)
      PROVE  InSession(b, e)'
  <2>1. ASSUME NEW tab, NEW rows, Shown(tab, rows, b, e), tab = sess'.table,
               rows = sess'.lockRows
        PROVE  InSession(b, e)'
    BY <2>1, StaysShown DEF InSession
  <2> QED
    BY <1>1, <1>3, <2>1 DEF InSession
<1>4. Adds({})
  BY <1>1, <1>2, <1>3 DEF Adds, Chunk
<1>5. ASSUME Batches PROVE Batches'
  <2> SUFFICES ASSUME NEW b \in 1..Len(chain'), NEW e \in chain'[b],
                      e.token \in targets, b <= blockTo, e.kind = "Transfer",
                      NEW a \in Account, NEW c \in Column,
                      <<a, c>> \in Changed(e), Claimed(e, c)'
               PROVE  sess.table[<<e.token, a, c>>] >= b \/ <<e.token, a>> \in accounts
    BY <1>1 DEF Batches
  <2>1. b \in 1..Len(chain) /\ e \in chain[b]
    BY <1>2
  <2>2. Claimed(e, c)
    BY DEF Later, Claimed
  <2> QED
    BY <1>5, <2>1, <2>2 DEF Batches
<1> QED
  BY <1>4, <1>5

\* Steps of others keep the common part.
LEMMA OutsideKeepsBase ==
  ASSUME BaseInv, Later, Outside, TypeOK', ChainInv',
         moves' = 0 => UNCHANGED <<moves, tradable>>
  PROVE  BaseInv'
<1>0. ChainTypeOK /\ StoredTypes /\ CallTypes /\ ChainTypeOK'
  BY TypesInParts, NextTypesInParts DEF BaseInv
<1>1. /\ UNCHANGED <<table, lockRows, cursor, sess, exchangeCache, targets, start>>
      /\ UNCHANGED <<latest, done, blockTo, accounts, pc>>
  BY DEF Outside, tableVars, listVars
<1>2. Len(chain) \in Nat /\ Len(chain') \in Nat /\ Len(chain) <= Len(chain')
  BY <1>0 DEF ChainTypeOK, Outside
<1>3. ASSUME NEW b, NEW e, NEW tab, NEW rows, Shown(tab, rows, b, e)
      PROVE  Shown(tab, rows, b, e)'
  BY <1>3, StaysShown
<1>4. ASSUME NEW b, NEW e, InSession(b, e)
      PROVE  InSession(b, e)'
  <2>1. ASSUME NEW tab, NEW rows, Shown(tab, rows, b, e), tab = sess'.table,
               rows = sess'.lockRows
        PROVE  InSession(b, e)'
    BY <2>1, StaysShown DEF InSession
  <2> QED
    BY <1>1, <1>4, <2>1 DEF InSession
<1>5. StoredInv'
  <2>1. ASSUME NEW t \in Token, NEW x \in Venue
        PROVE  cursor[<<t, x>>] <= Len(chain') /\ cursor[<<t, x>>] <= Len(chain)
    <3>1. cursor[<<t, x>>] \in Int /\ cursor[<<t, x>>] <= Len(chain)
      BY <1>0 DEF BaseInv, StoredInv, StoredTypes
    <3> QED
      BY <1>2, <3>1
  <2>2. ASSUME NEW t \in Token, NEW x \in Venue, NEW b \in 1..Len(chain'),
               NEW e \in chain'[b], e.token = t, b <= cursor[<<t, x>>]
        PROVE  Shown(table, lockRows, b, e)' /\ InSession(b, e)'
    <3>1. cursor[<<t, x>>] \in Int
      BY <1>0 DEF StoredTypes
    <3>2. b \in 1..Len(chain) /\ e \in chain[b]
      BY <1>2, <2>1, <2>2, <3>1 DEF Outside
    <3>3. Shown(table, lockRows, b, e) /\ InSession(b, e)
      BY <2>2, <3>2 DEF BaseInv, StoredInv
    <3>4. ASSUME NEW tab, NEW rows, Shown(tab, rows, b, e), tab = table', rows = lockRows'
          PROVE  Shown(table, lockRows, b, e)'
      BY <3>4, StaysShown
    <3> QED
      BY <1>1, <1>4, <3>3, <3>4
  <2> QED
    BY <1>1, <2>1, <2>2 DEF StoredInv
<1>6. CallInv'
  <2>1. ASSUME NEW b \in 1..Len(chain'), NEW e \in chain'[b], e.token \in targets, b <= done
        PROVE  InSession(b, e)'
    <3>1. pc # "idle" /\ done <= blockTo /\ blockTo <= latest /\ latest <= Len(chain)
      BY <2>1 DEF BaseInv, CallInv
    <3>2. done \in Int /\ blockTo \in Nat /\ latest \in Nat
      BY <1>0 DEF CallTypes
    <3>3. b \in 1..Len(chain) /\ e \in chain[b]
      BY <1>2, <2>1, <3>1, <3>2 DEF Outside
    <3> QED
      BY <1>4, <2>1, <3>3 DEF BaseInv, CallInv
  <2>2. /\ pc # "idle" => latest <= Len(chain) /\ blockTo <= latest /\ done <= blockTo
        /\ pc = "idle" => targets = {} /\ done = -1
        /\ accounts \subseteq targets \X Account
        /\ pc = "set_block_number" => done = latest
        /\ \A t \in targets : /\ exchangeCache[t] \in Venue
                              /\ start[t] = cursor[<<t, exchangeCache[t]>>] + 1
        /\ moves = 0 => \A t \in Token : exchangeCache[t] \in {"absent", tradable[t]}
    BY DEF BaseInv, CallInv
  <2>3. latest <= Len(chain) => latest <= Len(chain')
    BY <1>0, <1>2 DEF CallTypes
  <2> QED
    BY <1>1, <2>1, <2>2, <2>3 DEF CallInv
<1> QED
  BY <1>5, <1>6 DEF BaseInv

\* A block is added and imported by the one node there is.
LEMMA MineGrows ==
  ASSUME OneNode, ChainTypeOK, Mine
  PROVE  /\ ChainTypeOK'
         /\ Len(chain') = Len(chain) + 1 /\ chain' # chain
         /\ \A b \in 1..Len(chain) : chain'[b] = chain[b]
         /\ \A n \in Node : head'[n] = Len(chain')
<1>1. PICK block \in Contents, S \in (SUBSET Node) \ {{}} :
         /\ chain' = Append(chain, block)
         /\ head' = [n \in Node |-> IF n \in S THEN Len(chain) + 1 ELSE head[n]]
  BY DEF Mine
<1>2. /\ block \in SUBSET Event /\ chain \in Seq(SUBSET Event) /\ Len(chain) < MaxBlock
      /\ Len(chain) \in Nat
  BY DEF Mine, ChainTypeOK
<1>3. /\ chain' \in Seq(SUBSET Event) /\ Len(chain') = Len(chain) + 1
      /\ \A b \in 1..Len(chain) : chain'[b] = chain[b]
  BY <1>1, <1>2
<1>4. \A n \in Node : n \in S
  BY DEF OneNode
<1>5. head' = [n \in Node |-> Len(chain) + 1]
  BY <1>1, <1>4
<1>6. listed' \subseteq Token
  BY DEF Mine, ChainTypeOK
<1>7. ChainTypeOK'
  BY <1>2, <1>3, <1>5, <1>6 DEF ChainTypeOK
<1> QED
  BY <1>2, <1>3, <1>5, <1>7

\* Neither the chain nor the API takes from what was read.
LEMMA EnvironmentStep ==
  ASSUME OneNode, BaseInv, Environment \/ UNCHANGED vars
  PROVE  BaseInv' /\ pc' = pc /\ Adds({}) /\ (Batches => Batches')
<1>0. ChainTypeOK /\ StoredTypes /\ CallTypes
  BY TypesInParts DEF BaseInv
<1>1. CASE SetTradableExchange
  <2>1. /\ UNCHANGED <<chain, head, listed, tableVars, sess, listVars, done, blockTo, accounts,
                        pc, faultVars>>
        /\ moves < MaxMoves /\ moves' = moves + 1
        /\ tradable' \in [Token -> Venue]
    BY <1>0, <1>1 DEF SetTradableExchange, chainVars, StoredTypes
  <2>2. moves' # 0 /\ moves' \in 0..MaxMoves
    BY <1>0, <2>1, PositionAssumption DEF StoredTypes
  <2>3. Later /\ Outside
    BY <1>0, <2>1, <2>2 DEF Later, Outside, faultVars, ChainTypeOK
  <2>4. TypeOK'
    <3>1. ChainTypeOK' /\ StoredTypes'
      BY <1>0, <2>1, <2>2 DEF ChainTypeOK, StoredTypes, tableVars
    <3>2. CallTypes'
      BY <1>0, <2>1 DEF CallTypes, listVars, faultVars
    <3> QED
      BY <3>1, <3>2, NextTypesInParts
  <2>5. ChainInv'
    BY <2>1, <2>2 DEF BaseInv, ChainInv, Traded
  <2> QED
    BY <2>1, <2>2, <2>3, <2>4, <2>5, OutsideKeepsBase, OutsideKeepsChunk DEF TypeOK
<1>2. ASSUME ChainTypeOK', Len(chain) <= Len(chain'),
             \A b \in 1..Len(chain) : chain'[b] = chain[b],
             \A n \in Node : head'[n] = Len(chain'),
             \A b \in 1..Len(chain') : b > Len(chain) => Traded(chain'[b]),
             UNCHANGED <<marketVars, tableVars, sess, listVars, done, blockTo, accounts, pc,
                         faultVars>>
      PROVE  BaseInv' /\ pc' = pc /\ Adds({}) /\ (Batches => Batches')
  <2>1. Later /\ Outside
    BY <1>2 DEF Later, Outside, faultVars, marketVars
  <2>2. TypeOK'
    <3>1. StoredTypes'
      BY <1>0, <1>2 DEF StoredTypes, tableVars, marketVars
    <3>2. CallTypes'
      BY <1>0, <1>2 DEF CallTypes, listVars, faultVars
    <3> QED
      BY <1>2, <3>1, <3>2, NextTypesInParts
  <2>3. ChainInv'
    <3>1. ASSUME NEW b \in 1..Len(chain')
          PROVE  Traded(chain'[b])
      <4>1. CASE b > Len(chain)
        BY <1>2, <4>1
      <4>2. CASE ~(b > Len(chain))
        <5>1. b \in 1..Len(chain)
          BY <1>0, <1>2, <4>2 DEF ChainTypeOK
        <5> QED
          BY <1>2, <5>1 DEF BaseInv, ChainInv
      <4> QED
        BY <4>1, <4>2
    <3>2. UNCHANGED <<moves, tradable>>
      BY <1>2 DEF marketVars
    <3>3. \A b \in 1..Len(chain') : Traded(chain[b])'
      BY <3>1, <3>2 DEF Traded
    <3> QED
      BY <1>2, <3>3 DEF ChainInv
  <2>4. UNCHANGED <<moves, tradable>>
    BY <1>2 DEF marketVars
  <2> QED
    BY <1>2, <2>1, <2>2, <2>3, <2>4, OutsideKeepsBase, OutsideKeepsChunk
<1>3. CASE UNCHANGED <<marketVars, tableVars, sess, listVars, done, blockTo, accounts, pc,
                       faultVars>>
           /\ \/ ChainNext /\ (chain' # chain => Traded(chain'[Len(chain')]))
              \/ UNCHANGED chainVars
  <2>1. CASE Mine
    <3>1. /\ ChainTypeOK'
          /\ Len(chain') = Len(chain) + 1 /\ chain' # chain
          /\ \A b \in 1..Len(chain) : chain'[b] = chain[b]
          /\ \A n \in Node : head'[n] = Len(chain')
      BY <1>0, <2>1, MineGrows
    <3>2. Len(chain) \in Nat
      BY <1>0 DEF ChainTypeOK
    <3>3. Traded(chain'[Len(chain')])
      BY <1>3, <3>1 DEF chainVars
    <3>4. \A b \in 1..Len(chain') : b > Len(chain) => Traded(chain'[b])
      BY <3>1, <3>2, <3>3
    <3> QED
      BY <1>2, <1>3, <3>1, <3>2, <3>4
  <2>2. CASE UNCHANGED chain /\ ChainTypeOK' /\ \A n \in Node : head'[n] = Len(chain)
    <3>1. Len(chain) \in Nat
      BY <1>0 DEF ChainTypeOK
    <3> QED
      BY <1>2, <1>3, <2>2, <3>1
  <2>3. ASSUME CatchUp PROVE FALSE
    BY <1>0, <2>3 DEF CatchUp, BaseInv, ChainInv, ChainTypeOK
  <2>4. CASE UNCHANGED chainVars \/ RegisterAdminToken \/ DeleteToken
    <3>1. UNCHANGED <<chain, head>> /\ listed' \subseteq Token
      BY <1>0, <2>4 DEF chainVars, RegisterAdminToken, DeleteToken, ChainTypeOK
    <3>2. ChainTypeOK' /\ \A n \in Node : head'[n] = Len(chain)
      BY <1>0, <3>1 DEF ChainTypeOK, BaseInv, ChainInv
    <3> QED
      BY <2>2, <3>1, <3>2
  <2> QED
    BY <1>3, <2>1, <2>3, <2>4 DEF ChainNext
<1> QED
  BY <1>1, <1>3 DEF Environment, vars

------------------------------------------------------------------------------
(* The values each kind of event changes, as far as the passes look at them. *)

\* The kinds that no other case of Changed is about.
LEMMA KindsApart ==
  ASSUME NEW k
  PROVE  /\ k \in {"SettlementOK", "HolderChanged", "EscrowFinished"} =>
               k \in OrderKinds \union EscrowKinds \union DeliveryKinds
         /\ k \in OrderKinds \union EscrowKinds \union DeliveryKinds =>
               k \notin {"Transfer", "Issue", "Redeem", "ApplyForTransfer", "CancelTransfer",
                        "ApproveTransfer", "Consume"} \union LockKinds
BY DEF OrderKinds, EscrowKinds, DeliveryKinds, LockKinds

\* A lock changes the balance and the locked amount of its account.
LEMMA LockChanges ==
  ASSUME NEW e, e.kind \in {"Lock", "ForceLock"}, NEW a, NEW c, <<a, c>> \in Changed(e)
  PROVE  a \in {e.from} /\ c \in {"own", "locked"}
<1>1. e.kind \notin OrderKinds \union EscrowKinds \union DeliveryKinds
  BY KindsApart DEF LockKinds
<1>2. Changed(e) = {<<e.from, "own">>, <<e.from, "locked">>}
  BY <1>1, Zenon DEF Changed
<1>3. <<a, c>> = <<e.from, "own">> \/ <<a, c>> = <<e.from, "locked">>
  BY <1>2
<1> QED
  BY <1>3

\* An unlock changes the locked amount of one account, the balance of the other.
LEMMA UnlockChanges ==
  ASSUME NEW e, e.kind \in {"Unlock", "ForceUnlock"}, NEW a, NEW c, <<a, c>> \in Changed(e)
  PROVE  (c = "locked" /\ a \in {e.from}) \/ (c = "own" /\ a \in {e.to})
<1>1. e.kind \notin OrderKinds \union EscrowKinds \union DeliveryKinds
  BY KindsApart DEF LockKinds
<1>2. Changed(e) = {<<e.from, "locked">>, <<e.to, "own">>}
  BY <1>1, Zenon DEF Changed
<1>3. <<a, c>> = <<e.from, "locked">> \/ <<a, c>> = <<e.to, "own">>
  BY <1>2
<1> QED
  BY <1>3

\* A locked account that is changed moves the locked amount.
LEMMA ForceChangeChanges ==
  ASSUME NEW e, e.kind = "ForceChangeLockedAccount", NEW a, NEW c, <<a, c>> \in Changed(e)
  PROVE  a \in {e.from, e.to} /\ c = "locked"
<1>1. e.kind \notin OrderKinds \union EscrowKinds \union DeliveryKinds
  BY KindsApart DEF LockKinds
<1>2. Changed(e) = {e.from, e.to} \X {"locked"}
  BY <1>1, Zenon DEF Changed
<1> QED
  BY <1>2

\* What is issued into a lock is not claimed.
LEMMA IssueChanges ==
  ASSUME NEW e \in Event, e.kind \in {"Issue", "Redeem"}, NEW a, NEW c, <<a, c>> \in Changed(e),
         Claimed(e, c)
  PROVE  c = "own" /\ a \in {e.to}
<1>1. e.kind \notin OrderKinds \union EscrowKinds \union DeliveryKinds
  BY KindsApart
<1>2. Changed(e) = {<<e.to, IF e.at = Zero THEN "own" ELSE "locked">>}
  BY <1>1, Zenon DEF Changed
<1>3. a = e.to /\ c = IF e.at = Zero THEN "own" ELSE "locked"
  BY <1>2
<1>4. e.at = Zero
  BY <1>3 DEF Claimed, NoIssueIntoLock
<1> QED
  BY <1>3, <1>4

\* An escrowed transfer or a consumption changes the balance of its sender.
LEMMA OwnChanges ==
  ASSUME NEW e, e.kind \in {"ApplyForTransfer", "CancelTransfer", "Consume"},
         NEW a, NEW c, <<a, c>> \in Changed(e)
  PROVE  c = "own" /\ a \in {e.from}
<1>1. e.kind \notin OrderKinds \union EscrowKinds \union DeliveryKinds
  BY KindsApart
<1>2. Changed(e) = {<<e.from, "own">>}
  BY <1>1, Zenon DEF Changed
<1> QED
  BY <1>2

\* An approved transfer changes both balances.
LEMMA ApproveChanges ==
  ASSUME NEW e, e.kind = "ApproveTransfer", NEW a, NEW c, <<a, c>> \in Changed(e)
  PROVE  c = "own" /\ a \in {e.from, e.to}
<1>1. e.kind \notin OrderKinds \union EscrowKinds \union DeliveryKinds
  BY KindsApart
<1>2. Changed(e) = {e.from, e.to} \X {"own"}
  BY <1>1, Zenon DEF Changed
<1> QED
  BY <1>2

\* Events of an exchange: both parties for three kinds, the first one for the others.
LEMMA VenueChanges ==
  ASSUME NEW e, e.kind \in VenueKinds, NEW a, NEW c, <<a, c>> \in Changed(e)
  PROVE  /\ c \in {"deposit", "commitment"}
         /\ \/ a = e.from
            \/ e.kind \in {"SettlementOK", "HolderChanged", "EscrowFinished"} /\ a = e.to
<1>1. e.kind \in OrderKinds \union EscrowKinds \union DeliveryKinds
  BY DEF VenueKinds
<1>2. e.kind \notin {"Transfer", "Issue", "Redeem", "ApplyForTransfer", "CancelTransfer",
                    "ApproveTransfer", "Consume"} \union LockKinds
  BY <1>1, KindsApart
<1>3. /\ e.kind # "Transfer" /\ e.kind \notin {"Lock", "ForceLock"}
      /\ e.kind \notin {"Unlock", "ForceUnlock"} /\ e.kind # "ForceChangeLockedAccount"
      /\ e.kind \notin {"Issue", "Redeem"} /\ e.kind # "ApproveTransfer"
      /\ e.kind \notin {"ApplyForTransfer", "CancelTransfer", "Consume"}
  BY <1>2 DEF LockKinds
<1>4. CASE e.kind \in {"SettlementOK", "HolderChanged", "EscrowFinished"}
  <2> DEFINE both == {e.from, e.to} \X {"deposit", "commitment"}
  <2>1. Changed(e) \in {both, {e.from} \X {"deposit", "commitment"}}
    BY <1>3, <1>4, ZenonT(60) DEF Changed
  <2> QED
    BY <1>4, <2>1
<1>5. CASE e.kind \notin {"SettlementOK", "HolderChanged", "EscrowFinished"}
  <2>1. Changed(e) = {e.from} \X {"deposit", "commitment"}
    BY <1>1, <1>3, <1>5, ZenonT(60) DEF Changed
  <2> QED
    BY <2>1
<1> QED
  BY <1>4, <1>5

------------------------------------------------------------------------------
(* What the invariant says of the stored tables. *)

\* The last block that is said to be synchronized is one of the stored cursors.
LEMMA SyncedToIs ==
  ASSUME BaseInv, NEW t \in Token
  PROVE  \E x \in Venue : SyncedTo(t) = cursor[<<t, x>>]
<1>0. StoredTypes /\ MaxBlock \in Nat
  BY TypesInParts DEF BaseInv
<1> DEFINE S == {cursor[<<t, x>>] : x \in Venue}
           T == {y + 1 : y \in S}
<1>1. \A x \in Venue : cursor[<<t, x>>] \in BlockNumber \union {-1}
  BY <1>0 DEF StoredTypes
<1>2. \A y \in S : y \in Int /\ y + 1 \in 0..(MaxBlock + 1)
  <2>1. ASSUME NEW y \in S PROVE y \in BlockNumber \union {-1}
    BY <1>1
  <2> QED
    BY <2>1
<1>3. S # {}
  BY DEF Venue
<1> HIDE DEF S
<1>4. T \in SUBSET (0..(MaxBlock + 1)) /\ T # {}
  <2>1. PICK y \in S : TRUE
    BY <1>3
  <2>2. y + 1 \in T
    OBVIOUS
  <2> QED
    BY <1>2, <2>2
<1>5. Max(T) \in T /\ \A y \in T : y <= Max(T)
  <2>1. MaxBlock + 1 \in Nat
    BY <1>0
  <2> HIDE DEF T
  <2> QED
    BY <1>4, <2>1, GreatestExists
<1>6. PICK m \in S : Max(T) = m + 1
  BY <1>5
<1>7. ASSUME NEW y \in S PROVE m >= y
  <2>1. y + 1 \in T
    OBVIOUS
  <2>2. y + 1 <= m + 1
    BY <1>5, <1>6, <2>1
  <2> QED
    BY <1>2, <2>2
<1>8. Max(S) \in S
  BY <1>7 DEF Max
<1>9. SyncedTo(t) = Max(S)
  BY DEF SyncedTo, S
<1> QED
  BY <1>8, <1>9 DEF S

\* A value that is claimed is not older than the block said to be synchronized.
LEMMA StoredValues ==
  ASSUME BaseInv, NEW t \in Token, NEW a \in Account, NEW c \in Column,
         c \in {"deposit", "commitment"} => moves = 0,
         c = "locked" => swallowed = 0 /\ NoIssueIntoLock
  PROVE  table[<<t, a, c>>] >= ValueOf(t, a, c, tradable[t], SyncedTo(t))
<1>0. StoredTypes /\ ChainTypeOK
  BY TypesInParts DEF BaseInv
<1>1. PICK x \in Venue : SyncedTo(t) = cursor[<<t, x>>]
  BY SyncedToIs
<1> DEFINE B == {b \in Block : /\ b <= SyncedTo(t) /\ b <= Len(chain)
                               /\ \E e \in chain[b] :
                                     /\ e.token = t
                                     /\ <<a, c>> \in Changed(e)
                                     /\ c \in {"deposit", "commitment"} => BookOf(e) = tradable[t]}
           S == {0} \union B
<1>2. ValueOf(t, a, c, tradable[t], SyncedTo(t)) = Max(S)
  BY DEF ValueOf
<1>3. S \in SUBSET (0..MaxBlock) /\ S # {} /\ MaxBlock \in Nat
  OBVIOUS
<1>4. Max(S) \in S
  BY <1>3, GreatestExists
<1>5. table[<<t, a, c>>] \in BlockNumber
  BY <1>0 DEF StoredTypes, Table
<1>6. ASSUME NEW b \in B PROVE table[<<t, a, c>>] >= b
  <2>1. PICK e \in chain[b] : /\ e.token = t
                              /\ <<a, c>> \in Changed(e)
                              /\ c \in {"deposit", "commitment"} => BookOf(e) = tradable[t]
    OBVIOUS
  <2>2. b \in 1..Len(chain) /\ b <= cursor[<<t, x>>]
    BY <1>0, <1>1 DEF ChainTypeOK
  <2>3. Shown(table, lockRows, b, e)
    BY <2>1, <2>2 DEF BaseInv, StoredInv
  <2>4. Claimed(e, c)
    BY <2>1 DEF Claimed
  <2> QED
    BY <2>1, <2>3, <2>4 DEF Shown, Covered
<1>7. \A b \in S : table[<<t, a, c>>] >= b
  BY <1>5, <1>6
<1> HIDE DEF S
<1> QED
  BY <1>2, <1>4, <1>7

\* The stored balances are up to date, the locked amounts unless an exception was
\* swallowed or a token was issued into a lock.
LEMMA StoredUpToDate ==
  ASSUME BaseInv
  PROVE  BalancesUpToDate /\ (swallowed = 0 /\ NoIssueIntoLock => LockedUpToDate)
<1>1. DOMAIN table = Token \X Account \X Column
  BY TypesInParts DEF BaseInv, StoredTypes, Table
<1> DEFINE C == {"own"} \union IF moves = 0 THEN {"deposit", "commitment"} ELSE {}
<1>2. ASSUME NEW k \in DOMAIN table, k[3] \in C
      PROVE  table[k] >= ValueOf(k[1], k[2], k[3], tradable[k[1]], SyncedTo(k[1]))
  <2>1. PICK t \in Token, a \in Account, c \in Column : k = <<t, a, c>>
    BY <1>1
  <2>2. k[1] = t /\ k[2] = a /\ k[3] = c
    BY <2>1
  <2>3. c # "locked" /\ (c \in {"deposit", "commitment"} => moves = 0)
    BY <1>2, <2>2
  <2> QED
    BY <2>1, <2>2, <2>3, StoredValues
<1>3. ASSUME NEW k \in DOMAIN table, k[3] \in {"locked"}, swallowed = 0, NoIssueIntoLock
      PROVE  table[k] >= ValueOf(k[1], k[2], k[3], tradable[k[1]], SyncedTo(k[1]))
  <2>1. PICK t \in Token, a \in Account, c \in Column : k = <<t, a, c>>
    BY <1>1
  <2>2. k[1] = t /\ k[2] = a /\ k[3] = c /\ c = "locked"
    BY <1>3, <2>1
  <2> QED
    BY <1>3, <2>1, <2>2, StoredValues
<1> QED
  BY <1>2, <1>3 DEF BalancesUpToDate, LockedUpToDate, UpToDate

\* Every lock event has its row, unless an exception was swallowed.
LEMMA StoredRows ==
  ASSUME BaseInv, swallowed = 0
  PROVE  LockHistoryComplete
<1>0. StoredTypes /\ ChainTypeOK
  BY TypesInParts DEF BaseInv
<1> SUFFICES ASSUME NEW r \in Row, r[1] <= Len(chain), r[2] \in chain[r[1]],
                    r[1] <= SyncedTo(r[2].token)
             PROVE  lockRows[r] > 0
  BY DEF LockHistoryComplete
<1>1. /\ r[1] \in 1..Len(chain) /\ r[2].kind \in LockKinds /\ r[2].token \in Token
      /\ r = <<r[1], r[2]>>
  BY <1>0 DEF Row, ChainTypeOK
<1>2. PICK x \in Venue : SyncedTo(r[2].token) = cursor[<<r[2].token, x>>]
  BY <1>1, SyncedToIs
<1>3. Shown(table, lockRows, r[1], r[2])
  BY <1>1, <1>2 DEF BaseInv, StoredInv
<1> QED
  BY <1>1, <1>3 DEF Shown

------------------------------------------------------------------------------
(* Shares and bonds. *)

\* What the events of share and bond contracts, their exchanges and escrows can be: the
\* escrow of security tokens moves the amount with HolderChanged, not with EscrowFinished.
StockKinds ==
    {"Register", "Transfer", "Issue", "Redeem", "ApplyForTransfer", "CancelTransfer",
     "ApproveTransfer"}
      \union LockKinds \union OrderKinds \union (EscrowKinds \ {"EscrowFinished"})
      \union DeliveryKinds

\* A pass adds its kinds to what the session shows.
LEMMA Advance ==
  ASSUME NEW H, NEW K, NEW G, Chunk(H), Adds(K), G \subseteq H \union K
  PROVE  Chunk(G)'
BY DEF Adds

\* The fields a pass reads.
LEMMA FieldsRead ==
  ASSUME NEW e, NEW a
  PROVE  /\ a \in {e.from} => a \in {e[f] : f \in {"from"}}
         /\ a \in {e.to} => a \in {e[f] : f \in {"to"}}
         /\ a \in {e.from, e.to} => a \in {e[f] : f \in {"from", "to"}}
OBVIOUS

\* The kinds the session shows of the chunk after each pass of a sync of shares or bonds.

StockAfterTransfer == {"Transfer"}
StockAfterLock == StockAfterTransfer \union {"Lock"}
StockAfterForceLock == StockAfterLock \union {"ForceLock"}
StockAfterUnlock == StockAfterForceLock \union {"Unlock"}
StockAfterForceUnlock == StockAfterUnlock \union {"ForceUnlock"}
StockAfterForceChange == StockAfterForceUnlock \union {"ForceChangeLockedAccount"}
StockAfterIssue == StockAfterForceChange \union {"Issue"}
StockAfterRedeem == StockAfterIssue \union {"Redeem"}
StockAfterApplyForTransfer == StockAfterRedeem \union {"ApplyForTransfer"}
StockAfterCancelTransfer == StockAfterApplyForTransfer \union {"CancelTransfer"}
StockAfterApproveTransfer == StockAfterCancelTransfer \union {"ApproveTransfer"}
StockAfterExchange == StockAfterApproveTransfer \union OrderKinds
StockAfterEscrow == StockAfterExchange \union (EscrowKinds \ {"EscrowFinished"})
StockAfterDVP == StockAfterEscrow \union DeliveryKinds

\* The invariant: the kinds of the passes before are shown.
StockInv ==
    /\ BaseInv
    /\ pc = "TransferBatch" => Batches
    /\ pc = "Lock" => Chunk(StockAfterTransfer)
    /\ pc = "ForceLock" => Chunk(StockAfterLock)
    /\ pc = "Unlock" => Chunk(StockAfterForceLock)
    /\ pc = "ForceUnlock" => Chunk(StockAfterUnlock)
    /\ pc = "ForceChangeLockedAccount" => Chunk(StockAfterForceUnlock)
    /\ pc = "Issue" => Chunk(StockAfterForceChange)
    /\ pc = "Redeem" => Chunk(StockAfterIssue)
    /\ pc = "ApplyForTransfer" => Chunk(StockAfterRedeem)
    /\ pc = "CancelTransfer" => Chunk(StockAfterApplyForTransfer)
    /\ pc = "ApproveTransfer" => Chunk(StockAfterCancelTransfer)
    /\ pc = "Exchange" => Chunk(StockAfterApproveTransfer)
    /\ pc = "Escrow" => Chunk(StockAfterExchange)
    /\ pc = "DVP" => Chunk(StockAfterEscrow)
    /\ pc = "update_cursor" => Chunk(StockAfterDVP)

StockNext ==
    \/ GetContractList("Transfer")
    \/ ReadTransfers("Lock") \/ SinkTransfers("Lock")
    \/ LockPass("Lock", {"from"}, {"from"}, "ForceLock")
    \/ LockPass("ForceLock", {"from"}, {"from"}, "Unlock")
    \/ LockPass("Unlock", {"from"}, {"to"}, "ForceUnlock")
    \/ LockPass("ForceUnlock", {"from"}, {"to"}, "ForceChangeLockedAccount")
    \/ LockPass("ForceChangeLockedAccount", {"from", "to"}, {"from", "to"}, "Issue")
    \/ TokenPass("Issue", {"to"}, "Redeem")
    \/ TokenPass("Redeem", {"to"}, "ApplyForTransfer")
    \/ TokenPass("ApplyForTransfer", {"from"}, "CancelTransfer")
    \/ TokenPass("CancelTransfer", {"from"}, "ApproveTransfer")
    \/ TokenPass("ApproveTransfer", {"from", "to"}, "Exchange")
    \/ ExchangePass("Exchange", OrderKinds, {"SettlementOK"}, "Escrow")
    \/ ExchangePass("Escrow", EscrowKinds \ {"EscrowFinished"}, {"HolderChanged"}, "DVP")
    \/ ExchangePass("DVP", DeliveryKinds, {"HolderChanged"}, "update_cursor")
    \/ UpdateCursor("Transfer") \/ SetBlockNumber \/ Rollback \/ Restart \/ Environment

\* Each step of the share and bond indexers keeps their invariant.
LEMMA StockStep ==
  ASSUME OneNode, StockInv, StockNext \/ UNCHANGED vars,
         \A e \in Event : e.kind \in StockKinds
  PROVE  StockInv'
<1>0. BaseInv
  BY DEF StockInv
<1>1. Between("ApplyForTransfer") /\ Between("ApproveTransfer") /\ Between("CancelTransfer") /\ Between("DVP")
      /\ Between("Escrow") /\ Between("Exchange") /\ Between("ForceChangeLockedAccount")
      /\ Between("ForceLock") /\ Between("ForceUnlock") /\ Between("Issue")
      /\ Between("Lock") /\ Between("Redeem") /\ Between("Transfer")
      /\ Between("Unlock") /\ Between("update_cursor")
  BY DEF Between, Steps, LockKinds
<1>2. CASE GetContractList("Transfer")
  BY <1>0, <1>1, <1>2, GetContractListStep DEF StockInv
<1>3. CASE ReadTransfers("Lock")
  <2>1. BaseInv' /\ Batches' /\ (pc' # "TransferBatch" => pc' = "Lock" /\ Chunk({"Transfer"})')
    BY <1>0, <1>1, <1>3, ReadTransfersStep
  <2> QED
    BY <2>1 DEF StockInv, StockAfterTransfer
<1>4. CASE SinkTransfers("Lock")
  <2>0. Batches
    BY <1>4 DEF StockInv, SinkTransfers
  <2>1. BaseInv' /\ Batches' /\ (pc' # "TransferBatch" => pc' = "Lock" /\ Chunk({"Transfer"})')
    BY <1>0, <1>1, <1>4, <2>0, SinkTransfersStep
  <2> QED
    BY <2>1 DEF StockInv, StockAfterTransfer
<1>5. CASE LockPass("Lock", {"from"}, {"from"}, "ForceLock")
  <2>1. pc = "Lock" /\ pc' = "ForceLock"
    BY <1>5 DEF LockPass
  <2>2. Chunk(StockAfterTransfer)
    BY <2>1 DEF StockInv
  <2>3. ASSUME NEW e \in Event, NEW a \in Account, NEW c \in Column,
               e.kind = "Lock" /\ <<a, c>> \in Changed(e)
        PROVE  \/ c = "own" /\ a \in {e[f] : f \in {"from"}}
               \/ c = "locked" /\ a \in {e[f] : f \in {"from"}}
    <3>1. a \in {e.from} /\ c \in {"own", "locked"}
      BY <2>3, LockChanges
    <3> QED
      BY <3>1, FieldsRead
  <2>4. BaseInv' /\ Adds({"Lock"})
    BY <1>0, <1>1, <1>5, <2>3, LockPassAdds DEF LockKinds
  <2>5. StockAfterLock \subseteq StockAfterTransfer \union {"Lock"}
    BY DEF StockAfterLock
  <2>6. Chunk(StockAfterLock)'
    BY <2>2, <2>4, <2>5, Advance
  <2> QED
    BY <2>1, <2>4, <2>6 DEF StockInv
<1>6. CASE LockPass("ForceLock", {"from"}, {"from"}, "Unlock")
  <2>1. pc = "ForceLock" /\ pc' = "Unlock"
    BY <1>6 DEF LockPass
  <2>2. Chunk(StockAfterLock)
    BY <2>1 DEF StockInv
  <2>3. ASSUME NEW e \in Event, NEW a \in Account, NEW c \in Column,
               e.kind = "ForceLock" /\ <<a, c>> \in Changed(e)
        PROVE  \/ c = "own" /\ a \in {e[f] : f \in {"from"}}
               \/ c = "locked" /\ a \in {e[f] : f \in {"from"}}
    <3>1. a \in {e.from} /\ c \in {"own", "locked"}
      BY <2>3, LockChanges
    <3> QED
      BY <3>1, FieldsRead
  <2>4. BaseInv' /\ Adds({"ForceLock"})
    BY <1>0, <1>1, <1>6, <2>3, LockPassAdds DEF LockKinds
  <2>5. StockAfterForceLock \subseteq StockAfterLock \union {"ForceLock"}
    BY DEF StockAfterForceLock
  <2>6. Chunk(StockAfterForceLock)'
    BY <2>2, <2>4, <2>5, Advance
  <2> QED
    BY <2>1, <2>4, <2>6 DEF StockInv
<1>7. CASE LockPass("Unlock", {"from"}, {"to"}, "ForceUnlock")
  <2>1. pc = "Unlock" /\ pc' = "ForceUnlock"
    BY <1>7 DEF LockPass
  <2>2. Chunk(StockAfterForceLock)
    BY <2>1 DEF StockInv
  <2>3. ASSUME NEW e \in Event, NEW a \in Account, NEW c \in Column,
               e.kind = "Unlock" /\ <<a, c>> \in Changed(e)
        PROVE  \/ c = "own" /\ a \in {e[f] : f \in {"to"}}
               \/ c = "locked" /\ a \in {e[f] : f \in {"from"}}
    <3>1. (c = "locked" /\ a \in {e.from}) \/ (c = "own" /\ a \in {e.to})
      BY <2>3, UnlockChanges
    <3> QED
      BY <3>1, FieldsRead
  <2>4. BaseInv' /\ Adds({"Unlock"})
    BY <1>0, <1>1, <1>7, <2>3, LockPassAdds DEF LockKinds
  <2>5. StockAfterUnlock \subseteq StockAfterForceLock \union {"Unlock"}
    BY DEF StockAfterUnlock
  <2>6. Chunk(StockAfterUnlock)'
    BY <2>2, <2>4, <2>5, Advance
  <2> QED
    BY <2>1, <2>4, <2>6 DEF StockInv
<1>8. CASE LockPass("ForceUnlock", {"from"}, {"to"}, "ForceChangeLockedAccount")
  <2>1. pc = "ForceUnlock" /\ pc' = "ForceChangeLockedAccount"
    BY <1>8 DEF LockPass
  <2>2. Chunk(StockAfterUnlock)
    BY <2>1 DEF StockInv
  <2>3. ASSUME NEW e \in Event, NEW a \in Account, NEW c \in Column,
               e.kind = "ForceUnlock" /\ <<a, c>> \in Changed(e)
        PROVE  \/ c = "own" /\ a \in {e[f] : f \in {"to"}}
               \/ c = "locked" /\ a \in {e[f] : f \in {"from"}}
    <3>1. (c = "locked" /\ a \in {e.from}) \/ (c = "own" /\ a \in {e.to})
      BY <2>3, UnlockChanges
    <3> QED
      BY <3>1, FieldsRead
  <2>4. BaseInv' /\ Adds({"ForceUnlock"})
    BY <1>0, <1>1, <1>8, <2>3, LockPassAdds DEF LockKinds
  <2>5. StockAfterForceUnlock \subseteq StockAfterUnlock \union {"ForceUnlock"}
    BY DEF StockAfterForceUnlock
  <2>6. Chunk(StockAfterForceUnlock)'
    BY <2>2, <2>4, <2>5, Advance
  <2> QED
    BY <2>1, <2>4, <2>6 DEF StockInv
<1>9. CASE LockPass("ForceChangeLockedAccount", {"from", "to"}, {"from", "to"}, "Issue")
  <2>1. pc = "ForceChangeLockedAccount" /\ pc' = "Issue"
    BY <1>9 DEF LockPass
  <2>2. Chunk(StockAfterForceUnlock)
    BY <2>1 DEF StockInv
  <2>3. ASSUME NEW e \in Event, NEW a \in Account, NEW c \in Column,
               e.kind = "ForceChangeLockedAccount" /\ <<a, c>> \in Changed(e)
        PROVE  \/ c = "own" /\ a \in {e[f] : f \in {"from", "to"}}
               \/ c = "locked" /\ a \in {e[f] : f \in {"from", "to"}}
    <3>1. a \in {e.from, e.to} /\ c = "locked"
      BY <2>3, ForceChangeChanges
    <3> QED
      BY <3>1, FieldsRead
  <2>4. BaseInv' /\ Adds({"ForceChangeLockedAccount"})
    BY <1>0, <1>1, <1>9, <2>3, LockPassAdds DEF LockKinds
  <2>5. StockAfterForceChange \subseteq StockAfterForceUnlock \union {"ForceChangeLockedAccount"}
    BY DEF StockAfterForceChange
  <2>6. Chunk(StockAfterForceChange)'
    BY <2>2, <2>4, <2>5, Advance
  <2> QED
    BY <2>1, <2>4, <2>6 DEF StockInv
<1>10. CASE TokenPass("Issue", {"to"}, "Redeem")
  <2>1. pc = "Issue" /\ pc' = "Redeem"
    BY <1>10 DEF TokenPass
  <2>2. Chunk(StockAfterForceChange)
    BY <2>1 DEF StockInv
  <2>3. ASSUME NEW e \in Event, NEW a \in Account, NEW c \in Column,
               e.kind = "Issue" /\ <<a, c>> \in Changed(e) /\ Claimed(e, c)
        PROVE  c = "own" /\ a \in {e[f] : f \in {"to"}}
    <3>1. c = "own" /\ a \in {e.to}
      BY <2>3, IssueChanges
    <3> QED
      BY <3>1, FieldsRead
  <2>4. BaseInv' /\ Adds({"Issue"})
    BY <1>0, <1>1, <1>10, <2>3, TokenPassAdds DEF LockKinds
  <2>5. StockAfterIssue \subseteq StockAfterForceChange \union {"Issue"}
    BY DEF StockAfterIssue
  <2>6. Chunk(StockAfterIssue)'
    BY <2>2, <2>4, <2>5, Advance
  <2> QED
    BY <2>1, <2>4, <2>6 DEF StockInv
<1>11. CASE TokenPass("Redeem", {"to"}, "ApplyForTransfer")
  <2>1. pc = "Redeem" /\ pc' = "ApplyForTransfer"
    BY <1>11 DEF TokenPass
  <2>2. Chunk(StockAfterIssue)
    BY <2>1 DEF StockInv
  <2>3. ASSUME NEW e \in Event, NEW a \in Account, NEW c \in Column,
               e.kind = "Redeem" /\ <<a, c>> \in Changed(e) /\ Claimed(e, c)
        PROVE  c = "own" /\ a \in {e[f] : f \in {"to"}}
    <3>1. c = "own" /\ a \in {e.to}
      BY <2>3, IssueChanges
    <3> QED
      BY <3>1, FieldsRead
  <2>4. BaseInv' /\ Adds({"Redeem"})
    BY <1>0, <1>1, <1>11, <2>3, TokenPassAdds DEF LockKinds
  <2>5. StockAfterRedeem \subseteq StockAfterIssue \union {"Redeem"}
    BY DEF StockAfterRedeem
  <2>6. Chunk(StockAfterRedeem)'
    BY <2>2, <2>4, <2>5, Advance
  <2> QED
    BY <2>1, <2>4, <2>6 DEF StockInv
<1>12. CASE TokenPass("ApplyForTransfer", {"from"}, "CancelTransfer")
  <2>1. pc = "ApplyForTransfer" /\ pc' = "CancelTransfer"
    BY <1>12 DEF TokenPass
  <2>2. Chunk(StockAfterRedeem)
    BY <2>1 DEF StockInv
  <2>3. ASSUME NEW e \in Event, NEW a \in Account, NEW c \in Column,
               e.kind = "ApplyForTransfer" /\ <<a, c>> \in Changed(e) /\ Claimed(e, c)
        PROVE  c = "own" /\ a \in {e[f] : f \in {"from"}}
    <3>1. c = "own" /\ a \in {e.from}
      BY <2>3, OwnChanges
    <3> QED
      BY <3>1, FieldsRead
  <2>4. BaseInv' /\ Adds({"ApplyForTransfer"})
    BY <1>0, <1>1, <1>12, <2>3, TokenPassAdds DEF LockKinds
  <2>5. StockAfterApplyForTransfer \subseteq StockAfterRedeem \union {"ApplyForTransfer"}
    BY DEF StockAfterApplyForTransfer
  <2>6. Chunk(StockAfterApplyForTransfer)'
    BY <2>2, <2>4, <2>5, Advance
  <2> QED
    BY <2>1, <2>4, <2>6 DEF StockInv
<1>13. CASE TokenPass("CancelTransfer", {"from"}, "ApproveTransfer")
  <2>1. pc = "CancelTransfer" /\ pc' = "ApproveTransfer"
    BY <1>13 DEF TokenPass
  <2>2. Chunk(StockAfterApplyForTransfer)
    BY <2>1 DEF StockInv
  <2>3. ASSUME NEW e \in Event, NEW a \in Account, NEW c \in Column,
               e.kind = "CancelTransfer" /\ <<a, c>> \in Changed(e) /\ Claimed(e, c)
        PROVE  c = "own" /\ a \in {e[f] : f \in {"from"}}
    <3>1. c = "own" /\ a \in {e.from}
      BY <2>3, OwnChanges
    <3> QED
      BY <3>1, FieldsRead
  <2>4. BaseInv' /\ Adds({"CancelTransfer"})
    BY <1>0, <1>1, <1>13, <2>3, TokenPassAdds DEF LockKinds
  <2>5. StockAfterCancelTransfer \subseteq StockAfterApplyForTransfer \union {"CancelTransfer"}
    BY DEF StockAfterCancelTransfer
  <2>6. Chunk(StockAfterCancelTransfer)'
    BY <2>2, <2>4, <2>5, Advance
  <2> QED
    BY <2>1, <2>4, <2>6 DEF StockInv
<1>14. CASE TokenPass("ApproveTransfer", {"from", "to"}, "Exchange")
  <2>1. pc = "ApproveTransfer" /\ pc' = "Exchange"
    BY <1>14 DEF TokenPass
  <2>2. Chunk(StockAfterCancelTransfer)
    BY <2>1 DEF StockInv
  <2>3. ASSUME NEW e \in Event, NEW a \in Account, NEW c \in Column,
               e.kind = "ApproveTransfer" /\ <<a, c>> \in Changed(e) /\ Claimed(e, c)
        PROVE  c = "own" /\ a \in {e[f] : f \in {"from", "to"}}
    <3>1. c = "own" /\ a \in {e.from, e.to}
      BY <2>3, ApproveChanges
    <3> QED
      BY <3>1, FieldsRead
  <2>4. BaseInv' /\ Adds({"ApproveTransfer"})
    BY <1>0, <1>1, <1>14, <2>3, TokenPassAdds DEF LockKinds
  <2>5. StockAfterApproveTransfer \subseteq StockAfterCancelTransfer \union {"ApproveTransfer"}
    BY DEF StockAfterApproveTransfer
  <2>6. Chunk(StockAfterApproveTransfer)'
    BY <2>2, <2>4, <2>5, Advance
  <2> QED
    BY <2>1, <2>4, <2>6 DEF StockInv
<1>15. CASE ExchangePass("Exchange", OrderKinds, {"SettlementOK"}, "Escrow")
  <2>1. pc = "Exchange" /\ pc' = "Escrow"
    BY <1>15 DEF ExchangePass
  <2>2. Chunk(StockAfterApproveTransfer)
    BY <2>1 DEF StockInv
  <2> DEFINE kinds == OrderKinds
  <2>0. /\ \A k \in kinds : k \in VenueKinds
        /\ \A k \in kinds : k \in {"SettlementOK", "HolderChanged", "EscrowFinished"} =>
                             k \in {"SettlementOK"}
    BY DEF VenueKinds, OrderKinds, EscrowKinds, DeliveryKinds
  <2> HIDE DEF kinds
  <2>3. ASSUME NEW e \in Event, NEW a \in Account, NEW c \in Column,
               e.kind \in kinds /\ <<a, c>> \in Changed(e)
        PROVE  /\ c \in {"deposit", "commitment"}
               /\ a = e.from \/ (e.kind \in {"SettlementOK"} /\ a = e.to)
    BY <2>0, <2>3, VenueChanges
  <2>4. BaseInv' /\ Adds(kinds)
    <3>1. ExchangePass("Exchange", kinds, {"SettlementOK"}, "Escrow")
      BY <1>15 DEF kinds
    <3> QED
      BY <1>0, <1>1, <2>0, <2>3, <3>1, ExchangePassAdds
  <2>5. StockAfterExchange \subseteq StockAfterApproveTransfer \union kinds
    BY DEF StockAfterExchange, kinds
  <2>6. Chunk(StockAfterExchange)'
    BY <2>2, <2>4, <2>5, Advance
  <2> QED
    BY <2>1, <2>4, <2>6 DEF StockInv
<1>16. CASE ExchangePass("Escrow", EscrowKinds \ {"EscrowFinished"}, {"HolderChanged"}, "DVP")
  <2>1. pc = "Escrow" /\ pc' = "DVP"
    BY <1>16 DEF ExchangePass
  <2>2. Chunk(StockAfterExchange)
    BY <2>1 DEF StockInv
  <2> DEFINE kinds == (EscrowKinds \ {"EscrowFinished"})
  <2>0. /\ \A k \in kinds : k \in VenueKinds
        /\ \A k \in kinds : k \in {"SettlementOK", "HolderChanged", "EscrowFinished"} =>
                             k \in {"HolderChanged"}
    BY DEF VenueKinds, OrderKinds, EscrowKinds, DeliveryKinds
  <2> HIDE DEF kinds
  <2>3. ASSUME NEW e \in Event, NEW a \in Account, NEW c \in Column,
               e.kind \in kinds /\ <<a, c>> \in Changed(e)
        PROVE  /\ c \in {"deposit", "commitment"}
               /\ a = e.from \/ (e.kind \in {"HolderChanged"} /\ a = e.to)
    BY <2>0, <2>3, VenueChanges
  <2>4. BaseInv' /\ Adds(kinds)
    <3>1. ExchangePass("Escrow", kinds, {"HolderChanged"}, "DVP")
      BY <1>16 DEF kinds
    <3> QED
      BY <1>0, <1>1, <2>0, <2>3, <3>1, ExchangePassAdds
  <2>5. StockAfterEscrow \subseteq StockAfterExchange \union kinds
    BY DEF StockAfterEscrow, kinds
  <2>6. Chunk(StockAfterEscrow)'
    BY <2>2, <2>4, <2>5, Advance
  <2> QED
    BY <2>1, <2>4, <2>6 DEF StockInv
<1>17. CASE ExchangePass("DVP", DeliveryKinds, {"HolderChanged"}, "update_cursor")
  <2>1. pc = "DVP" /\ pc' = "update_cursor"
    BY <1>17 DEF ExchangePass
  <2>2. Chunk(StockAfterEscrow)
    BY <2>1 DEF StockInv
  <2> DEFINE kinds == DeliveryKinds
  <2>0. /\ \A k \in kinds : k \in VenueKinds
        /\ \A k \in kinds : k \in {"SettlementOK", "HolderChanged", "EscrowFinished"} =>
                             k \in {"HolderChanged"}
    BY DEF VenueKinds, OrderKinds, EscrowKinds, DeliveryKinds
  <2> HIDE DEF kinds
  <2>3. ASSUME NEW e \in Event, NEW a \in Account, NEW c \in Column,
               e.kind \in kinds /\ <<a, c>> \in Changed(e)
        PROVE  /\ c \in {"deposit", "commitment"}
               /\ a = e.from \/ (e.kind \in {"HolderChanged"} /\ a = e.to)
    BY <2>0, <2>3, VenueChanges
  <2>4. BaseInv' /\ Adds(kinds)
    <3>1. ExchangePass("DVP", kinds, {"HolderChanged"}, "update_cursor")
      BY <1>17 DEF kinds
    <3> QED
      BY <1>0, <1>1, <2>0, <2>3, <3>1, ExchangePassAdds
  <2>5. StockAfterDVP \subseteq StockAfterEscrow \union kinds
    BY DEF StockAfterDVP, kinds
  <2>6. Chunk(StockAfterDVP)'
    BY <2>2, <2>4, <2>5, Advance
  <2> QED
    BY <2>1, <2>4, <2>6 DEF StockInv
<1>18. CASE UpdateCursor("Transfer")
  <2>1. Chunk(StockAfterDVP)
    BY <1>18 DEF StockInv, UpdateCursor
  <2>2. \A e \in Event : e.kind \in StockAfterDVP \union {"Register"}
    <3>1. StockKinds \subseteq StockAfterDVP \union {"Register"}
      BY DEF StockKinds, LockKinds, StockAfterTransfer, StockAfterLock, StockAfterForceLock,
         StockAfterUnlock, StockAfterForceUnlock, StockAfterForceChange, StockAfterIssue,
         StockAfterRedeem, StockAfterApplyForTransfer, StockAfterCancelTransfer,
         StockAfterApproveTransfer, StockAfterExchange, StockAfterEscrow, StockAfterDVP
    <3> QED
      BY <3>1
  <2>3. BaseInv' /\ pc' \in {"Transfer", "set_block_number"}
    BY <1>0, <1>1, <1>18, <2>1, <2>2, UpdateCursorStep
  <2> QED
    BY <2>3 DEF StockInv
<1>19. CASE SetBlockNumber
  BY <1>0, <1>19, SetBlockNumberStep DEF StockInv
<1>20. CASE Rollback \/ Restart
  BY <1>0, <1>20, FailureStep DEF StockInv
<1>21. CASE Environment \/ UNCHANGED vars
  <2>1. BaseInv' /\ pc' = pc /\ Adds({}) /\ (Batches => Batches')
    BY <1>0, <1>21, EnvironmentStep
  <2>2. \A H : Chunk(H) => Chunk(H)'
    BY <2>1, Advance
  <2> QED
    BY <2>1, <2>2 DEF StockInv
<1> QED
  BY <1>2, <1>3, <1>4, <1>5, <1>6, <1>7, <1>8, <1>9, <1>10, <1>11, <1>12, <1>13, <1>14,
     <1>15, <1>16, <1>17, <1>18, <1>19, <1>20, <1>21 DEF StockNext

\* The indexers of shares and of bonds have the same passes.
LEMMA ShareIsStock ==
  ASSUME [ShareNext]_vars
  PROVE  StockNext \/ UNCHANGED vars
BY DEF ShareNext, SyncShareNewLogs, GetShareTokens, SyncShareTransfer, SyncShareLock,
       SyncShareForceLock, SyncShareUnlock, SyncShareForceUnlock,
       SyncShareForceChangeLockedAccount, SyncShareIssue, SyncShareRedeem,
       SyncShareApplyForTransfer, SyncShareCancelTransfer, SyncShareApproveTransfer,
       SyncShareExchange, SyncShareEscrow, SyncShareDvp, NextShareChunk,
       StoreShareBlockNumber, StockNext
\* The bond indexer is an indexer with locks.
LEMMA BondIsStock ==
  ASSUME [BondNext]_vars
  PROVE  StockNext \/ UNCHANGED vars
BY DEF BondNext, SyncBondNewLogs, GetBondTokens, SyncBondTransfer, SyncBondLock,
       SyncBondForceLock, SyncBondUnlock, SyncBondForceUnlock,
       SyncBondForceChangeLockedAccount, SyncBondIssue, SyncBondRedeem,
       SyncBondApplyForTransfer, SyncBondCancelTransfer, SyncBondApproveTransfer,
       SyncBondExchange, SyncBondEscrow, SyncBondDvp, NextBondChunk,
       StoreBondBlockNumber, StockNext

\* The invariant of shares and bonds holds in the beginning.
LEMMA StockInit ==
  ASSUME OneNode, Init
  PROVE  StockInv
BY InitBase DEF StockInv

\* What the invariant says of the tables, for any number of swallowed exceptions and for
\* none.
LEMMA StoredRight ==
  ASSUME BaseInv
  PROVE  /\ BalancesUpToDate
         /\ MaxSwallowed = 0 => LockHistoryComplete
         /\ MaxSwallowed = 0 /\ NoIssueIntoLock => ValuesUpToDate
<1>1. MaxSwallowed = 0 => swallowed = 0
  BY TypesInParts DEF BaseInv, CallTypes
<1> QED
  BY <1>1, StoredUpToDate, StoredRows DEF BaseInv, ValuesUpToDate

\* Balances and pending transfers of shares, and what they have on their exchange while no
\* token moves to another, show every event up to the stored block number: after any
\* number of chunks, batches, swallowed exceptions, failures and restarts.
THEOREM ShareBalances ==
  ASSUME OneNode, \A e \in Event : e.kind \in StockKinds
  PROVE  ShareSpec => []BalancesUpToDate
<1>1. Init => StockInv
  BY StockInit
<1>2. StockInv /\ [ShareNext]_vars => StockInv'
  BY StockStep, ShareIsStock
<1>3. StockInv => BalancesUpToDate
  BY StoredRight DEF StockInv
<1> QED
  BY <1>1, <1>2, <1>3, PTL DEF ShareSpec

\* So do the locked amounts, if the part that reads them (__sync_lock and the like) meets
\* no exception and no token is issued into a lock.
THEOREM ShareValues ==
  ASSUME OneNode, \A e \in Event : e.kind \in StockKinds, MaxSwallowed = 0, NoIssueIntoLock
  PROVE  ShareSpec => []ValuesUpToDate
<1>1. Init => StockInv
  BY StockInit
<1>2. StockInv /\ [ShareNext]_vars => StockInv'
  BY StockStep, ShareIsStock
<1>3. StockInv => ValuesUpToDate
  BY StoredRight DEF StockInv
<1> QED
  BY <1>1, <1>2, <1>3, PTL DEF ShareSpec

\* Every lock event up to the stored block number has its row, if that part meets no
\* exception.
THEOREM ShareLockHistory ==
  ASSUME OneNode, \A e \in Event : e.kind \in StockKinds, MaxSwallowed = 0
  PROVE  ShareSpec => []LockHistoryComplete
<1>1. Init => StockInv
  BY StockInit
<1>2. StockInv /\ [ShareNext]_vars => StockInv'
  BY StockStep, ShareIsStock
<1>3. StockInv => LockHistoryComplete
  BY StoredRight DEF StockInv
<1> QED
  BY <1>1, <1>2, <1>3, PTL DEF ShareSpec

\* Balances and pending transfers of bonds, and what they have on their exchange while no
\* token moves to another, show every event up to the stored block number: after any
\* number of chunks, batches, swallowed exceptions, failures and restarts.
THEOREM BondBalances ==
  ASSUME OneNode, \A e \in Event : e.kind \in StockKinds
  PROVE  BondSpec => []BalancesUpToDate
<1>1. Init => StockInv
  BY StockInit
<1>2. StockInv /\ [BondNext]_vars => StockInv'
  BY StockStep, BondIsStock
<1>3. StockInv => BalancesUpToDate
  BY StoredRight DEF StockInv
<1> QED
  BY <1>1, <1>2, <1>3, PTL DEF BondSpec

\* So do the locked amounts, if the part that reads them (__sync_lock and the like) meets
\* no exception and no token is issued into a lock.
THEOREM BondValues ==
  ASSUME OneNode, \A e \in Event : e.kind \in StockKinds, MaxSwallowed = 0, NoIssueIntoLock
  PROVE  BondSpec => []ValuesUpToDate
<1>1. Init => StockInv
  BY StockInit
<1>2. StockInv /\ [BondNext]_vars => StockInv'
  BY StockStep, BondIsStock
<1>3. StockInv => ValuesUpToDate
  BY StoredRight DEF StockInv
<1> QED
  BY <1>1, <1>2, <1>3, PTL DEF BondSpec

\* Every lock event up to the stored block number has its row, if that part meets no
\* exception.
THEOREM BondLockHistory ==
  ASSUME OneNode, \A e \in Event : e.kind \in StockKinds, MaxSwallowed = 0
  PROVE  BondSpec => []LockHistoryComplete
<1>1. Init => StockInv
  BY StockInit
<1>2. StockInv /\ [BondNext]_vars => StockInv'
  BY StockStep, BondIsStock
<1>3. StockInv => LockHistoryComplete
  BY StoredRight DEF StockInv
<1> QED
  BY <1>1, <1>2, <1>3, PTL DEF BondSpec

------------------------------------------------------------------------------
(* Coupons. *)

\* What the events of coupons, their exchanges and escrows can be.
CouponKinds ==
    {"Register", "Transfer", "Consume"} \union OrderKinds
      \union (EscrowKinds \ {"HolderChanged"})

\* The kinds the session shows of the chunk after each pass of a sync of coupons.

CouponAfterTransfer == {"Transfer"}
CouponAfterConsume == CouponAfterTransfer \union {"Consume"}
CouponAfterExchange == CouponAfterConsume \union OrderKinds
CouponAfterEscrow == CouponAfterExchange \union (EscrowKinds \ {"HolderChanged"})

\* The invariant: the kinds of the passes before are shown.
CouponInv ==
    /\ BaseInv
    /\ pc = "TransferBatch" => Batches
    /\ pc = "Consume" => Chunk(CouponAfterTransfer)
    /\ pc = "Exchange" => Chunk(CouponAfterConsume)
    /\ pc = "Escrow" => Chunk(CouponAfterExchange)
    /\ pc = "update_cursor" => Chunk(CouponAfterEscrow)

\* Each step of the coupon indexer keeps its invariant.
LEMMA CouponStep ==
  ASSUME OneNode, CouponInv, CouponNext \/ UNCHANGED vars,
         \A e \in Event : e.kind \in CouponKinds
  PROVE  CouponInv'
<1>0. BaseInv
  BY DEF CouponInv
<1>1. Between("Consume") /\ Between("Escrow") /\ Between("Exchange") /\ Between("Transfer")
      /\ Between("update_cursor")
  BY DEF Between, Steps, LockKinds
<1>2. CASE GetContractList("Transfer")
  BY <1>0, <1>1, <1>2, GetContractListStep DEF CouponInv
<1>3. CASE ReadTransfers("Consume")
  <2>1. BaseInv' /\ Batches' /\ (pc' # "TransferBatch" => pc' = "Consume" /\ Chunk({"Transfer"})')
    BY <1>0, <1>1, <1>3, ReadTransfersStep
  <2> QED
    BY <2>1 DEF CouponInv, CouponAfterTransfer
<1>4. CASE SinkTransfers("Consume")
  <2>0. Batches
    BY <1>4 DEF CouponInv, SinkTransfers
  <2>1. BaseInv' /\ Batches' /\ (pc' # "TransferBatch" => pc' = "Consume" /\ Chunk({"Transfer"})')
    BY <1>0, <1>1, <1>4, <2>0, SinkTransfersStep
  <2> QED
    BY <2>1 DEF CouponInv, CouponAfterTransfer
<1>5. CASE TokenPass("Consume", {"from"}, "Exchange")
  <2>1. pc = "Consume" /\ pc' = "Exchange"
    BY <1>5 DEF TokenPass
  <2>2. Chunk(CouponAfterTransfer)
    BY <2>1 DEF CouponInv
  <2>3. ASSUME NEW e \in Event, NEW a \in Account, NEW c \in Column,
               e.kind = "Consume" /\ <<a, c>> \in Changed(e) /\ Claimed(e, c)
        PROVE  c = "own" /\ a \in {e[f] : f \in {"from"}}
    <3>1. c = "own" /\ a \in {e.from}
      BY <2>3, OwnChanges
    <3> QED
      BY <3>1, FieldsRead
  <2>4. BaseInv' /\ Adds({"Consume"})
    BY <1>0, <1>1, <1>5, <2>3, TokenPassAdds DEF LockKinds
  <2>5. CouponAfterConsume \subseteq CouponAfterTransfer \union {"Consume"}
    BY DEF CouponAfterConsume
  <2>6. Chunk(CouponAfterConsume)'
    BY <2>2, <2>4, <2>5, Advance
  <2> QED
    BY <2>1, <2>4, <2>6 DEF CouponInv
<1>6. CASE ExchangePass("Exchange", OrderKinds, {"SettlementOK"}, "Escrow")
  <2>1. pc = "Exchange" /\ pc' = "Escrow"
    BY <1>6 DEF ExchangePass
  <2>2. Chunk(CouponAfterConsume)
    BY <2>1 DEF CouponInv
  <2> DEFINE kinds == OrderKinds
  <2>0. /\ \A k \in kinds : k \in VenueKinds
        /\ \A k \in kinds : k \in {"SettlementOK", "HolderChanged", "EscrowFinished"} =>
                             k \in {"SettlementOK"}
    BY DEF VenueKinds, OrderKinds, EscrowKinds, DeliveryKinds
  <2> HIDE DEF kinds
  <2>3. ASSUME NEW e \in Event, NEW a \in Account, NEW c \in Column,
               e.kind \in kinds /\ <<a, c>> \in Changed(e)
        PROVE  /\ c \in {"deposit", "commitment"}
               /\ a = e.from \/ (e.kind \in {"SettlementOK"} /\ a = e.to)
    BY <2>0, <2>3, VenueChanges
  <2>4. BaseInv' /\ Adds(kinds)
    <3>1. ExchangePass("Exchange", kinds, {"SettlementOK"}, "Escrow")
      BY <1>6 DEF kinds
    <3> QED
      BY <1>0, <1>1, <2>0, <2>3, <3>1, ExchangePassAdds
  <2>5. CouponAfterExchange \subseteq CouponAfterConsume \union kinds
    BY DEF CouponAfterExchange, kinds
  <2>6. Chunk(CouponAfterExchange)'
    BY <2>2, <2>4, <2>5, Advance
  <2> QED
    BY <2>1, <2>4, <2>6 DEF CouponInv
<1>7. CASE ExchangePass("Escrow", EscrowKinds \ {"HolderChanged"}, {"EscrowFinished"},
                      "update_cursor")
  <2>1. pc = "Escrow" /\ pc' = "update_cursor"
    BY <1>7 DEF ExchangePass
  <2>2. Chunk(CouponAfterExchange)
    BY <2>1 DEF CouponInv
  <2> DEFINE kinds == (EscrowKinds \ {"HolderChanged"})
  <2>0. /\ \A k \in kinds : k \in VenueKinds
        /\ \A k \in kinds : k \in {"SettlementOK", "HolderChanged", "EscrowFinished"} =>
                             k \in {"EscrowFinished"}
    BY DEF VenueKinds, OrderKinds, EscrowKinds, DeliveryKinds
  <2> HIDE DEF kinds
  <2>3. ASSUME NEW e \in Event, NEW a \in Account, NEW c \in Column,
               e.kind \in kinds /\ <<a, c>> \in Changed(e)
        PROVE  /\ c \in {"deposit", "commitment"}
               /\ a = e.from \/ (e.kind \in {"EscrowFinished"} /\ a = e.to)
    BY <2>0, <2>3, VenueChanges
  <2>4. BaseInv' /\ Adds(kinds)
    <3>1. ExchangePass("Escrow", kinds, {"EscrowFinished"}, "update_cursor")
      BY <1>7 DEF kinds
    <3> QED
      BY <1>0, <1>1, <2>0, <2>3, <3>1, ExchangePassAdds
  <2>5. CouponAfterEscrow \subseteq CouponAfterExchange \union kinds
    BY DEF CouponAfterEscrow, kinds
  <2>6. Chunk(CouponAfterEscrow)'
    BY <2>2, <2>4, <2>5, Advance
  <2> QED
    BY <2>1, <2>4, <2>6 DEF CouponInv
<1>8. CASE UpdateCursor("Transfer")
  <2>1. Chunk(CouponAfterEscrow)
    BY <1>8 DEF CouponInv, UpdateCursor
  <2>2. \A e \in Event : e.kind \in CouponAfterEscrow \union {"Register"}
    <3>1. CouponKinds \subseteq CouponAfterEscrow \union {"Register"}
      BY DEF CouponKinds, LockKinds, CouponAfterTransfer, CouponAfterConsume,
         CouponAfterExchange, CouponAfterEscrow
    <3> QED
      BY <3>1
  <2>3. BaseInv' /\ pc' \in {"Transfer", "set_block_number"}
    BY <1>0, <1>1, <1>8, <2>1, <2>2, UpdateCursorStep
  <2> QED
    BY <2>3 DEF CouponInv
<1>9. CASE SetBlockNumber
  BY <1>0, <1>9, SetBlockNumberStep DEF CouponInv
<1>10. CASE Rollback \/ Restart
  BY <1>0, <1>10, FailureStep DEF CouponInv
<1>11. CASE Environment \/ UNCHANGED vars
  <2>1. BaseInv' /\ pc' = pc /\ Adds({}) /\ (Batches => Batches')
    BY <1>0, <1>11, EnvironmentStep
  <2>2. \A H : Chunk(H) => Chunk(H)'
    BY <2>1, Advance
  <2> QED
    BY <2>1, <2>2 DEF CouponInv
<1> QED
  BY <1>2, <1>3, <1>4, <1>5, <1>6, <1>7, <1>8, <1>9, <1>10, <1>11
  DEF CouponNext, SyncCouponNewLogs, GetCouponTokens, SyncCouponTransfer, SyncCouponConsume,
      SyncCouponExchange, SyncCouponEscrow, NextCouponChunk, StoreCouponBlockNumber

\* The passes of coupons and memberships swallow no exception.
NoneSwallowed == swallowed = 0

\* The coupon indexer swallows no error of a lock.
LEMMA CouponSwallows ==
  ASSUME [CouponNext]_vars
  PROVE  swallowed' = swallowed
BY DEF CouponNext, SyncCouponNewLogs, GetCouponTokens, SyncCouponTransfer, SyncCouponConsume,
       SyncCouponExchange, SyncCouponEscrow, NextCouponChunk, StoreCouponBlockNumber,
       GetContractList, ReadTransfers, SinkTransfers, TokenPass, ExchangePass,
       UpdateCursor, SetBlockNumber, Rollback, Restart, Environment, SetTradableExchange,
       faultVars, vars

\* The stored values of coupons are not older than the stored block number says: every
\* balance, the commitments and deposits while no token moves to another exchange, and
\* locked amounts, which these contracts have none of.
THEOREM CouponValues ==
  ASSUME OneNode, \A e \in Event : e.kind \in CouponKinds
  PROVE  CouponSpec => []ValuesUpToDate
<1>1. Init => CouponInv /\ NoneSwallowed
  BY InitBase DEF CouponInv, Init, NoneSwallowed
<1>2. CouponInv /\ NoneSwallowed /\ [CouponNext]_vars => CouponInv' /\ NoneSwallowed'
  BY CouponStep, CouponSwallows DEF NoneSwallowed
<1>3. NoIssueIntoLock
  BY DEF NoIssueIntoLock, CouponKinds, OrderKinds, EscrowKinds
<1>4. CouponInv /\ NoneSwallowed => ValuesUpToDate
  BY <1>3, StoredUpToDate DEF CouponInv, BaseInv, ValuesUpToDate, NoneSwallowed
<1> QED
  BY <1>1, <1>2, <1>4, PTL DEF CouponSpec

------------------------------------------------------------------------------
(* Memberships. *)

\* What the events of memberships, their exchanges and escrows can be.
MembershipKinds ==
    {"Register", "Transfer"} \union OrderKinds \union (EscrowKinds \ {"HolderChanged"})

\* The kinds the session shows of the chunk after each pass of a sync of memberships.

MembershipAfterTransfer == {"Transfer"}
MembershipAfterExchange == MembershipAfterTransfer \union OrderKinds
MembershipAfterEscrow == MembershipAfterExchange \union (EscrowKinds \ {"HolderChanged"})

\* The invariant: the kinds of the passes before are shown.
MembershipInv ==
    /\ BaseInv
    /\ pc = "TransferBatch" => Batches
    /\ pc = "Exchange" => Chunk(MembershipAfterTransfer)
    /\ pc = "Escrow" => Chunk(MembershipAfterExchange)
    /\ pc = "update_cursor" => Chunk(MembershipAfterEscrow)

\* Each step of the membership indexer keeps its invariant.
LEMMA MembershipStep ==
  ASSUME OneNode, MembershipInv, MembershipNext \/ UNCHANGED vars,
         \A e \in Event : e.kind \in MembershipKinds
  PROVE  MembershipInv'
<1>0. BaseInv
  BY DEF MembershipInv
<1>1. Between("Escrow") /\ Between("Exchange") /\ Between("Transfer") /\ Between("update_cursor")
  BY DEF Between, Steps, LockKinds
<1>2. CASE GetContractList("Transfer")
  BY <1>0, <1>1, <1>2, GetContractListStep DEF MembershipInv
<1>3. CASE ReadTransfers("Exchange")
  <2>1. BaseInv' /\ Batches' /\ (pc' # "TransferBatch" => pc' = "Exchange" /\ Chunk({"Transfer"})')
    BY <1>0, <1>1, <1>3, ReadTransfersStep
  <2> QED
    BY <2>1 DEF MembershipInv, MembershipAfterTransfer
<1>4. CASE SinkTransfers("Exchange")
  <2>0. Batches
    BY <1>4 DEF MembershipInv, SinkTransfers
  <2>1. BaseInv' /\ Batches' /\ (pc' # "TransferBatch" => pc' = "Exchange" /\ Chunk({"Transfer"})')
    BY <1>0, <1>1, <1>4, <2>0, SinkTransfersStep
  <2> QED
    BY <2>1 DEF MembershipInv, MembershipAfterTransfer
<1>5. CASE ExchangePass("Exchange", OrderKinds, {"SettlementOK"}, "Escrow")
  <2>1. pc = "Exchange" /\ pc' = "Escrow"
    BY <1>5 DEF ExchangePass
  <2>2. Chunk(MembershipAfterTransfer)
    BY <2>1 DEF MembershipInv
  <2> DEFINE kinds == OrderKinds
  <2>0. /\ \A k \in kinds : k \in VenueKinds
        /\ \A k \in kinds : k \in {"SettlementOK", "HolderChanged", "EscrowFinished"} =>
                             k \in {"SettlementOK"}
    BY DEF VenueKinds, OrderKinds, EscrowKinds, DeliveryKinds
  <2> HIDE DEF kinds
  <2>3. ASSUME NEW e \in Event, NEW a \in Account, NEW c \in Column,
               e.kind \in kinds /\ <<a, c>> \in Changed(e)
        PROVE  /\ c \in {"deposit", "commitment"}
               /\ a = e.from \/ (e.kind \in {"SettlementOK"} /\ a = e.to)
    BY <2>0, <2>3, VenueChanges
  <2>4. BaseInv' /\ Adds(kinds)
    <3>1. ExchangePass("Exchange", kinds, {"SettlementOK"}, "Escrow")
      BY <1>5 DEF kinds
    <3> QED
      BY <1>0, <1>1, <2>0, <2>3, <3>1, ExchangePassAdds
  <2>5. MembershipAfterExchange \subseteq MembershipAfterTransfer \union kinds
    BY DEF MembershipAfterExchange, kinds
  <2>6. Chunk(MembershipAfterExchange)'
    BY <2>2, <2>4, <2>5, Advance
  <2> QED
    BY <2>1, <2>4, <2>6 DEF MembershipInv
<1>6. CASE ExchangePass("Escrow", EscrowKinds \ {"HolderChanged"}, {"EscrowFinished"},
                      "update_cursor")
  <2>1. pc = "Escrow" /\ pc' = "update_cursor"
    BY <1>6 DEF ExchangePass
  <2>2. Chunk(MembershipAfterExchange)
    BY <2>1 DEF MembershipInv
  <2> DEFINE kinds == (EscrowKinds \ {"HolderChanged"})
  <2>0. /\ \A k \in kinds : k \in VenueKinds
        /\ \A k \in kinds : k \in {"SettlementOK", "HolderChanged", "EscrowFinished"} =>
                             k \in {"EscrowFinished"}
    BY DEF VenueKinds, OrderKinds, EscrowKinds, DeliveryKinds
  <2> HIDE DEF kinds
  <2>3. ASSUME NEW e \in Event, NEW a \in Account, NEW c \in Column,
               e.kind \in kinds /\ <<a, c>> \in Changed(e)
        PROVE  /\ c \in {"deposit", "commitment"}
               /\ a = e.from \/ (e.kind \in {"EscrowFinished"} /\ a = e.to)
    BY <2>0, <2>3, VenueChanges
  <2>4. BaseInv' /\ Adds(kinds)
    <3>1. ExchangePass("Escrow", kinds, {"EscrowFinished"}, "update_cursor")
      BY <1>6 DEF kinds
    <3> QED
      BY <1>0, <1>1, <2>0, <2>3, <3>1, ExchangePassAdds
  <2>5. MembershipAfterEscrow \subseteq MembershipAfterExchange \union kinds
    BY DEF MembershipAfterEscrow, kinds
  <2>6. Chunk(MembershipAfterEscrow)'
    BY <2>2, <2>4, <2>5, Advance
  <2> QED
    BY <2>1, <2>4, <2>6 DEF MembershipInv
<1>7. CASE UpdateCursor("Transfer")
  <2>1. Chunk(MembershipAfterEscrow)
    BY <1>7 DEF MembershipInv, UpdateCursor
  <2>2. \A e \in Event : e.kind \in MembershipAfterEscrow \union {"Register"}
    <3>1. MembershipKinds \subseteq MembershipAfterEscrow \union {"Register"}
      BY DEF MembershipKinds, LockKinds, MembershipAfterTransfer, MembershipAfterExchange,
         MembershipAfterEscrow
    <3> QED
      BY <3>1
  <2>3. BaseInv' /\ pc' \in {"Transfer", "set_block_number"}
    BY <1>0, <1>1, <1>7, <2>1, <2>2, UpdateCursorStep
  <2> QED
    BY <2>3 DEF MembershipInv
<1>8. CASE SetBlockNumber
  BY <1>0, <1>8, SetBlockNumberStep DEF MembershipInv
<1>9. CASE Rollback \/ Restart
  BY <1>0, <1>9, FailureStep DEF MembershipInv
<1>10. CASE Environment \/ UNCHANGED vars
  <2>1. BaseInv' /\ pc' = pc /\ Adds({}) /\ (Batches => Batches')
    BY <1>0, <1>10, EnvironmentStep
  <2>2. \A H : Chunk(H) => Chunk(H)'
    BY <2>1, Advance
  <2> QED
    BY <2>1, <2>2 DEF MembershipInv
<1> QED
  BY <1>2, <1>3, <1>4, <1>5, <1>6, <1>7, <1>8, <1>9, <1>10
  DEF MembershipNext, SyncMembershipNewLogs, GetMembershipTokens, SyncMembershipTransfer,
      SyncMembershipExchange, SyncMembershipEscrow, NextMembershipChunk,
      StoreMembershipBlockNumber
\* The membership indexer swallows no error of a lock.
LEMMA MembershipSwallows ==
  ASSUME [MembershipNext]_vars
  PROVE  swallowed' = swallowed
BY DEF MembershipNext, SyncMembershipNewLogs, GetMembershipTokens, SyncMembershipTransfer,
       SyncMembershipExchange, SyncMembershipEscrow, NextMembershipChunk,
       StoreMembershipBlockNumber,
       GetContractList, ReadTransfers, SinkTransfers, TokenPass, ExchangePass,
       UpdateCursor, SetBlockNumber, Rollback, Restart, Environment, SetTradableExchange,
       faultVars, vars

\* The stored values of memberships are not older than the stored block number says: every
\* balance, the commitments and deposits while no token moves to another exchange, and
\* locked amounts, which these contracts have none of.
THEOREM MembershipValues ==
  ASSUME OneNode, \A e \in Event : e.kind \in MembershipKinds
  PROVE  MembershipSpec => []ValuesUpToDate
<1>1. Init => MembershipInv /\ NoneSwallowed
  BY InitBase DEF MembershipInv, Init, NoneSwallowed
<1>2. MembershipInv /\ NoneSwallowed /\ [MembershipNext]_vars => MembershipInv' /\ NoneSwallowed'
  BY MembershipStep, MembershipSwallows DEF NoneSwallowed
<1>3. NoIssueIntoLock
  BY DEF NoIssueIntoLock, MembershipKinds, OrderKinds, EscrowKinds
<1>4. MembershipInv /\ NoneSwallowed => ValuesUpToDate
  BY <1>3, StoredUpToDate DEF MembershipInv, BaseInv, ValuesUpToDate, NoneSwallowed
<1> QED
  BY <1>1, <1>2, <1>4, PTL DEF MembershipSpec
==============================================================================
