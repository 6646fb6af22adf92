------------------------- MODULE Notifications_proofs -------------------------
(***************************************************************************)
(* What the three notification processes keep, whichever watchers they     *)
(* run: no notification comes back, none is made up, none is missing.      *)
(***************************************************************************)
EXTENDS Notifications, TLAPS

\* A step of any of the processes.
Step ==
    \/ \E w \in running :
          \/ \E contracts \in Seq(Source) : Begin(w, contracts)
          \/ UpToDate(w) \/ WatchContract(w) \/ LogsFail(w) \/ EndPass(w)
    \/ Api
    \/ ChainNext /\ NotificationsFrame

\* A type has one watcher, and so has each side of an event.
Fit(watchers) ==
    /\ \A w \in watchers :
          w.option \in 0..2 /\ w.whom \in {"nobody", "from", "to", "account", "buy", "sell"}
    /\ \A v, w \in watchers : v.type = w.type => v = w
    /\ \A v, w \in watchers : v.event = w.event /\ v.option = w.option => v = w

Notification ==
    [id : (Block \X Event) \X (0..2), type : WatcherType,
     address : Address \union Source \union {"nobody"}, read : BOOLEAN, deleted : BOOLEAN]

NotesTypes ==
    /\ ChainTypeOK
    /\ notes \subseteq Notification
    /\ number \in [WatcherType \X Source -> -1..MaxBlock]
    /\ first \in [WatcherType \X Source -> 0..MaxBlock]
    /\ latest \in [WatcherType -> 0..MaxBlock]
    /\ todo \in [WatcherType -> Seq(Source)]
    /\ failures \in 0..MaxFailures
    /\ WatcherType \in Groups /\ Fit(running)

\* What has been read is on the chain.
Numbers ==
    /\ \A type \in WatcherType : latest[type] <= Len(chain)
    /\ \A p \in WatcherType \X Source :
          /\ number[p] <= Len(chain)
          /\ number[p] = -1 => first[p] = 0
          /\ number[p] # -1 => first[p] <= number[p]

\* Watcher w has read event r.
HasRead(w, r) ==
    /\ r \in Block \X Event /\ r[1] <= Len(chain) /\ r[2] \in chain[r[1]]
    /\ r[2].kind = w.event /\ r[2].at \in Source
    /\ first[<<w.type, r[2].at>>] <= r[1] /\ r[1] <= number[<<w.type, r[2].at>>]

\* Notification n is what watcher w made of event r.
MadeOf(n, w, r) ==
    /\ n.id = <<r, w.option>> /\ n.type = w.type /\ n.address = Whom(r[2], w)
    /\ w.fromPeople => r[2].from \notin Source
    /\ w.registeredOnly => RegisteredAt(r[2].token, Len(chain))

FromRead ==
    /\ \A n \in notes : \E w \in running, r \in Block \X Event : HasRead(w, r) /\ MadeOf(n, w, r)
    /\ \A id \in gone : \E w \in running, r \in Block \X Event :
                           HasRead(w, r) /\ id = <<r, w.option>>

OneForAnId == \A x, y \in notes : x.id = y.id => x = y

\* The inductive invariant, whichever nodes answer.
NotesInv == NotesTypes /\ Numbers /\ FromRead /\ OneForAnId /\ DeletedStaysDeleted

\* There is a notification for event r, or there was one that its user deleted.
Told(w, r) ==
    \/ <<r, w.option>> \in gone
    \/ \E n \in notes : n.id = <<r, w.option>> /\ n.type = w.type /\ n.address = Whom(r[2], w)

\* With nodes that do not lag, nothing that was read is missing.
ToldInv ==
    /\ \A n \in Node : head[n] = Len(chain)
    /\ \A w \in running, r \in Block \X Event :
          HasRead(w, r) /\ Reported(w, r[2], r[1]) => Told(w, r)

Assumptions == \E watchers : NotificationsAssumption(watchers)

------------------------------------------------------------------------------

\* The bounds, and whom an event can be for.
LEMMA NoteBounds ==
    ASSUME Assumptions, ChainAssumption
    PROVE  /\ MaxBlock \in Nat /\ ChunkSize \in Nat \ {0} /\ MaxFailures \in Nat
           /\ \A e \in Event : \A w :
                 w.whom \in {"nobody", "from", "to", "account", "buy", "sell"} =>
                    Whom(e, w) \in Address \union Source \union {"nobody"}
<1>1. MaxBlock \in Nat /\ ChunkSize \in Nat \ {0} /\ MaxFailures \in Nat
  BY DEF Assumptions, ChainAssumption, NotificationsAssumption
<1>2. ASSUME NEW e \in Event, NEW w,
             w.whom \in {"nobody", "from", "to", "account", "buy", "sell"}
      PROVE  Whom(e, w) \in Address \union Source \union {"nobody"}
  <2>1. {e.from, e.to, e.account, e.buy, e.sell} \subseteq Address \union Source
    BY DEF Assumptions, NotificationsAssumption, Source
  <2> QED BY <1>2, <2>1 DEF Whom
<1> QED BY <1>1, <1>2

\* The chain and its nodes keep their types; it only grows.
LEMMA NoteChainTyped ==
    ASSUME ChainAssumption, ChainTypeOK, ChainNext
    PROVE  /\ ChainTypeOK'
           /\ Len(chain) \in Nat /\ Len(chain') \in Nat /\ Len(chain) <= Len(chain')
           /\ \A b \in 1..Len(chain) : chain'[b] = chain[b]
           /\ \A t, h : RegisteredAt(t, h) => RegisteredAt(t, h)'
           /\ (\A m, n \in Node : m = n) /\ (\A n \in Node : head[n] = Len(chain))
                 => \A n \in Node : head'[n] = Len(chain')
<1> USE DEF ChainAssumption, ChainTypeOK, BlockNumber
<1>1. CASE Mine
  <2>1. PICK block \in Contents, S \in (SUBSET Node) \ {{}} :
           /\ Len(chain) < MaxBlock
           /\ chain' = Append(chain, block)
           /\ head' = [n \in Node |-> IF n \in S THEN Len(chain) + 1 ELSE head[n]]
    BY <1>1 DEF Mine
  <2>2. block \in SUBSET Event
    OBVIOUS
  <2>3. /\ Len(chain') = Len(chain) + 1 /\ chain' \in Seq(SUBSET Event) /\ Len(chain) \in Nat
        /\ \A b \in 1..Len(chain) : chain'[b] = chain[b]
    BY <2>1, <2>2
  <2>4. \A n \in Node : head'[n] \in 0..MaxBlock /\ head'[n] <= Len(chain')
    BY <2>1, <2>3
  <2>5. ChainTypeOK'
    BY <1>1, <2>1, <2>3, <2>4 DEF Mine
  <2>6. \A t, h : RegisteredAt(t, h) => RegisteredAt(t, h)'
    <3>1. \A b \in Block : b <= Len(chain) => b <= Len(chain') /\ chain'[b] = chain[b]
      BY <2>3 DEF Block
    <3> QED BY <3>1 DEF RegisteredAt
  <2>7. (\A m, n \in Node : m = n) => \A n \in Node : n \in S
    OBVIOUS
  <2>8. (\A m, n \in Node : m = n) => \A n \in Node : head'[n] = Len(chain')
    BY <2>1, <2>3, <2>7
  <2> QED BY <2>3, <2>5, <2>6, <2>8
<1>2. CASE CatchUp
  BY <1>2 DEF CatchUp, RegisteredAt
<1>3. CASE RegisterAdminToken \/ DeleteToken
  BY <1>3 DEF RegisterAdminToken, DeleteToken, RegisteredAt
<1> QED BY <1>1, <1>2, <1>3 DEF ChainNext

\* What an event was read for can be told from its id.
LEMMA IdTellsEvent ==
    ASSUME Fit(running), NEW v \in running, NEW w \in running,
           NEW q \in Block \X Event, NEW r \in Block \X Event,
           q[2].kind = v.event, r[2].kind = w.event, <<q, v.option>> = <<r, w.option>>
    PROVE  q = r /\ v = w
BY DEF Fit

\* Watcher w reads the blocks from..to of contract c: it makes new notifications.
ReadsRange(w, c, from, to, h, g) ==
    LET p == <<w.type, c>>
        new == {Note(w, r) : r \in {x \in Entries(w, c, from, to, h) : Reported(w, x[2], g)}}
    IN /\ notes' = notes \union new
       /\ \A m \in new : m.id \notin gone /\ \A n \in notes : n.id # m.id
       /\ number' = [number EXCEPT ![p] = to]
       /\ number[p] < from /\ from <= to /\ to <= Len(chain)
       /\ \/ from = number[p] + 1 /\ first' = first
          \/ number[p] = -1 /\ first' = [first EXCEPT ![p] = from]
       /\ p \in WatcherType \X Source

\* A watcher reads the range that follows what it has read: it makes new notifications.
LEMMA NewRange ==
    ASSUME Assumptions, ChainAssumption, NotesInv, NEW w \in running, WatchContract(w)
    PROVE  \E c \in Source, from \in 0..MaxBlock, to \in 0..MaxBlock,
              h, g \in {head[n] : n \in Node} :
              ReadsRange(w, c, from, to, h, g)
<1> DEFINE c == Head(todo[w.type])
           p == <<w.type, c>>
           from == SynchronizedNumber(w, c, latest[w.type]) + 1
           to == LastOfRange(from, latest[w.type])
<1>1. /\ todo[w.type] # <<>> /\ from <= latest[w.type]
      /\ number' = [number EXCEPT ![p] = to]
      /\ first' = [first EXCEPT ![p] =
                      IF w.skipPast /\ number[p] = -1 THEN latest[w.type] ELSE first[p]]
  BY DEF WatchContract, SetSynchronizedNumber
<1>2. PICK h \in {head[n] : n \in Node}, g \in {head[n] : n \in Node} :
         notes' = Merge(notes, {Note(w, r) :
                          r \in {x \in Entries(w, c, from, to, h) : Reported(w, x[2], g)}})
  BY DEF WatchContract
<1>3. w.type \in WatcherType
  BY DEF WatcherType
<1>4. /\ c \in Source /\ p \in WatcherType \X Source
      /\ latest[w.type] \in 0..MaxBlock /\ latest[w.type] <= Len(chain)
      /\ number[p] \in -1..MaxBlock /\ first[p] \in 0..MaxBlock
  <2>1. todo[w.type] \in Seq(Source)
    BY <1>3 DEF NotesInv, NotesTypes
  <2>2. c \in Source
    BY <1>1, <2>1
  <2>3. p \in WatcherType \X Source
    BY <1>3, <2>2
  <2> HIDE DEF p, c
  <2> QED BY <1>3, <2>2, <2>3 DEF NotesInv, NotesTypes, Numbers
<1>5. /\ from \in 0..MaxBlock /\ to \in 0..MaxBlock /\ from <= to /\ to <= Len(chain)
      /\ number[p] < from
      /\ \/ from = number[p] + 1 /\ ~(w.skipPast /\ number[p] = -1)
         \/ number[p] = -1 /\ w.skipPast /\ from = latest[w.type]
  <2>1. SynchronizedNumber(w, c, latest[w.type]) =
          IF number[p] # -1 THEN number[p] ELSE IF w.skipPast THEN latest[w.type] - 1 ELSE -1
    BY DEF SynchronizedNumber
  <2>2. Len(chain) \in Nat
    BY DEF NotesInv, NotesTypes, ChainTypeOK
  <2> HIDE DEF p, c
  <2>3. /\ from \in 0..MaxBlock /\ number[p] < from
        /\ \/ from = number[p] + 1 /\ ~(w.skipPast /\ number[p] = -1)
           \/ number[p] = -1 /\ w.skipPast /\ from = latest[w.type]
    BY <1>1, <1>4, <2>1, NoteBounds
  <2> HIDE DEF from
  <2>4. to \in 0..MaxBlock /\ from <= to /\ to <= latest[w.type]
    <3>1. to = (IF latest[w.type] - from >= ChunkSize THEN from + ChunkSize - 1
                ELSE latest[w.type])
      BY DEF LastOfRange
    <3>2. latest[w.type] \in Int /\ latest[w.type] <= MaxBlock /\ latest[w.type] >= 0
      BY <1>4, NoteBounds
    <3>3. from \in Int /\ from >= 0 /\ from <= latest[w.type]
      BY <1>1, <1>4, <2>1, <2>3, <3>2
    <3> HIDE DEF to
    <3> QED BY <3>1, <3>2, <3>3, NoteBounds
  <2> HIDE DEF to
  <2> QED BY <1>4, <2>2, <2>3, <2>4, NoteBounds
<1>6. \/ from = number[p] + 1 /\ first' = first
      \/ number[p] = -1 /\ first' = [first EXCEPT ![p] = from]
  <2> HIDE DEF p, c, from, to
  <2>1. CASE from = number[p] + 1 /\ ~(w.skipPast /\ number[p] = -1)
    BY <1>1, <1>4, <2>1 DEF NotesInv, NotesTypes
  <2>2. CASE number[p] = -1 /\ w.skipPast /\ from = latest[w.type]
    BY <1>1, <2>2
  <2> QED BY <1>5, <2>1, <2>2
<1> DEFINE new == {Note(w, r) : r \in {x \in Entries(w, c, from, to, h) : Reported(w, x[2], g)}}
<1>7. ASSUME NEW m \in new, NEW id, id \in gone \/ \E n \in notes : id = n.id
      PROVE  id # m.id
  <2>1. PICK r \in Entries(w, c, from, to, h) : m = Note(w, r)
    OBVIOUS
  <2>2. m.id = <<r, w.option>>
    BY <2>1 DEF Note, NotificationId
  <2>3. PICK v \in running, q \in Block \X Event : HasRead(v, q) /\ id = <<q, v.option>>
    BY <1>7 DEF NotesInv, FromRead, MadeOf
  <2> HIDE DEF c, from, to
  <2>4. r \in Block \X Event /\ r[2].at = c /\ r[2].kind = w.event /\ from <= r[1]
    BY <1>5, NoteBounds DEF Entries, Block
  <2>5. CASE id = m.id
    <3>1. Fit(running) /\ q[2].kind = v.event /\ <<q, v.option>> = <<r, w.option>>
      BY <2>2, <2>3, <2>5 DEF NotesInv, NotesTypes, HasRead
    <3> HIDE DEF NotesInv
    <3>2. q = r /\ v = w
      BY <2>3, <2>4, <3>1, IdTellsEvent
    <3>3. r[1] <= number[p] /\ r[1] \in Int
      BY <2>3, <2>4, <3>2, NoteBounds DEF HasRead, Block
    <3> HIDE DEF p
    <3> QED BY <1>4, <1>5, <2>4, <3>3, NoteBounds
  <2> QED BY <2>5
<1>8. notes' = notes \union new
  <2> HIDE DEF new
  <2> QED BY <1>2, <1>7 DEF Merge, new
<1> HIDE DEF c, from, to
<1>9. ReadsRange(w, c, from, to, h, g)
  BY <1>1, <1>4, <1>5, <1>6, <1>7, <1>8 DEF ReadsRange
<1> QED BY <1>4, <1>5, <1>9

------------------------------------------------------------------------------
(* The invariant, step by step. *)

\* A watcher that reads a range keeps it.
LEMMA RangeKeeps ==
    ASSUME Assumptions, ChainAssumption, NotesInv, NEW w \in running, WatchContract(w)
    PROVE  NotesInv'
<1>1. PICK c \in Source, from \in 0..MaxBlock, to \in 0..MaxBlock,
           h \in {head[n] : n \in Node}, g \in {head[n] : n \in Node} :
              ReadsRange(w, c, from, to, h, g)
  BY NewRange
<1> DEFINE p == <<w.type, c>>
           new == {Note(w, r) : r \in {x \in Entries(w, c, from, to, h) : Reported(w, x[2], g)}}
<1>2. /\ notes' = notes \union new
      /\ \A m \in new : m.id \notin gone /\ \A n \in notes : n.id # m.id
      /\ number' = [number EXCEPT ![p] = to]
      /\ number[p] < from /\ from <= to /\ to <= Len(chain)
      /\ \/ from = number[p] + 1 /\ first' = first
         \/ number[p] = -1 /\ first' = [first EXCEPT ![p] = from]
      /\ p \in WatcherType \X Source
  BY <1>1 DEF ReadsRange
<1>3. /\ UNCHANGED <<chain, head, listed, running, latest, failures, gone>>
      /\ todo' = [todo EXCEPT ![w.type] = Tail(todo[w.type])] /\ todo[w.type] # <<>>
  BY DEF WatchContract, chainVars
<1>4. /\ w.type \in WatcherType /\ MaxBlock \in Nat /\ Len(chain) \in Nat
      /\ \A q \in WatcherType \X Source : number[q] \in -1..MaxBlock /\ first[q] \in 0..MaxBlock
      /\ \A n \in Node : head[n] \in 0..MaxBlock /\ head[n] <= Len(chain)
  BY NoteBounds DEF NotesInv, NotesTypes, ChainTypeOK, BlockNumber, WatcherType
<1> HIDE DEF p
<1>5. \A q \in WatcherType \X Source :
         /\ number'[q] = IF q = p THEN to ELSE number[q]
         /\ first'[q] \in {first[q], from} /\ (q # p => first'[q] = first[q])
         /\ q = p => first'[q] <= from
  <2>1. first[p] <= from
    BY <1>2, <1>4 DEF NotesInv, Numbers
  <2>2. number \in [WatcherType \X Source -> -1..MaxBlock]
    BY DEF NotesInv, NotesTypes
  <2>3. first \in [WatcherType \X Source -> 0..MaxBlock]
    BY DEF NotesInv, NotesTypes
  <2>4. \A q \in WatcherType \X Source : number'[q] = IF q = p THEN to ELSE number[q]
    BY <1>2, <2>2
  <2>5. \A q \in WatcherType \X Source :
           /\ first'[q] \in {first[q], from} /\ (q # p => first'[q] = first[q])
           /\ q = p => first'[q] <= from
    BY <1>2, <1>4, <2>1, <2>3
  <2> QED BY <2>4, <2>5
<1>6. ASSUME NEW m \in new
      PROVE  \E r \in Block \X Event : /\ HasRead(w, r)' /\ MadeOf(m, w, r)' /\ m = Note(w, r)
                                       /\ <<r, w.option>> = m.id
  <2>1. PICK r \in Entries(w, c, from, to, h) : m = Note(w, r) /\ Reported(w, r[2], g)
    OBVIOUS
  <2>2. /\ r \in Block \X Event /\ from <= r[1] /\ r[1] <= to /\ r[1] <= Len(chain)
        /\ r[2] \in chain[r[1]] /\ r[2].at = c /\ r[2].kind = w.event
    BY <1>4 DEF Entries, Block
  <2>3. HasRead(w, r)'
    <3>1. first'[p] <= r[1] /\ r[1] <= number'[p]
      <4>1. first'[p] \in Int /\ from \in Int /\ r[1] \in Int
        BY <1>2, <1>4, <1>5, <2>2 DEF Block
      <4> QED BY <1>2, <1>5, <2>2, <4>1
    <3>2. r[2].at \in Source
      BY <2>2
    <3> QED BY <1>3, <2>2, <3>1, <3>2 DEF HasRead, p, Block, Source
  <2>4. g <= Len(chain) /\ g \in Int
    BY <1>4
  <2>5. w.registeredOnly => RegisteredAt(r[2].token, Len(chain))
    BY <1>4, <2>1, <2>4 DEF Reported, RegisteredAt, Block
  <2>6. MadeOf(m, w, r)'
    <3>1. m.id = <<r, w.option>> /\ m.type = w.type /\ m.address = Whom(r[2], w)
      BY <2>1 DEF Note, NotificationId
    <3>2. Whom(r[2], w)' = Whom(r[2], w)
      BY DEF Whom
    <3> QED BY <1>3, <2>1, <2>5, <3>1, <3>2
            DEF MadeOf, Reported, RegisteredAt, Block, Source
  <2> QED BY <2>1, <2>2, <2>3, <2>6 DEF Note, NotificationId
<1>7. ASSUME NEW v \in running, NEW r, HasRead(v, r) PROVE HasRead(v, r)'
  <2> DEFINE q == <<v.type, r[2].at>>
  <2>1. /\ r \in Block \X Event /\ r[1] <= Len(chain) /\ r[2] \in chain[r[1]]
        /\ r[2].kind = v.event /\ r[2].at \in Source /\ first[q] <= r[1] /\ r[1] <= number[q]
    BY <1>7 DEF HasRead
  <2>2. q \in WatcherType \X Source
    BY <2>1 DEF WatcherType
  <2> HIDE DEF q
  <2>3. first'[q] <= r[1] /\ r[1] <= number'[q]
    <3>1. CASE q = p
      <4>1. number[p] # -1
        BY <1>4, <2>1, <2>2, <3>1 DEF Block
      <4> QED BY <1>2, <1>4, <1>5, <2>1, <2>2, <3>1, <4>1 DEF Block
    <3>2. CASE q # p
      BY <1>5, <2>1, <2>2, <3>2
    <3> QED BY <3>1, <3>2
  <2> QED BY <1>3, <2>1, <2>3 DEF HasRead, q, Block, Source
<1>8. NotesTypes'
  <2>1. new \subseteq Notification
    <3> SUFFICES ASSUME NEW m \in new PROVE m \in Notification
      OBVIOUS
    <3>1. PICK r \in Block \X Event : m = Note(w, r)
      BY <1>6
    <3>2. w.option \in 0..2 /\ w.whom \in {"nobody", "from", "to", "account", "buy", "sell"}
      BY DEF NotesInv, NotesTypes, Fit
    <3>3. Whom(r[2], w) \in Address \union Source \union {"nobody"}
      BY <3>2, NoteBounds
    <3> QED BY <1>4, <3>1, <3>2, <3>3 DEF Note, NotificationId, Notification
  <2>2. Notification' = Notification /\ WatcherType' = WatcherType
    BY <1>3 DEF Notification, WatcherType, Block, Source
  <2>3. notes' \subseteq Notification'
    <3> HIDE DEF new
    <3> QED BY <1>2, <2>1, <2>2 DEF NotesInv, NotesTypes
  <2>4. number' \in [WatcherType \X Source -> -1..MaxBlock]
    BY <1>2, <1>4 DEF NotesInv, NotesTypes
  <2>5. first' \in [WatcherType \X Source -> 0..MaxBlock]
    BY <1>2, <1>4 DEF NotesInv, NotesTypes
  <2>6. todo' \in [WatcherType -> Seq(Source)]
    <3>1. Tail(todo[w.type]) \in Seq(Source)
      BY <1>3, <1>4 DEF NotesInv, NotesTypes
    <3> QED BY <1>3, <3>1 DEF NotesInv, NotesTypes
  <2> QED BY <1>3, <2>2, <2>3, <2>4, <2>5, <2>6
          DEF NotesInv, NotesTypes, ChainTypeOK, BlockNumber, Source, Fit
<1>9. Numbers'
  <2>1. \A q \in WatcherType \X Source :
           /\ number'[q] <= Len(chain)
           /\ number'[q] = -1 => first'[q] = 0
           /\ number'[q] # -1 => first'[q] <= number'[q]
    <3> TAKE q \in WatcherType \X Source
    <3>1. CASE q = p
      BY <1>2, <1>4, <1>5, <3>1
    <3>2. CASE q # p
      BY <1>4, <1>5, <3>2 DEF NotesInv, Numbers
    <3> QED BY <3>1, <3>2
  <2> QED BY <1>3, <2>1 DEF NotesInv, Numbers, WatcherType, Source
<1>10. FromRead'
  <2>1. ASSUME NEW n \in notes
        PROVE  \E v \in running, r \in Block \X Event : HasRead(v, r)' /\ MadeOf(n, v, r)'
    <3>1. PICK v \in running, r \in Block \X Event : HasRead(v, r) /\ MadeOf(n, v, r)
      BY DEF NotesInv, FromRead
    <3>2. MadeOf(n, v, r)'
      BY <1>3, <3>1 DEF MadeOf, Whom, RegisteredAt, Block, Source
    <3> QED BY <1>7, <3>1, <3>2
  <2>2. \A n \in notes' : \E v \in running, r \in Block \X Event :
           HasRead(v, r)' /\ MadeOf(n, v, r)'
    <3> HIDE DEF new
    <3> QED BY <1>2, <1>6, <2>1
  <2>3. ASSUME NEW id \in gone
        PROVE  \E v \in running, r \in Block \X Event : HasRead(v, r)' /\ id = <<r, v.option>>
    <3>1. PICK v \in running, r \in Block \X Event : HasRead(v, r) /\ id = <<r, v.option>>
      BY DEF NotesInv, FromRead
    <3> QED BY <1>7, <3>1
  <2> QED BY <1>3, <2>2, <2>3 DEF FromRead, Block
<1>11. OneForAnId' /\ DeletedStaysDeleted'
  <2>1. \A x, y \in new : x.id = y.id => x = y
    <3> TAKE x, y \in new
    <3>1. PICK q : x = Note(w, q) /\ <<q, w.option>> = x.id
      BY <1>6
    <3>2. PICK r : y = Note(w, r) /\ <<r, w.option>> = y.id
      BY <1>6
    <3> HIDE DEF new
    <3> QED BY <3>1, <3>2
  <2> HIDE DEF new
  <2> QED BY <1>2, <1>3, <2>1 DEF NotesInv, OneForAnId, DeletedStaysDeleted
<1> QED BY <1>8, <1>9, <1>10, <1>11 DEF NotesInv

\* What was read stays read as long as nothing that says so changes.
LEMMA FromReadStays ==
    ASSUME UNCHANGED <<chain, number, running, first>>
    PROVE  /\ \A w, r : HasRead(w, r)' <=> HasRead(w, r)
           /\ \A n, w, r : MadeOf(n, w, r)' <=> MadeOf(n, w, r)
           /\ FromRead /\ UNCHANGED <<notes, gone>> => FromRead'
<1>1. \A w, r : HasRead(w, r)' <=> HasRead(w, r)
  BY DEF HasRead, Block, Source
<1>2. \A n, w, r : MadeOf(n, w, r)' <=> MadeOf(n, w, r)
  BY DEF MadeOf, Whom, RegisteredAt, Block, Source
<1> QED BY <1>1, <1>2 DEF FromRead, Block

\* What else a watcher does concerns no notification.
LEMMA LoopKeeps ==
    ASSUME Assumptions, ChainAssumption, NotesInv, NEW w \in running,
           \/ \E contracts \in Seq(Source) : Begin(w, contracts)
           \/ UpToDate(w) \/ LogsFail(w) \/ EndPass(w)
    PROVE  NotesInv' /\ UNCHANGED <<chain, head, listed, notes, number, running, first, gone>>
<1>1. /\ UNCHANGED <<chain, head, listed, notes, number, running, first, gone>>
      /\ todo' \in [WatcherType -> Seq(Source)]
      /\ latest' \in [WatcherType -> 0..MaxBlock]
      /\ \A type \in WatcherType : latest'[type] <= Len(chain)
      /\ failures' \in 0..MaxFailures
  <2>0. /\ w.type \in WatcherType /\ MaxFailures \in Nat
        /\ todo \in [WatcherType -> Seq(Source)] /\ latest \in [WatcherType -> 0..MaxBlock]
        /\ \A type \in WatcherType : latest[type] <= Len(chain)
        /\ failures \in 0..MaxFailures
        /\ \A n \in Node : head[n] \in 0..MaxBlock /\ head[n] <= Len(chain)
    BY NoteBounds DEF NotesInv, NotesTypes, Numbers, WatcherType, ChainTypeOK, BlockNumber
  <2>1. CASE \E contracts \in Seq(Source) : Begin(w, contracts)
    <3>1. PICK contracts \in Seq(Source) : Begin(w, contracts)
      BY <2>1
    <3>2. PICK h \in {head[n] : n \in Node} : latest' = [latest EXCEPT ![w.type] = h]
      BY <3>1 DEF Begin
    <3>3. /\ UNCHANGED <<chain, head, listed, notes, number, running, first, gone, failures>>
          /\ todo' = [todo EXCEPT ![w.type] = contracts]
      BY <3>1 DEF Begin, chainVars
    <3> QED BY <2>0, <3>2, <3>3
  <2>2. CASE UpToDate(w)
    <3>1. /\ UNCHANGED <<chain, head, listed, notes, number, running, latest, first, gone,
                      failures>>
          /\ todo' = [todo EXCEPT ![w.type] = <<>>]
      BY <2>2 DEF UpToDate, chainVars
    <3>2. <<>> \in Seq(Source)
      OBVIOUS
    <3> QED BY <2>0, <3>1, <3>2
  <2>3. CASE LogsFail(w) \/ EndPass(w)
    <3>1. /\ UNCHANGED <<chain, head, listed, notes, number, running, latest, first, gone>>
          /\ failures < MaxFailures /\ failures' = failures + 1
          /\ todo[w.type] # <<>>
          /\ \/ todo' = [todo EXCEPT ![w.type] = Tail(todo[w.type])]
             \/ todo' = [todo EXCEPT ![w.type] = <<>>]
      BY <2>3 DEF LogsFail, EndPass, chainVars
    <3>2. <<>> \in Seq(Source) /\ Tail(todo[w.type]) \in Seq(Source)
      BY <2>0, <3>1
    <3>3. todo' \in [WatcherType -> Seq(Source)]
      BY <2>0, <3>1, <3>2
    <3> QED BY <2>0, <3>1, <3>3
  <2> QED BY <2>1, <2>2, <2>3
<1>2. WatcherType' = WatcherType /\ Notification' = Notification /\ Source' = Source
  BY <1>1 DEF WatcherType, Notification, Block, Source
<1>3. NotesTypes'
  BY <1>1, <1>2 DEF NotesInv, NotesTypes, ChainTypeOK, BlockNumber, Fit
<1>4. Numbers'
  BY <1>1, <1>2 DEF NotesInv, Numbers
<1>5. FromRead'
  BY <1>1, FromReadStays DEF NotesInv
<1> QED BY <1>1, <1>3, <1>4, <1>5 DEF NotesInv, OneForAnId, DeletedStaysDeleted

\* What the users do leaves the id of a notification, its type and whom it is for.
LEMMA ApiKeeps ==
    ASSUME Assumptions, ChainAssumption, NotesInv, Api
    PROVE  /\ NotesInv' /\ UNCHANGED <<chain, head, listed, number, running, first>>
           /\ \A n \in notes : \/ n.id \in gone'
                               \/ \E m \in notes' : m.id = n.id /\ m.type = n.type
                                                    /\ m.address = n.address
           /\ gone \subseteq gone'
<1>1. UNCHANGED <<chain, head, listed, number, running, todo, latest, failures, first>>
  BY DEF Api, ReadAll, Update, Delete, apiVars, chainVars
<1>2. /\ \A m \in notes' : /\ m \in Notification
                           /\ \E n \in notes : m.id = n.id /\ m.type = n.type
                                               /\ m.address = n.address
      /\ \A n \in notes : \/ n.id \in gone'
                          \/ \E m \in notes' : m.id = n.id /\ m.type = n.type
                                               /\ m.address = n.address
      /\ gone \subseteq gone' /\ \A id \in gone' : id \in gone \/ \E n \in notes : n.id = id
      /\ \A m \in notes' : m.id \notin gone'
      /\ \A x, y \in notes' : x.id = y.id => x = y
  <2>0. /\ notes \subseteq Notification /\ \A x, y \in notes : x.id = y.id => x = y
        /\ \A n \in notes : n.id \notin gone
    BY DEF NotesInv, NotesTypes, OneForAnId, DeletedStaysDeleted
  <2>1. ASSUME NEW n \in Notification, NEW r \in BOOLEAN
        PROVE  /\ [n EXCEPT !.read = r] \in Notification
               /\ [n EXCEPT !.read = r].id = n.id /\ [n EXCEPT !.read = r].type = n.type
               /\ [n EXCEPT !.read = r].address = n.address
    BY DEF Notification
  <2>2. ASSUME NEW n \in Notification, NEW r \in BOOLEAN, NEW d \in BOOLEAN
        PROVE  /\ [n EXCEPT !.read = r, !.deleted = d] \in Notification
               /\ [n EXCEPT !.read = r, !.deleted = d].id = n.id
               /\ [n EXCEPT !.read = r, !.deleted = d].type = n.type
               /\ [n EXCEPT !.read = r, !.deleted = d].address = n.address
    BY DEF Notification
  <2>3. CASE ReadAll
    <3>1. PICK a \in Address, flag \in BOOLEAN :
             notes' = {IF n.address = a THEN [n EXCEPT !.read = flag] ELSE n : n \in notes}
      BY <2>3 DEF ReadAll
    <3> DEFINE f(n) == IF n.address = a THEN [n EXCEPT !.read = flag] ELSE n
    <3>2. \A n \in notes : /\ f(n) \in Notification /\ f(n).id = n.id /\ f(n).type = n.type
                           /\ f(n).address = n.address
      BY <2>0, <2>1
    <3>3. gone' = gone /\ notes' = {f(n) : n \in notes}
      BY <2>3, <3>1 DEF ReadAll
    <3> HIDE DEF f
    <3>4. \A x, y \in notes' : x.id = y.id => x = y
      BY <2>0, <3>2, <3>3
    <3> QED BY <2>0, <3>2, <3>3, <3>4
  <2>4. CASE Update
    <3>1. PICK k \in notes, r \in BOOLEAN, d \in BOOLEAN :
             notes' = (notes \ {k}) \union {[k EXCEPT !.read = r, !.deleted = d]}
      BY <2>4 DEF Update
    <3> DEFINE l == [k EXCEPT !.read = r, !.deleted = d]
    <3>2. l \in Notification /\ l.id = k.id /\ l.type = k.type /\ l.address = k.address
      BY <2>0, <2>2
    <3>3. gone' = gone /\ notes' = (notes \ {k}) \union {l}
      BY <2>4, <3>1 DEF Update
    <3> HIDE DEF l
    <3> QED BY <2>0, <3>2, <3>3
  <2>5. CASE Delete
    <3>1. PICK k \in notes : notes' = notes \ {k} /\ gone' = gone \union {k.id}
      BY <2>5 DEF Delete
    <3> QED BY <2>0, <3>1
  <2> QED BY <2>3, <2>4, <2>5 DEF Api
<1>3. WatcherType' = WatcherType /\ Notification' = Notification /\ Source' = Source
  BY <1>1 DEF WatcherType, Notification, Block, Source
<1>4. NotesTypes'
  BY <1>1, <1>2, <1>3 DEF NotesInv, NotesTypes, ChainTypeOK, BlockNumber, Fit
<1>5. Numbers'
  BY <1>1, <1>3 DEF NotesInv, Numbers
<1>6. FromRead'
  <2>1. \A v, r : HasRead(v, r)' <=> HasRead(v, r)
    BY <1>1, <1>3 DEF HasRead, Block
  <2>2. \A m, n, v, r : /\ MadeOf(n, v, r) /\ m.id = n.id /\ m.type = n.type
                        /\ m.address = n.address
                        => MadeOf(m, v, r)'
    BY <1>1, <1>3 DEF MadeOf, Whom, RegisteredAt, Block
  <2>3. ASSUME NEW m \in notes'
        PROVE  \E v \in running, r \in Block \X Event : HasRead(v, r)' /\ MadeOf(m, v, r)'
    <3>1. PICK n \in notes : m.id = n.id /\ m.type = n.type /\ m.address = n.address
      BY <1>2
    <3>2. PICK v \in running, r \in Block \X Event : HasRead(v, r) /\ MadeOf(n, v, r)
      BY DEF NotesInv, FromRead
    <3> QED BY <2>1, <2>2, <3>1, <3>2
  <2>4. ASSUME NEW id \in gone'
        PROVE  \E v \in running, r \in Block \X Event : HasRead(v, r)' /\ id = <<r, v.option>>
    <3>1. \E v \in running, r \in Block \X Event : HasRead(v, r) /\ id = <<r, v.option>>
      BY <1>2 DEF NotesInv, FromRead, MadeOf
    <3> QED BY <2>1, <3>1
  <2> QED BY <1>1, <2>3, <2>4 DEF FromRead, Block
<1> QED BY <1>1, <1>2, <1>4, <1>5, <1>6 DEF NotesInv, OneForAnId, DeletedStaysDeleted

\* The chain that goes on changes nothing that was read.
LEMMA ChainKeeps ==
    ASSUME Assumptions, ChainAssumption, NotesInv, ChainNext, NotificationsFrame
    PROVE  NotesInv'
<1>1. UNCHANGED <<notes, number, running, todo, latest, failures, first, gone>>
  BY DEF NotificationsFrame
<1>2. /\ ChainTypeOK'
      /\ Len(chain) \in Nat /\ Len(chain') \in Nat /\ Len(chain) <= Len(chain')
      /\ \A b \in 1..Len(chain) : chain'[b] = chain[b]
      /\ \A t, h : RegisteredAt(t, h) => RegisteredAt(t, h)'
  BY NoteChainTyped DEF NotesInv, NotesTypes
<1>3. WatcherType' = WatcherType /\ Notification' = Notification /\ Source' = Source
  BY <1>1 DEF WatcherType, Notification, Block, Source
<1>4. NotesTypes'
  BY <1>1, <1>2, <1>3 DEF NotesInv, NotesTypes, Fit
<1>5. Numbers'
  <2>1. /\ \A type \in WatcherType : latest[type] \in Int
        /\ \A p \in WatcherType \X Source : number[p] \in Int
    BY NoteBounds DEF NotesInv, NotesTypes
  <2> QED BY <1>1, <1>2, <1>3, <2>1 DEF NotesInv, Numbers
<1>6. FromRead'
  <2>1. ASSUME NEW v, NEW r, HasRead(v, r) PROVE HasRead(v, r)'
    <3>1. r[1] \in 1..Len(chain) /\ r[1] <= Len(chain')
      BY <1>2, <2>1, NoteBounds DEF HasRead, Block
    <3> QED BY <1>1, <1>2, <1>3, <2>1, <3>1 DEF HasRead, Block
  <2>2. ASSUME NEW n, NEW v, NEW r, MadeOf(n, v, r) PROVE MadeOf(n, v, r)'
    <3>1. \A t : RegisteredAt(t, Len(chain)) => RegisteredAt(t, Len(chain))'
      <4>1. \A b \in Block : b <= Len(chain) => b <= Len(chain') /\ chain'[b] = chain[b]
        BY <1>2, NoteBounds DEF Block
      <4> QED BY <4>1 DEF RegisteredAt, Block
    <3> QED BY <1>1, <1>3, <2>2, <3>1 DEF MadeOf, Whom
  <2> QED BY <1>1, <2>1, <2>2 DEF NotesInv, FromRead, Block
<1> QED BY <1>1, <1>4, <1>5, <1>6 DEF NotesInv, OneForAnId, DeletedStaysDeleted

\* NotesInv is inductive.
LEMMA NotesInvariant ==
    Assumptions /\ ChainAssumption /\ NotesInv /\ [Step]_noteVars => NotesInv'
<1> SUFFICES ASSUME Assumptions, ChainAssumption, NotesInv, [Step]_noteVars PROVE NotesInv'
  OBVIOUS
<1>1. CASE Step
  BY <1>1, RangeKeeps, LoopKeeps, ApiKeeps, ChainKeeps DEF Step
<1>2. CASE UNCHANGED noteVars
  <2>1. UNCHANGED <<chain, head, listed, notes, number, running, todo, latest, failures, first,
                    gone>>
    BY <1>2 DEF noteVars, chainVars
  <2>2. WatcherType' = WatcherType /\ Notification' = Notification /\ Source' = Source
    BY <2>1 DEF WatcherType, Notification, Block, Source
  <2>3. NotesTypes'
    BY <2>1, <2>2 DEF NotesInv, NotesTypes, ChainTypeOK, BlockNumber, Fit
  <2>4. Numbers'
    BY <2>1, <2>2 DEF NotesInv, Numbers
  <2>5. FromRead'
    BY <2>1, FromReadStays DEF NotesInv
  <2> QED BY <2>1, <2>3, <2>4, <2>5 DEF NotesInv, OneForAnId, DeletedStaysDeleted
<1> QED BY <1>1, <1>2

------------------------------------------------------------------------------
(* With nodes that do not lag. *)

\* A range is read and told as a whole.
LEMMA RangeTold ==
    ASSUME Assumptions, ChainAssumption, NotesInv, ToldInv, NEW w \in running, WatchContract(w)
    PROVE  ToldInv'
<1>1. PICK c \in Source, from \in 0..MaxBlock, to \in 0..MaxBlock,
           h \in {head[n] : n \in Node}, g \in {head[n] : n \in Node} :
              ReadsRange(w, c, from, to, h, g)
  BY NewRange
<1> DEFINE p == <<w.type, c>>
           new == {Note(w, r) : r \in {x \in Entries(w, c, from, to, h) : Reported(w, x[2], g)}}
<1>2. /\ notes' = notes \union new
      /\ number' = [number EXCEPT ![p] = to]
      /\ number[p] < from /\ from <= to /\ to <= Len(chain)
      /\ \/ from = number[p] + 1 /\ first' = first
         \/ number[p] = -1 /\ first' = [first EXCEPT ![p] = from]
      /\ p \in WatcherType \X Source
  BY <1>1 DEF ReadsRange
<1>3. UNCHANGED <<chain, head, listed, running, gone>>
  BY DEF WatchContract, chainVars
<1>4. /\ h = Len(chain) /\ g = Len(chain) /\ Len(chain) \in Nat /\ MaxBlock \in Nat
      /\ \A q \in WatcherType \X Source : number[q] \in Int /\ first[q] \in Int
  BY NoteBounds DEF ToldInv, NotesInv, NotesTypes, ChainTypeOK
<1> HIDE DEF p
<1>5. \A q \in WatcherType \X Source :
         /\ number'[q] = IF q = p THEN to ELSE number[q]
         /\ \/ first'[q] = first[q] /\ (q = p => from = number[p] + 1)
            \/ q = p /\ first'[q] = from
  BY <1>2, <1>4 DEF NotesInv, NotesTypes
<1>6. ASSUME NEW v \in running, NEW r \in Block \X Event, HasRead(v, r)', ~HasRead(v, r)
      PROVE  v = w /\ r \in Entries(w, c, from, to, h)
  <2> DEFINE q == <<v.type, r[2].at>>
  <2>1. /\ r[1] <= Len(chain) /\ r[2] \in chain[r[1]] /\ r[2].kind = v.event
        /\ r[2].at \in Source /\ first'[q] <= r[1] /\ r[1] <= number'[q]
    BY <1>3, <1>6 DEF HasRead, Block, Source
  <2>2. q \in WatcherType \X Source
    BY <2>1 DEF WatcherType
  <2>3. ~(first[q] <= r[1] /\ r[1] <= number[q])
    BY <1>6, <2>1 DEF HasRead
  <2> HIDE DEF q
  <2>4. q = p
    BY <1>5, <2>1, <2>2, <2>3
  <2>5. v = w /\ r[2].at = c
    BY <2>4 DEF q, p, NotesInv, NotesTypes, Fit
  <2>6. r[1] \in Int
    BY <1>4 DEF Block
  <2>7. from <= r[1] /\ r[1] <= to
    <3>1. number[p] \in Int /\ first'[p] <= r[1] /\ r[1] <= number'[p] /\ number'[p] = to
          /\ ~(first[p] <= r[1] /\ r[1] <= number[p])
      BY <1>2, <1>4, <1>5, <2>1, <2>3, <2>4
    <3>2. CASE first'[p] = from
      BY <3>1, <3>2
    <3>3. CASE first'[p] = first[p] /\ from = number[p] + 1
      BY <2>6, <3>1, <3>3
    <3> QED BY <1>2, <1>5, <3>2, <3>3
  <2> QED BY <1>4, <2>1, <2>5, <2>6, <2>7 DEF Entries
<1>7. ASSUME NEW v \in running, NEW r \in Block \X Event, HasRead(v, r)', Reported(v, r[2], r[1])'
      PROVE  Told(v, r)'
  <2>1. Reported(v, r[2], r[1])
    BY <1>3, <1>7 DEF Reported, RegisteredAt, Block, Source
  <2>2. CASE HasRead(v, r)
    <3>1. Told(v, r)
      BY <2>1, <2>2 DEF ToldInv
    <3> HIDE DEF new
    <3> QED BY <1>2, <1>3, <3>1 DEF Told, Whom
  <2>3. CASE ~HasRead(v, r)
    <3>1. v = w /\ r \in Entries(w, c, from, to, h)
      BY <1>6, <1>7, <2>3
    <3>2. r[1] <= g /\ r[1] \in Int
      BY <1>4, <3>1 DEF Entries, Block
    <3>3. Reported(w, r[2], g)
      BY <1>4, <2>1, <3>1, <3>2 DEF Reported, RegisteredAt, Block
    <3>4. Note(w, r) \in notes'
      BY <1>2, <3>1, <3>3
    <3> QED BY <3>1, <3>4 DEF Told, Note, NotificationId, Whom
  <2> QED BY <2>2, <2>3
<1> QED BY <1>3, <1>7 DEF ToldInv, Block

\* ToldInv is inductive where there is one node.
LEMMA ToldInvariant ==
    ASSUME \A m, n \in Node : m = n
    PROVE  Assumptions /\ ChainAssumption /\ NotesInv /\ ToldInv /\ [Step]_noteVars => ToldInv'
<1> SUFFICES ASSUME Assumptions, ChainAssumption, NotesInv, ToldInv, [Step]_noteVars
             PROVE  ToldInv'
  OBVIOUS
<1>1. ASSUME UNCHANGED <<chain, head, listed, number, running, first>>,
             \A w, r : Told(w, r) => Told(w, r)'
      PROVE  ToldInv'
  <2>1. \A w, r : Reported(w, r[2], r[1])' <=> Reported(w, r[2], r[1])
    BY <1>1 DEF Reported, RegisteredAt, Block, Source
  <2> QED BY <1>1, <2>1, FromReadStays DEF ToldInv, Block
<1>2. CASE \E w \in running : WatchContract(w)
  BY <1>2, RangeTold
<1>3. CASE UNCHANGED noteVars
            \/ \E w \in running : \/ \E contracts \in Seq(Source) : Begin(w, contracts)
                                  \/ UpToDate(w) \/ LogsFail(w) \/ EndPass(w)
  <2>1. UNCHANGED <<chain, head, listed, notes, number, running, first, gone>>
    BY <1>3, LoopKeeps DEF noteVars, chainVars
  <2> QED BY <1>1, <2>1 DEF Told, Whom
<1>4. CASE Api
  <2>1. /\ UNCHANGED <<chain, head, listed, number, running, first>>
        /\ \A n \in notes : \/ n.id \in gone'
                            \/ \E m \in notes' : m.id = n.id /\ m.type = n.type
                                                 /\ m.address = n.address
        /\ gone \subseteq gone'
    BY <1>4, ApiKeeps
  <2>2. \A w, r : Told(w, r) => Told(w, r)'
    BY <2>1 DEF Told, Whom
  <2> QED BY <1>1, <2>1, <2>2
<1>5. CASE ChainNext /\ NotificationsFrame
  <2>1. UNCHANGED <<notes, number, running, todo, latest, failures, first, gone>>
    BY <1>5 DEF NotificationsFrame
  <2>2. /\ Len(chain) \in Nat /\ Len(chain') \in Nat /\ Len(chain) <= Len(chain')
        /\ \A b \in 1..Len(chain) : chain'[b] = chain[b]
        /\ \A n \in Node : head'[n] = Len(chain')
    BY <1>5, NoteChainTyped DEF NotesInv, NotesTypes, ToldInv
  <2>3. ASSUME NEW w \in running, NEW r \in Block \X Event, HasRead(w, r)'
        PROVE  r[1] \in 1..Len(chain) /\ HasRead(w, r)
    <3> DEFINE q == <<w.type, r[2].at>>
    <3>1. /\ r[2] \in chain'[r[1]] /\ r[2].kind = w.event /\ r[2].at \in Source
          /\ first[q] <= r[1] /\ r[1] <= number[q]
      BY <2>1, <2>3 DEF HasRead, Source
    <3>2. q \in WatcherType \X Source
      BY <3>1 DEF WatcherType
    <3> HIDE DEF q
    <3>3. number[q] \in Int /\ number[q] <= Len(chain)
      BY <3>2, NoteBounds DEF NotesInv, NotesTypes, Numbers
    <3>4. r[1] \in 1..Len(chain)
      BY <2>2, <3>1, <3>3, NoteBounds DEF Block
    <3> QED BY <2>2, <3>1, <3>4 DEF HasRead, q
  <2>4. ASSUME NEW w \in running, NEW r \in Block \X Event, r[1] \in 1..Len(chain),
               Reported(w, r[2], r[1])'
        PROVE  Reported(w, r[2], r[1])
    <3>1. \A b \in Block : b <= r[1] => /\ b <= Len(chain)
                                        /\ b <= Len(chain') => chain'[b] = chain[b]
      BY <2>2, <2>4, NoteBounds DEF Block
    <3> QED BY <2>4, <3>1 DEF Reported, RegisteredAt, Block, Source
  <2>5. \A w, r : Told(w, r)' <=> Told(w, r)
    BY <2>1 DEF Told, Whom
  <2> QED BY <2>1, <2>2, <2>3, <2>4, <2>5 DEF ToldInv, Block
<1> QED BY <1>2, <1>3, <1>4, <1>5 DEF Step

\* At first nothing is read.
LEMMA NotesBegin ==
    ASSUME NEW watchers, NotificationsAssumption(watchers), ChainAssumption, Fit(watchers),
           NotificationsInit(watchers)
    PROVE  NotesInv /\ ToldInv
<1>1. PICK types \in Groups : running = {w \in watchers : w.type \in types}
  BY DEF NotificationsInit
<1>2. /\ chain = <<>> /\ head = [n \in Node |-> 0] /\ listed = {} /\ notes = {} /\ gone = {}
      /\ number = [wc \in WatcherType \X Source |-> -1]
      /\ first = [wc \in WatcherType \X Source |-> 0]
      /\ todo = [w \in WatcherType |-> <<>>] /\ latest = [w \in WatcherType |-> 0]
      /\ failures = 0
  BY DEF NotificationsInit, ChainInit
<1>3. WatcherType = types
  BY <1>1 DEF WatcherType, NotificationsAssumption
<1>4. MaxBlock \in Nat /\ MaxFailures \in Nat
  BY NoteBounds DEF Assumptions
<1>5. NotesTypes
  <2>1. ChainTypeOK
    BY <1>2, <1>4 DEF ChainTypeOK, BlockNumber
  <2>2. Fit(running)
    BY <1>1 DEF Fit
  <2>3. \A w \in WatcherType : <<>> \in Seq(Source)
    OBVIOUS
  <2>4. todo \in [WatcherType -> Seq(Source)] /\ latest \in [WatcherType -> 0..MaxBlock]
    BY <1>2, <1>4, <2>3
  <2>5. /\ number \in [WatcherType \X Source -> -1..MaxBlock]
        /\ first \in [WatcherType \X Source -> 0..MaxBlock]
    BY <1>2, <1>4
  <2> QED BY <1>2, <1>3, <1>4, <2>1, <2>2, <2>4, <2>5 DEF NotesTypes
<1>6. \A w, r : r \in Block \X Event => ~HasRead(w, r)
  BY <1>2, <1>4 DEF HasRead, Block
<1> QED BY <1>2, <1>5, <1>6
        DEF NotesInv, Numbers, FromRead, OneForAnId, DeletedStaysDeleted, ToldInv

\* The invariants say what the run checks.
LEMMA NotesInvEnough ==
    ASSUME Assumptions, ChainAssumption, NotesInv
    PROVE  NotificationsTypeOK /\ NothingElseNotified /\ (ToldInv => EveryEventNotified)
<1>0. /\ MaxBlock \in Nat /\ Len(chain) \in Nat
      /\ \A q \in WatcherType \X Source : number[q] \in Int /\ first[q] \in Int
  BY NoteBounds DEF NotesInv, NotesTypes, ChainTypeOK
<1>1. NotificationsTypeOK
  <2>1. \A n \in notes : /\ n.id \in (Block \X Event) \X (0..2)
                         /\ n.address \in Address \union Source \union {"nobody"}
                         /\ {n.read, n.deleted} \subseteq BOOLEAN
    BY DEF NotesInv, NotesTypes, Notification
  <2>2. ASSUME NEW w \in running
        PROVE  latest[w.type] \in BlockNumber /\ ToSet(todo[w.type]) \subseteq Source
    <3>1. w.type \in WatcherType
      BY DEF WatcherType
    <3>2. latest[w.type] \in 0..MaxBlock /\ todo[w.type] \in Seq(Source)
      BY <3>1 DEF NotesInv, NotesTypes
    <3> QED BY <3>2 DEF BlockNumber, ToSet
  <2> QED BY <2>1, <2>2 DEF NotesInv, NotesTypes, OneForAnId, NotificationsTypeOK
<1>2. NothingElseNotified
  <2> SUFFICES ASSUME NEW n \in notes
               PROVE  \E w \in running :
                         /\ n.type = w.type
                         /\ \E c \in Source :
                               \E r \in Entries(w, c, first[<<w.type, c>>],
                                                 number[<<w.type, c>>], Len(chain)) :
                                  /\ n.id = NotificationId(r, w)
                                  /\ w.fromPeople => r[2].from \notin Source
                                  /\ w.registeredOnly => RegisteredAt(r[2].token, Len(chain))
    BY DEF NothingElseNotified
  <2>1. PICK w \in running, r \in Block \X Event : HasRead(w, r) /\ MadeOf(n, w, r)
    BY DEF NotesInv, FromRead
  <2> DEFINE c == r[2].at
             q == <<w.type, c>>
  <2>2. c \in Source /\ q \in WatcherType \X Source
    BY <2>1 DEF HasRead, WatcherType
  <2>3. r[1] \in first[q]..number[q] /\ r[1] <= Len(chain)
    <3> HIDE DEF c
    <3>1. first[q] <= r[1] /\ r[1] <= number[q] /\ r[1] <= Len(chain) /\ r[1] \in Int
      BY <1>0, <2>1 DEF HasRead, Block, c
    <3> HIDE DEF q
    <3> QED BY <1>0, <2>2, <3>1
  <2>4. r \in Entries(w, c, first[<<w.type, c>>], number[<<w.type, c>>], Len(chain))
    BY <2>1, <2>3 DEF Entries, HasRead
  <2>5. n.type = w.type /\ n.id = NotificationId(r, w)
        /\ (w.fromPeople => r[2].from \notin Source)
        /\ (w.registeredOnly => RegisteredAt(r[2].token, Len(chain)))
    BY <2>1 DEF MadeOf, NotificationId
  <2> HIDE DEF c, q
  <2> QED BY <2>2, <2>4, <2>5
<1>3. ASSUME ToldInv PROVE EveryEventNotified
  <2> SUFFICES ASSUME NEW w \in running, NEW c \in Source,
                      NEW r \in Entries(w, c, first[<<w.type, c>>],
                                        number[<<w.type, c>>], Len(chain)),
                      Reported(w, r[2], r[1]), NotificationId(r, w) \notin gone
               PROVE  \E n \in ListAllNotifications(Whom(r[2], w), w.type) :
                         n.id = NotificationId(r, w)
    BY DEF EveryEventNotified
  <2> DEFINE q == <<w.type, c>>
  <2>1. /\ r \in Block \X Event /\ r[1] \in first[q]..number[q] /\ r[1] <= Len(chain)
        /\ r[2] \in chain[r[1]] /\ r[2].at = c /\ r[2].kind = w.event
    BY DEF Entries
  <2>2. q \in WatcherType \X Source
    BY DEF WatcherType
  <2>3. first[q] <= r[1] /\ r[1] <= number[q]
    <3> HIDE DEF q
    <3> QED BY <1>0, <2>1, <2>2
  <2>4. HasRead(w, r)
    BY <2>1, <2>3 DEF HasRead
  <2>5. Told(w, r)
    BY <1>3, <2>1, <2>4 DEF ToldInv
  <2> QED BY <2>5 DEF Told, NotificationId, ListAllNotifications
<1> QED BY <1>1, <1>2, <1>3
===============================================================================
