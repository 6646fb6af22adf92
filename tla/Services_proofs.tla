---------------------------- MODULE Services_proofs ----------------------------
(***************************************************************************)
(* Proofs about Services: the importers of published lists, the mail and   *)
(* webhook queues, the transaction API, the cache of token details, the    *)
(* client of the monitored nodes, and the monitor itself.                  *)
(***************************************************************************)
EXTENDS Services, SequenceTheorems, FiniteSetTheorems, WellFoundedInduction, TLAPS

------------------------------------------------------------------------------
(* The importers of published lists. *)

Contents == {0} \union {i.content : i \in UNION {Lists!ToSet(d) : d \in Document}}

\* The table after the first n items of a list.
Upserts(d, n, k) == {m \in 1..n : d[m].key = k /\ Lists!Treatment(d[m]) = "sink"}
Latest(d, S) == IF S = {} THEN 0 ELSE d[CHOOSE n \in S : \A m \in S : m <= n].content
Partial(d, n) == [k \in Lists!Key |-> Latest(d, Upserts(d, n, k))]

ListTypes ==
    /\ kind \in {"company", "token", "account"}
    /\ published \in Document /\ digest \in Document \union {Lists!NoList}
    /\ table \in [Lists!Key -> Contents]
    /\ publications \in 0..MaxPublished /\ failures \in 0..MaxFailures
    /\ spoiled \in BOOLEAN

\* What the open session sees is the image of the items it has done, the others are left.
SessionInStep ==
    \/ session = Lists!Closed
    \/ /\ digest \in Document /\ ~spoiled
       /\ session.rows \in [Lists!Key -> Contents]
       /\ \E n \in 0..Len(digest) :
             session = [open |-> TRUE, rows |-> Partial(digest, n),
                        left |-> SubSeq(digest, n + 1, Len(digest))]

\* The inductive invariant of an importer.
ListInv == ListTypes /\ SessionInStep /\ Lists!TableIsOneList /\ Lists!BehindOnlyIfSpoiled

\* A list is a sequence of items with keys and contents.
LEMMA DocumentsAreSequences ==
  ASSUME NEW d \in Document
  PROVE  /\ d \in Seq(Lists!ToSet(d)) /\ Len(d) \in Nat /\ DOMAIN d = 1..Len(d)
         /\ \A n \in 1..Len(d) : d[n].key \in Lists!Key /\ d[n].content \in Contents
BY ListAssumption DEF Lists!Assumption, Lists!ToSet, Lists!Key, Contents

\* The bounds are numbers.
LEMMA ListBounds == MaxPublished \in Nat /\ MaxFailures \in Nat
BY ListAssumption DEF Lists!Assumption

\* With no item done the session is empty, with all done it is the image of the list.
LEMMA PartialAtEnds ==
  ASSUME NEW d \in Document
  PROVE  Partial(d, 0) = Lists!Empty /\ Partial(d, Len(d)) = Lists!Image(d)
<1>1. \A k : Upserts(d, 0, k) = {}
  BY DEF Upserts
<1>2. Partial(d, 0) = Lists!Empty
  BY <1>1 DEF Partial, Latest, Lists!Empty
<1>3. ASSUME NEW k \in Lists!Key
      PROVE  Lists!Image(d)[k] = Latest(d, Upserts(d, Len(d), k))
  <2> DEFINE S == {n \in DOMAIN d : d[n].key = k /\ Lists!Treatment(d[n]) = "sink"}
  <2>1. Upserts(d, Len(d), k) = S
    BY DocumentsAreSequences DEF Upserts
  <2>2. Lists!Image(d)[k] = Latest(d, S)
    BY <1>3 DEF Lists!Image, Latest
  <2> QED
    BY <2>1, <2>2
<1>4. Partial(d, Len(d)) = Lists!Image(d)
  BY <1>3 DEF Partial, Lists!Image
<1> QED
  BY <1>2, <1>4

\* One item more: the merge replaces the row of its key.
LEMMA PartialStep ==
  ASSUME NEW d \in Document, NEW n \in 0..Len(d) - 1
  PROVE  Partial(d, n + 1) = IF Lists!Treatment(d[n + 1]) = "sink"
                             THEN Lists!Sink(Partial(d, n), d[n + 1]) ELSE Partial(d, n)
<1>1. Len(d) \in Nat
  BY DocumentsAreSequences
<1>2. ASSUME Lists!Treatment(d[n + 1]) # "sink"
      PROVE  Partial(d, n + 1) = Partial(d, n)
  <2>1. \A k : Upserts(d, n + 1, k) = Upserts(d, n, k)
    BY <1>1, <1>2 DEF Upserts
  <2> QED
    BY <2>1 DEF Partial
<1>3. ASSUME Lists!Treatment(d[n + 1]) = "sink"
      PROVE  Partial(d, n + 1) = Lists!Sink(Partial(d, n), d[n + 1])
  <2> DEFINE k0 == d[n + 1].key
             New(k) == Upserts(d, n + 1, k)
  <2>1. \A k : k # k0 => New(k) = Upserts(d, n, k)
    BY <1>1 DEF Upserts
  <2>2. n + 1 \in New(k0) /\ \A m \in New(k0) : m \in Int /\ m <= n + 1
    BY <1>1, <1>3 DEF Upserts
  <2> HIDE DEF New
  <2>3. Latest(d, New(k0)) = d[n + 1].content
    <3> DEFINE P(i) == i \in New(k0) /\ \A m \in New(k0) : m <= i
    <3>1. P(n + 1)
      BY <2>2
    <3>2. P(CHOOSE i : P(i))
      BY <3>1
    <3>3. \A i : P(i) => i = n + 1
      BY <2>2
    <3>4. (CHOOSE i : P(i)) = n + 1
      BY <3>2, <3>3
    <3> QED
      BY <2>2, <3>4 DEF Latest
  <2>4. ASSUME NEW k \in Lists!Key
        PROVE  Partial(d, n + 1)[k] = Lists!Sink(Partial(d, n), d[n + 1])[k]
    <3>1. CASE k = k0
      <4>1. Partial(d, n + 1)[k] = d[n + 1].content
        BY <2>2, <2>3, <3>1 DEF Partial, New
      <4>2. Lists!Sink(Partial(d, n), d[n + 1])[k] = d[n + 1].content
        BY <3>1 DEF Lists!Sink, Partial
      <4> QED
        BY <4>1, <4>2
    <3>2. CASE k # k0
      <4>1. Partial(d, n + 1)[k] = Partial(d, n)[k]
        BY <2>1, <3>2 DEF Partial, New
      <4>2. Lists!Sink(Partial(d, n), d[n + 1])[k] = Partial(d, n)[k]
        BY <3>2 DEF Lists!Sink, Partial
      <4> QED
        BY <4>1, <4>2
    <3> QED
      BY <3>1, <3>2
  <2> QED
    BY <2>4 DEF Partial, Lists!Sink
<1> QED
  BY <1>2, <1>3

\* ListInv holds before the first download ...
LEMMA ListsInitially == ASSUME ListsInit PROVE ListInv
<1>1. ListTypes
  <2>1. Lists!Empty \in [Lists!Key -> Contents]
    BY DEF Lists!Empty, Contents
  <2>2. 0 \in 0..MaxPublished /\ 0 \in 0..MaxFailures
    BY ListBounds
  <2> QED
    BY <2>1, <2>2 DEF ListsInit, Lists!Init, ListTypes
<1>2. SessionInStep /\ Lists!TableIsOneList /\ Lists!BehindOnlyIfSpoiled
  BY DEF ListsInit, Lists!Init, SessionInStep, Lists!TableIsOneList, Lists!BehindOnlyIfSpoiled
<1> QED
  BY <1>1, <1>2 DEF ListInv

\* The image of a list only depends on which importer it is.
LEMMA SameImporter ==
  ASSUME kind' = kind
  PROVE  /\ \A d : Lists!Image(d)' = Lists!Image(d)
         /\ \A d, n : Partial(d, n)' = Partial(d, n)
BY DEF Lists!Image, Partial, Upserts, Latest, Lists!Treatment

\* ... when another list is published ...
LEMMA ListPublished == ASSUME ListInv, Lists!Publish PROVE ListInv'
<1>1. kind' = kind /\ UNCHANGED <<digest, session, table, failures, spoiled>>
  BY DEF Lists!Publish
<1>2. ListTypes'
  BY ListBounds DEF Lists!Publish, ListInv, ListTypes
<1>3. SessionInStep'
  BY <1>1, SameImporter DEF ListInv, SessionInStep
<1>4. Lists!TableIsOneList' /\ Lists!BehindOnlyIfSpoiled'
  BY <1>1, SameImporter DEF ListInv, Lists!TableIsOneList, Lists!BehindOnlyIfSpoiled
<1> QED
  BY <1>2, <1>3, <1>4 DEF ListInv

\* ... when one is downloaded and the table cleared in the session ...
LEMMA ListGot == ASSUME ListInv, Lists!Get PROVE ListInv'
<1>1. /\ digest' = published /\ spoiled' = FALSE
      /\ session' = [open |-> TRUE, rows |-> Lists!Empty, left |-> published]
      /\ UNCHANGED <<kind, published, table, publications, failures>>
  BY DEF Lists!Get
<1>2. published \in Document
  BY DEF ListInv, ListTypes
<1>3. ListTypes'
  BY <1>1 DEF ListInv, ListTypes
<1>4. SessionInStep'
  <2>1. Lists!Empty \in [Lists!Key -> Contents]
    BY DEF Lists!Empty, Contents
  <2>2. SubSeq(published, 0 + 1, Len(published)) = published
    BY <1>2, DocumentsAreSequences, SubSeqFull
  <2>3. 0 \in 0..Len(published)
    BY <1>2, DocumentsAreSequences
  <2>4. Partial(published, 0)' = Lists!Empty
    BY <1>1, <1>2, SameImporter, PartialAtEnds
  <2> QED
    BY <1>1, <1>2, <2>1, <2>2, <2>3, <2>4 DEF SessionInStep
<1>5. Lists!TableIsOneList' /\ Lists!BehindOnlyIfSpoiled'
  BY <1>1, SameImporter DEF ListInv, Lists!TableIsOneList, Lists!BehindOnlyIfSpoiled
<1> QED
  BY <1>3, <1>4, <1>5 DEF ListInv

\* ... when an item is inserted ...
LEMMA ListItemInserted == ASSUME ListInv, Lists!InsertItem PROVE ListInv'
<1> DEFINE i == Head(session.left)
<1>1. /\ session.open /\ session.left # <<>>
      /\ session' = [open |-> TRUE,
                     rows |-> IF Lists!Treatment(i) = "sink" THEN Lists!Sink(session.rows, i)
                                                             ELSE session.rows,
                     left |-> Tail(session.left)]
      /\ UNCHANGED <<kind, published, digest, table, publications, failures, spoiled>>
  BY DEF Lists!InsertItem
<1>2. digest \in Document /\ ~spoiled /\ session.rows \in [Lists!Key -> Contents]
  BY <1>1 DEF ListInv, SessionInStep, Lists!Closed
<1>3. PICK n \in 0..Len(digest) :
        session = [open |-> TRUE, rows |-> Partial(digest, n),
                   left |-> SubSeq(digest, n + 1, Len(digest))]
  BY <1>1 DEF ListInv, SessionInStep, Lists!Closed
<1>4. /\ digest \in Seq(Lists!ToSet(digest)) /\ Len(digest) \in Nat
      /\ \A m \in 1..Len(digest) : digest[m].key \in Lists!Key /\ digest[m].content \in Contents
  BY <1>2, DocumentsAreSequences
<1>5. n < Len(digest)
  BY <1>1, <1>3, <1>4, SubSeqEmpty
<1>6. /\ i = digest[n + 1]
      /\ Tail(session.left) = SubSeq(digest, n + 2, Len(digest))
  BY <1>3, <1>4, <1>5, HeadTailOfSubSeq
<1>7. session' = [open |-> TRUE, rows |-> Partial(digest, n + 1),
                  left |-> SubSeq(digest, (n + 1) + 1, Len(digest))]
  <2>1. n \in 0..Len(digest) - 1 /\ (n + 1) + 1 = n + 2
    BY <1>4, <1>5
  <2>2. session'.rows = Partial(digest, n + 1)
    BY <1>1, <1>2, <1>3, <1>6, <2>1, PartialStep
  <2> QED
    BY <1>1, <1>6, <2>1, <2>2
<1>8. session'.rows \in [Lists!Key -> Contents]
  <2>1. i.key \in Lists!Key /\ i.content \in Contents
    BY <1>4, <1>5, <1>6
  <2> HIDE DEF i
  <2> QED BY <1>1, <1>2, <2>1 DEF Lists!Sink
<1>9. ListTypes'
  BY <1>1 DEF ListInv, ListTypes
<1>10. SessionInStep'
  <2>1. Partial(digest, n + 1)' = Partial(digest, n + 1) /\ digest' = digest
    BY <1>1, SameImporter
  <2>2. n + 1 \in 0..Len(digest)
    BY <1>4, <1>5
  <2> QED
    BY <1>1, <1>2, <1>7, <1>8, <2>1, <2>2 DEF SessionInStep
<1>11. Lists!TableIsOneList' /\ Lists!BehindOnlyIfSpoiled'
  BY <1>1, <1>7, SameImporter DEF ListInv, Lists!TableIsOneList, Lists!BehindOnlyIfSpoiled
<1> QED
  BY <1>9, <1>10, <1>11 DEF ListInv

\* ... when the session is committed ...
LEMMA ListCommitted == ASSUME ListInv, Lists!Commit PROVE ListInv'
<1>1. /\ session.open /\ session.left = <<>> /\ table' = session.rows
      /\ session' = Lists!Closed
      /\ UNCHANGED <<kind, published, digest, publications, failures, spoiled>>
  BY DEF Lists!Commit
<1>2. digest \in Document /\ session.rows \in [Lists!Key -> Contents]
  BY <1>1 DEF ListInv, SessionInStep, Lists!Closed
<1>3. PICK n \in 0..Len(digest) :
        session = [open |-> TRUE, rows |-> Partial(digest, n),
                   left |-> SubSeq(digest, n + 1, Len(digest))]
  BY <1>1 DEF ListInv, SessionInStep, Lists!Closed
<1>4. n = Len(digest)
  <2>1. digest \in Seq(Lists!ToSet(digest)) /\ Len(digest) \in Nat
    BY <1>2, DocumentsAreSequences
  <2>2. Len(SubSeq(digest, n + 1, Len(digest))) = Len(digest) - n
    BY <2>1
  <2>3. SubSeq(digest, n + 1, Len(digest)) = <<>>
    BY <1>1, <1>3
  <2> QED
    BY <2>1, <2>2, <2>3
<1>5. table' = Lists!Image(digest)'
  BY <1>1, <1>2, <1>3, <1>4, PartialAtEnds, SameImporter
<1>6. ListTypes'
  BY <1>1, <1>2 DEF ListInv, ListTypes
<1>7. SessionInStep' /\ Lists!TableIsOneList' /\ Lists!BehindOnlyIfSpoiled'
  BY <1>1, <1>2, <1>5 DEF SessionInStep, Lists!TableIsOneList, Lists!BehindOnlyIfSpoiled
<1> QED
  BY <1>6, <1>7 DEF ListInv

\* ... and when an update fails or the process restarts.
LEMMA ListGivenUp == ASSUME ListInv, Lists!UpdateFails \/ Lists!Restart PROVE ListInv'
<1>1. /\ session' = Lists!Closed
      /\ \/ spoiled' = TRUE /\ digest' = digest
         \/ spoiled' = FALSE /\ digest' = Lists!NoList
      /\ failures' = failures \/ (failures < MaxFailures /\ failures' = failures + 1)
      /\ UNCHANGED <<kind, published, table, publications>>
  BY DEF Lists!UpdateFails, Lists!Restart, Lists!RollBack
<1>2. ListTypes'
  <2>1. failures' \in 0..MaxFailures
    BY <1>1, ListBounds DEF ListInv, ListTypes
  <2> QED
    BY <1>1, <2>1 DEF ListInv, ListTypes
<1>3. SessionInStep' /\ Lists!TableIsOneList' /\ Lists!BehindOnlyIfSpoiled'
  BY <1>1, SameImporter DEF ListInv, SessionInStep, Lists!TableIsOneList, Lists!BehindOnlyIfSpoiled,
                             Lists!Empty
<1> QED
  BY <1>2, <1>3 DEF ListInv

\* Every step of an importer keeps ListInv.
LEMMA ListsStepKeeps == ASSUME ListInv, ListsStep PROVE ListInv'
<1>1. Lists!Next
  BY DEF ListsStep
<1> QED
  BY <1>1, ListPublished, ListGot, ListItemInserted, ListCommitted, ListGivenUp
     DEF Lists!Next, Lists!Import

\* Whatever lists are published and whichever updates fail at any item, the table is empty
\* or the image of one list, and behind the remembered digest only after a failed update.
THEOREM TableIsOneListAlways == ServicesSpec => []TableIsOneList
<1> DEFINE Inv == which = "lists" => ListInv
<1>1. ServicesInit => Inv
  BY ListsInitially DEF ServicesInit, MonitorInit, CacheInit, MailInit, EthInit
<1>2. Inv /\ [ServicesNext]_serviceVars => Inv'
  <2> SUFFICES ASSUME Inv, [ServicesNext]_serviceVars, which' = "lists" PROVE ListInv'
    OBVIOUS
  <2>1. CASE ServicesNext
    <3>1. which = "lists" /\ ListsStep
      BY <2>1 DEF ServicesNext, MonitorStep, CacheStep, MailStep, EthStep
    <3> QED
      BY <3>1, ListsStepKeeps
  <2>2. CASE UNCHANGED serviceVars
    <3>1. /\ which' = which
          /\ UNCHANGED <<kind, published, digest, session, table, publications, spoiled, failures>>
      BY <2>2 DEF serviceVars, listOnly
    <3>2. ListTypes'
      BY <3>1 DEF ListInv, ListTypes
    <3>3. SessionInStep' /\ Lists!TableIsOneList' /\ Lists!BehindOnlyIfSpoiled'
      BY <3>1, SameImporter
         DEF ListInv, SessionInStep, Lists!TableIsOneList, Lists!BehindOnlyIfSpoiled
    <3> QED
      BY <3>1, <3>2, <3>3 DEF ListInv
  <2> QED
    BY <2>1, <2>2
<1>3. Inv => TableIsOneList
  BY DEF TableIsOneList, ListInv, ListTypes, Lists!TypeOK, Contents
<1> QED
  BY <1>1, <1>2, <1>3, PTL DEF ServicesSpec

------------------------------------------------------------------------------
(* The queues of mails and chat messages. *)

\* The row a sender is at, if it is at one.
Rows == {Mails!NoRow} \union [step : {"delete"}, message : Message, then : {"next", "end"}]

Working(m) == \E s \in Mails!Sender : current[s] # Mails!NoRow /\ current[s].message = m

MailTypes ==
    /\ posted \subseteq Message /\ queue \subseteq posted
    /\ batch \in [Mails!Sender -> SUBSET Message]
    /\ current \in [Mails!Sender -> Rows]
    /\ sent \in [Message -> Nat] /\ failures \in 0..MaxFailures
    /\ tried \subseteq Message

\* What a sender still has to do is in its table, and the row it is at is the only one
\* that was handled and is still there.
SendersInStep ==
    \A s \in Mails!Sender :
        /\ batch[s] \subseteq queue \intersect Mails!TableOf(s)
        /\ current[s] # Mails!NoRow =>
              LET m == current[s].message
              IN  /\ m \in (queue \intersect Mails!TableOf(s)) \ batch[s]
                  /\ sent[m] > 0 \/ m \in Barred \/ m \in tried

\* A copy more than there were failures is only out while its row waits for its deletion.
CopiesCounted ==
    \A m \in Message :
        /\ sent[m] <= 1 + failures
        /\ m \in queue /\ ~Working(m) => sent[m] <= failures
        /\ m \notin posted => sent[m] = 0
        /\ m \in Barred => sent[m] = 0

\* The inductive invariant of the queues.
MailInv == MailTypes /\ SendersInStep /\ CopiesCounted /\ Mails!NoMessageLost

\* A row that is to be deleted is a row.
LEMMA NoRowIsNoRow ==
  ASSUME NEW m, NEW how PROVE [step |-> "delete", message |-> m, then |-> how] # Mails!NoRow
BY DEF Mails!NoRow

\* MailInv holds of empty queues.
LEMMA MailInitially == ASSUME MailInit PROVE MailInv
<1> USE MailAssumption DEF Mails!Assumption
<1>1. MailTypes
  BY DEF MailInit, Mails!Init, MailTypes, Rows
<1>2. SendersInStep
  BY DEF MailInit, Mails!Init, SendersInStep
<1>3. CopiesCounted /\ Mails!NoMessageLost
  BY DEF MailInit, Mails!Init, CopiesCounted, Mails!NoMessageLost
<1> QED
  BY <1>1, <1>2, <1>3 DEF MailInv

\* New messages are in the queue, unsent, and no sender is at them.
LEMMA MailPosted ==
  ASSUME MailInv, Mails!SendMail \/ Mails!SendChatWebhook
  PROVE  MailInv'
<1> USE MailAssumption DEF Mails!Assumption
<1>1. PICK M \in SUBSET (Message \ posted) :
        /\ posted' = posted \union M /\ queue' = queue \union M
        /\ UNCHANGED <<batch, current, sent, tried, failures>>
  <2>1. CASE Mails!SendMail
    BY <2>1 DEF Mails!SendMail, Mails!TableOf
  <2>2. CASE Mails!SendChatWebhook
    <3>1. PICK m \in Chat \ posted : posted' = posted \union {m} /\ queue' = queue \union {m}
      BY <2>2 DEF Mails!SendChatWebhook
    <3>2. {m} \in SUBSET (Message \ posted)
      OBVIOUS
    <3> QED
      BY <2>2, <3>1, <3>2 DEF Mails!SendChatWebhook
  <2> QED
    BY <2>1, <2>2
<1>2. MailTypes'
  BY <1>1 DEF MailInv, MailTypes
<1>3. SendersInStep'
  BY <1>1 DEF MailInv, SendersInStep
<1>4. CopiesCounted'
  BY <1>1 DEF MailInv, MailTypes, CopiesCounted, Working
<1>5. Mails!NoMessageLost'
  BY <1>1 DEF MailInv, Mails!NoMessageLost
<1> QED
  BY <1>2, <1>3, <1>4, <1>5 DEF MailInv

\* Reading the table puts no sender out of step.
LEMMA MailRead ==
  ASSUME MailInv, NEW s \in Mails!Sender, Mails!ReadTable(s)
  PROVE  MailInv'
<1>1. /\ batch' = [batch EXCEPT ![s] = queue \intersect Mails!TableOf(s)]
      /\ current[s] = Mails!NoRow
      /\ UNCHANGED <<posted, queue, current, sent, tried, failures>>
  BY DEF Mails!ReadTable
<1>2. MailTypes'
  BY <1>1 DEF MailInv, MailTypes
<1>3. SendersInStep'
  BY <1>1 DEF MailInv, MailTypes, SendersInStep
<1>4. CopiesCounted' /\ Mails!NoMessageLost'
  BY <1>1 DEF MailInv, CopiesCounted, Working, Mails!NoMessageLost
<1> QED
  BY <1>2, <1>3, <1>4 DEF MailInv

\* The two tables are disjoint: what one sender does leaves the row of the other alone.
LEMMA MailHandled ==
  ASSUME MailInv, NEW s \in Mails!Sender, Mails!Skip(s) \/ Mails!Send(s) \/ Mails!SendFails(s)
  PROVE  MailInv'
<1> USE MailAssumption DEF Mails!Assumption
<1>1. PICK m \in batch[s], how \in {"next", "end"} :
        /\ current[s] = Mails!NoRow
        /\ Mails!Done(s, m, how)
        /\ UNCHANGED <<posted, queue>>
        /\ \/ m \in Barred /\ UNCHANGED <<sent, tried, failures>>
           \/ /\ m \notin Barred /\ sent' = [sent EXCEPT ![m] = @ + 1]
              /\ UNCHANGED <<tried, failures>>
           \/ /\ m \notin Barred /\ tried' = tried \union {m} /\ failures < MaxFailures
              /\ failures' = failures + 1 /\ UNCHANGED sent
  <2>1. CASE Mails!Skip(s)
    BY <2>1 DEF Mails!Skip
  <2>2. CASE Mails!Send(s)
    BY <2>2 DEF Mails!Send
  <2>3. CASE Mails!SendFails(s)
    BY <2>3 DEF Mails!SendFails
  <2> QED
    BY <2>1, <2>2, <2>3
<1> DEFINE done == [step |-> "delete", message |-> m, then |-> how]
<1>2. /\ batch' = [batch EXCEPT ![s] = @ \ {m}]
      /\ current' = [current EXCEPT ![s] = done]
  BY <1>1 DEF Mails!Done
<1>3. m \in queue \intersect Mails!TableOf(s) /\ m \in Message /\ m \in posted
  BY <1>1 DEF MailInv, MailTypes, SendersInStep
<1>4. done \in Rows /\ done # Mails!NoRow /\ done.message = m
  BY <1>3, NoRowIsNoRow DEF Rows
<1> HIDE DEF done
<1>5. MailTypes'
  BY <1>1, <1>2, <1>3, <1>4 DEF MailInv, MailTypes
<1>6. /\ current'[s] = done /\ batch'[s] = batch[s] \ {m}
      /\ \A q \in Mails!Sender \ {s} : /\ current'[q] = current[q] /\ batch'[q] = batch[q]
                                       /\ m \notin Mails!TableOf(q)
  BY <1>2, <1>3 DEF MailInv, MailTypes, Mails!Sender, Mails!TableOf
<1>7. \A k \in Message : sent'[k] >= sent[k]
  BY <1>1 DEF MailInv, MailTypes
<1>8. sent'[m] > 0 \/ m \in Barred \/ m \in tried'
  BY <1>1, <1>3 DEF MailInv, MailTypes
<1>9. SendersInStep'
  <2> SUFFICES ASSUME NEW q \in Mails!Sender
               PROVE  /\ batch'[q] \subseteq queue' \intersect Mails!TableOf(q)
                      /\ current'[q] # Mails!NoRow =>
                           LET k == current'[q].message
                           IN  /\ k \in (queue' \intersect Mails!TableOf(q)) \ batch'[q]
                               /\ sent'[k] > 0 \/ k \in Barred \/ k \in tried'
    BY DEF SendersInStep, Mails!NoRow, Mails!TableOf
  <2>1. CASE q = s
    BY <1>1, <1>3, <1>4, <1>6, <1>8, <2>1 DEF MailInv, SendersInStep
  <2>2. CASE q # s
    BY <1>1, <1>6, <1>7, <2>2 DEF MailInv, MailTypes, SendersInStep
  <2> QED
    BY <2>1, <2>2
<1>10. ~Working(m)
  BY <1>1, <1>3, <1>6 DEF MailInv, SendersInStep, Working
<1>11. Working(m)' /\ \A k \in Message \ {m} : Working(k)' = Working(k)
  BY <1>1, <1>4, <1>6 DEF Working, Mails!NoRow
<1>12. CopiesCounted'
  <2> SUFFICES ASSUME NEW k \in Message
               PROVE  /\ sent'[k] <= 1 + failures'
                      /\ k \in queue' /\ ~Working(k)' => sent'[k] <= failures'
                      /\ k \notin posted' => sent'[k] = 0
                      /\ k \in Barred => sent'[k] = 0
    BY DEF CopiesCounted
  <2>1. CASE k = m
    BY <1>1, <1>3, <1>10, <1>11, <2>1 DEF MailInv, MailTypes, CopiesCounted
  <2>2. CASE k # m
    BY <1>1, <1>11, <2>2 DEF MailInv, MailTypes, CopiesCounted
  <2> QED
    BY <2>1, <2>2
<1>13. Mails!NoMessageLost'
  BY <1>1, <1>7 DEF MailInv, MailTypes, Mails!NoMessageLost
<1> QED
  BY <1>5, <1>9, <1>12, <1>13 DEF MailInv

\* A row goes only when its message was sent or given up.
LEMMA MailDeleted ==
  ASSUME MailInv, NEW s \in Mails!Sender, Mails!Delete(s)
  PROVE  MailInv'
<1> DEFINE m == current[s].message
<1>1. /\ current[s] # Mails!NoRow
      /\ queue' = queue \ {m}
      /\ current' = [current EXCEPT ![s] = Mails!NoRow]
      /\ batch' = [batch EXCEPT ![s] = IF current[s].then = "end" THEN {} ELSE @]
      /\ UNCHANGED <<posted, sent, tried, failures>>
  BY DEF Mails!Delete
<1>2. /\ m \in (queue \intersect Mails!TableOf(s)) \ batch[s]
      /\ sent[m] > 0 \/ m \in Barred \/ m \in tried
  BY <1>1 DEF MailInv, SendersInStep
<1>3. m \in Message
  BY <1>2 DEF MailInv, MailTypes
<1> HIDE DEF m
<1>4. MailTypes'
  BY <1>1 DEF MailInv, MailTypes, Rows
<1>5. /\ current'[s] = Mails!NoRow /\ batch'[s] \subseteq batch[s]
      /\ \A q \in Mails!Sender \ {s} : /\ current'[q] = current[q] /\ batch'[q] = batch[q]
                                       /\ m \notin Mails!TableOf(q)
  BY <1>1, <1>2 DEF MailInv, MailTypes, Mails!Sender, Mails!TableOf
<1>6. SendersInStep'
  <2> SUFFICES ASSUME NEW q \in Mails!Sender
               PROVE  /\ batch'[q] \subseteq queue' \intersect Mails!TableOf(q)
                      /\ current'[q] # Mails!NoRow =>
                           LET k == current'[q].message
                           IN  /\ k \in (queue' \intersect Mails!TableOf(q)) \ batch'[q]
                               /\ sent'[k] > 0 \/ k \in Barred \/ k \in tried'
    BY DEF SendersInStep, Mails!NoRow, Mails!TableOf
  <2> QED
    BY <1>1, <1>2, <1>5 DEF MailInv, SendersInStep
<1>7. \A k \in Message \ {m} : Working(k)' = Working(k)
  BY <1>1, <1>5 DEF Working, Mails!NoRow, m
<1>8. CopiesCounted'
  BY <1>1, <1>7 DEF MailInv, CopiesCounted
<1>9. Mails!NoMessageLost'
  BY <1>1, <1>2 DEF MailInv, Mails!NoMessageLost
<1> QED
  BY <1>4, <1>6, <1>8, <1>9 DEF MailInv

\* A sender that stops forgets its batch, and the rows stay.
LEMMA MailStopped ==
  ASSUME MailInv, NEW s \in Mails!Sender, Mails!Stop(s)
  PROVE  MailInv'
<1> USE MailAssumption DEF Mails!Assumption
<1>1. /\ failures < MaxFailures
      /\ batch' = [batch EXCEPT ![s] = {}]
      /\ current' = [current EXCEPT ![s] = Mails!NoRow]
      /\ failures' = failures + 1
      /\ UNCHANGED <<posted, queue, sent, tried>>
  BY DEF Mails!Stop
<1>2. MailTypes'
  BY <1>1 DEF MailInv, MailTypes, Rows
<1>3. SendersInStep'
  BY <1>1 DEF MailInv, MailTypes, SendersInStep, Mails!NoRow, Mails!TableOf
<1>4. CopiesCounted'
  BY <1>1 DEF MailInv, MailTypes, CopiesCounted
<1>5. Mails!NoMessageLost'
  BY <1>1 DEF MailInv, Mails!NoMessageLost
<1> QED
  BY <1>2, <1>3, <1>4, <1>5 DEF MailInv

\* Every step of the queues keeps MailInv.
LEMMA MailStepKeeps == ASSUME MailInv, MailStep PROVE MailInv'
<1>1. Mails!Next
  BY DEF MailStep
<1> QED
  BY <1>1, MailPosted, MailRead, MailHandled, MailDeleted, MailStopped
     DEF Mails!Next, Mails!Process

\* MailInv says what the run checks.
LEMMA MailInvEnough ==
  ASSUME MailInv PROVE Mails!TypeOK /\ Mails!NoMessageLost /\ Mails!NoNeedlessCopies
<1>1. Mails!TypeOK
  BY MailAssumption DEF MailInv, MailTypes, CopiesCounted, Mails!TypeOK, Mails!Assumption
<1>2. Mails!NoNeedlessCopies
  BY MailAssumption
     DEF MailInv, MailTypes, CopiesCounted, Working, Mails!NoNeedlessCopies, Mails!Assumption
<1> QED
  BY <1>1, <1>2 DEF MailInv

\* Whatever the senders and their stops do, a message leaves the queue only when it was sent,
\* tried or barred, and goes out at most once more than there were failures.
THEOREM MessagesSentOnceAlways == ServicesSpec => []MessagesSentOnce
<1> DEFINE Inv == which = "mail" => MailInv
<1>1. ServicesInit => Inv
  BY MailInitially DEF ServicesInit, MonitorInit, CacheInit, ListsInit, EthInit
<1>2. Inv /\ [ServicesNext]_serviceVars => Inv'
  <2> SUFFICES ASSUME Inv, [ServicesNext]_serviceVars, which' = "mail" PROVE MailInv'
    OBVIOUS
  <2>1. CASE ServicesNext
    <3>1. which = "mail" /\ MailStep
      BY <2>1 DEF ServicesNext, MonitorStep, CacheStep, ListsStep, EthStep
    <3> QED
      BY <3>1, MailStepKeeps
  <2>2. CASE UNCHANGED serviceVars
    <3>1. UNCHANGED <<which, posted, queue, batch, current, tried, failures, sent>>
      BY <2>2 DEF serviceVars, mailOnly
    <3> QED
      BY <3>1 DEF MailInv, MailTypes, SendersInStep, CopiesCounted, Working, Mails!NoMessageLost
  <2> QED
    BY <2>1, <2>2
<1>3. Inv => MessagesSentOnce
  BY MailInvEnough DEF MessagesSentOnce
<1> QED
  BY <1>1, <1>2, <1>3, PTL DEF ServicesSpec

------------------------------------------------------------------------------
(* Requests that send transactions. *)

ForToken(t) == t.decodes /\ t.to = ListedToken
Known == pool \union mined

EthTypes ==
    /\ pool \subseteq Eth!Tx /\ mined \subseteq Eth!Tx /\ IsFiniteSet(mined)
    /\ suspended \in BOOLEAN /\ switches \in 0..MaxSwitches /\ faults \in 0..NodeFaults
    /\ step \in [Request -> Eth!Steps] /\ index \in [Request -> Nat]
    /\ result \in [Request -> Seq(0..4)]
    /\ sent \in [Request -> SUBSET Eth!Tx]
    /\ barred \in [Request -> BOOLEAN]

\* The pool and the chain hold one transaction for a nonce of a sender at most, and the
\* chain those below the next nonce.
NoncesInOrder ==
    /\ \A t \in Known : Eth!Sendable(t)
    /\ \A t \in mined : t.nonce < Eth!NextNonce(t.sender)
    /\ \A t \in pool : t.nonce >= Eth!NextNonce(t.sender)
    /\ \A t, u \in Known : t.sender = u.sender /\ t.nonce = u.nonce => t = u

\* How much a handler has answered, and that what it waits for was accepted.
HandlerInStep(r) ==
    /\ index[r] \in DOMAIN Raw[r] /\ Len(result[r]) <= Len(Raw[r])
    /\ step[r] \in {"idle", "check", "pause", "refused"} => result[r] = <<>> /\ sent[r] = {}
    /\ step[r] \in {"send", "wait", "inspect"} => Len(result[r]) = index[r] - 1
    /\ step[r] \in {"wait", "inspect"} => Eth!Current(r) \in Known
    /\ step[r] = "done" => Len(result[r]) = Len(Raw[r])

\* While the token is suspended, the checks pass no transaction for it.
ChecksInStep(r) ==
    barred[r] =>
        /\ step[r] # "idle"
        /\ step[r] = "check" => suspended /\ \A i \in 1..index[r] - 1 : ~ForToken(Raw[r][i])
        /\ step[r] \notin {"check", "refused"} => \A i \in DOMAIN Raw[r] : ~ForToken(Raw[r][i])

\* What answer a of a transaction rests on, now and from now on.
Explained(r, t, a) ==
    /\ a = 1 => IF r \in NoWait THEN t \in Known ELSE t \in mined /\ ~t.reverts
    /\ a \in {2, 4} => t \in Known
    /\ a = 3 => t.nonce < Eth!NextNonce(t.sender)
    /\ a = 0 => \/ t \in doubted \/ t.reverts \/ ~Eth!Sendable(t)
                \/ \E u \in Known : u # t /\ u.sender = t.sender /\ u.nonce = t.nonce
AnswersExplained(r) == \A i \in DOMAIN result[r] : Explained(r, Raw[r][i], result[r][i])

RequestInv(r) == HandlerInStep(r) /\ ChecksInStep(r) /\ AnswersExplained(r)

\* The inductive invariant of the transaction API.
EthInv == EthTypes /\ NoncesInOrder /\ \A r \in Request : RequestInv(r)

\* A request carries transactions.
LEMMA RawTransactions ==
  ASSUME NEW r \in Request
  PROVE  /\ Len(Raw[r]) \in Nat \ {0} /\ DOMAIN Raw[r] = 1..Len(Raw[r])
         /\ \A i \in DOMAIN Raw[r] : Raw[r][i] \in Eth!Tx
<1>1. Raw[r] \in Seq({Raw[r][i] : i \in DOMAIN Raw[r]}) \ {<<>>}
  BY EthAssumption DEF Eth!Assumption
<1>2. Len(Raw[r]) \in Nat \ {0} /\ DOMAIN Raw[r] = 1..Len(Raw[r])
  BY <1>1, EmptySeq
<1> QED
  BY <1>2 DEF Eth!Tx

\* The instance has the operator of FiniteSets under a name of its own.
LEMMA SameCardinality == \A S : Eth!Cardinality(S) = Cardinality(S)
BY DEF Eth!Cardinality, Cardinality

\* Nonces are numbers.
LEMMA Nonces ==
  /\ \A t \in Eth!Tx : t.nonce \in Nat
  /\ EthTypes => \A a : Eth!NextNonce(a) \in Nat
<1>1. ASSUME NEW t \in Eth!Tx PROVE t.nonce \in Nat
  <2>1. PICK r \in Request : \E i \in DOMAIN Raw[r] : t = Raw[r][i]
    BY DEF Eth!Tx
  <2>2. \A i \in DOMAIN Raw[r] : Raw[r][i].nonce \in Nat
    BY EthAssumption DEF Eth!Assumption
  <2> QED
    BY <2>1, <2>2
<1>2. ASSUME EthTypes, NEW a PROVE Eth!NextNonce(a) \in Nat
  <2>1. IsFiniteSet({t \in mined : t.sender = a})
    BY <1>2, FS_Subset DEF EthTypes
  <2> QED
    BY <2>1, FS_CardinalityType, SameCardinality DEF Eth!NextNonce
<1> QED
  BY <1>1, <1>2

\* EthInv holds before any request.
LEMMA EthInitially == ASSUME EthInit PROVE EthInv
<1>1. EthTypes
  <2>1. 0 \in 0..MaxSwitches /\ 0 \in 0..NodeFaults
    BY EthAssumption DEF Eth!Assumption
  <2> QED
    BY <2>1, FS_EmptySet DEF EthInit, Eth!Init, EthTypes, Eth!Steps
<1>2. NoncesInOrder
  BY DEF EthInit, Eth!Init, NoncesInOrder, Known
<1>3. ASSUME NEW r \in Request PROVE RequestInv(r)
  <2>1. /\ step[r] = "idle" /\ index[r] = 1 /\ result[r] = <<>> /\ sent[r] = {} /\ barred[r] = FALSE
    BY DEF EthInit, Eth!Init
  <2> QED
    BY <2>1, RawTransactions DEF RequestInv, HandlerInStep, ChecksInStep, AnswersExplained
<1> QED
  BY <1>1, <1>2, <1>3 DEF EthInv

------------------------------------------------------------------------------
(* Steps of the node. *)

\* A mined transaction raises the next nonce of its sender by one, and of nobody else.
LEMMA NextNonceMined ==
  ASSUME EthInv, NEW t \in pool, t.nonce = Eth!NextNonce(t.sender), mined' = mined \union {t}
  PROVE  /\ IsFiniteSet(mined')
         /\ Eth!NextNonce(t.sender)' = Eth!NextNonce(t.sender) + 1
         /\ \A a : a # t.sender => Eth!NextNonce(a)' = Eth!NextNonce(a)
<1> DEFINE Of(a) == {u \in mined : u.sender = a}
<1>1. IsFiniteSet(mined') /\ \A a : IsFiniteSet(Of(a))
  BY FS_AddElement, FS_Subset DEF EthInv, EthTypes
<1>2. t \notin mined
  BY Nonces DEF EthInv, EthTypes, NoncesInOrder
<1>3. {u \in mined' : u.sender = t.sender} = Of(t.sender) \union {t}
  OBVIOUS
<1>4. \A a : a # t.sender => {u \in mined' : u.sender = a} = Of(a)
  OBVIOUS
<1>5. Cardinality(Of(t.sender) \union {t}) = Cardinality(Of(t.sender)) + 1
  <2>1. t \notin Of(t.sender) /\ IsFiniteSet(Of(t.sender))
    BY <1>1, <1>2
  <2> HIDE DEF Of
  <2> QED
    BY <2>1, FS_AddElement
<1> QED
  BY <1>1, <1>3, <1>4, <1>5, SameCardinality DEF Eth!NextNonce

\* What happened to a transaction once stays true.
LEMMA StaysExplained ==
  ASSUME NEW r \in Request, NEW t, NEW a, Explained(r, t, a),
         Known \subseteq Known', mined \subseteq mined', doubted \subseteq doubted',
         t.nonce < Eth!NextNonce(t.sender) => t.nonce < Eth!NextNonce(t.sender)'
  PROVE  Explained(r, t, a)'
BY DEF Explained, Eth!Sendable

\* Mining answers no request and sends nothing.
LEMMA EthMined == ASSUME EthInv, Eth!MineBlock PROVE EthInv'
<1>1. PICK t \in pool : /\ t.nonce = Eth!NextNonce(t.sender)
                        /\ mined' = mined \union {t} /\ pool' = pool \ {t}
  BY DEF Eth!MineBlock
<1>2. UNCHANGED <<suspended, switches, step, index, result, faults, sent, barred, doubted>>
  BY DEF Eth!MineBlock, Eth!handling, Eth!history
<1>3. /\ IsFiniteSet(mined')
      /\ Eth!NextNonce(t.sender)' = Eth!NextNonce(t.sender) + 1
      /\ \A a : a # t.sender => Eth!NextNonce(a)' = Eth!NextNonce(a)
  BY <1>1, NextNonceMined
<1>4. EthTypes'
  BY <1>1, <1>2, <1>3 DEF EthInv, EthTypes
<1>5. Known' = Known
  BY <1>1 DEF Known
<1>6. /\ \A a : Eth!NextNonce(a) \in Nat
      /\ \A u \in Known : u.nonce \in Nat
  BY Nonces DEF EthInv, EthTypes, Known
<1>7. \A u \in Known : u.nonce < Eth!NextNonce(u.sender) => u.nonce < Eth!NextNonce(u.sender)'
  BY <1>3, <1>6
<1>8. NoncesInOrder'
  <2>1. \A u \in Known' : Eth!Sendable(u)
    BY <1>5 DEF EthInv, NoncesInOrder
  <2>2. \A u \in mined' : u.nonce < Eth!NextNonce(u.sender)'
    BY <1>1, <1>3, <1>6, <1>7 DEF EthInv, NoncesInOrder, Known
  <2>3. \A u \in pool' : u.nonce >= Eth!NextNonce(u.sender)'
    BY <1>1, <1>3, <1>6 DEF EthInv, NoncesInOrder, Known
  <2> QED
    BY <1>5, <2>1, <2>2, <2>3 DEF EthInv, NoncesInOrder, Eth!Sendable
<1>9. ASSUME NEW r \in Request PROVE RequestInv(r)'
  <2>1. HandlerInStep(r)' /\ ChecksInStep(r)'
    BY <1>2, <1>5 DEF EthInv, RequestInv, HandlerInStep, ChecksInStep, Eth!Current
  <2>2. ASSUME NEW i \in DOMAIN result[r] PROVE Explained(r, Raw[r][i], result[r][i])'
    <3>1. Raw[r][i] \in Eth!Tx
      BY RawTransactions DEF EthInv, EthTypes, RequestInv, HandlerInStep
    <3>2. Raw[r][i].nonce < Eth!NextNonce(Raw[r][i].sender) =>
             Raw[r][i].nonce < Eth!NextNonce(Raw[r][i].sender)'
      BY <1>3, <1>6, <3>1, Nonces
    <3>3. Explained(r, Raw[r][i], result[r][i])
      BY DEF EthInv, RequestInv, AnswersExplained
    <3> QED
      BY <1>1, <1>2, <1>5, <3>2, <3>3, StaysExplained
  <2> QED
    BY <1>2, <2>1, <2>2 DEF RequestInv, AnswersExplained
<1> QED
  BY <1>4, <1>8, <1>9 DEF EthInv

\* The token contract may suspend transfers at any time.
LEMMA EthSwitched == ASSUME EthInv, Eth!Switch PROVE EthInv'
<1>1. /\ switches < MaxSwitches /\ switches' = switches + 1 /\ suspended' = ~suspended
      /\ barred' = [r \in Request |->
                      barred[r] /\ (suspended' \/ step[r] \notin {"idle", "check"})]
      /\ UNCHANGED <<pool, mined, step, index, result, faults, sent, doubted>>
  BY DEF Eth!Switch, Eth!handling
<1>2. EthTypes'
  <2>1. switches' \in 0..MaxSwitches
    BY <1>1, EthAssumption DEF EthInv, EthTypes, Eth!Assumption
  <2> QED
    BY <1>1, <2>1 DEF EthInv, EthTypes
<1>3. NoncesInOrder'
  BY <1>1 DEF EthInv, NoncesInOrder, Known, Eth!NextNonce, Eth!Sendable
<1>4. ASSUME NEW r \in Request PROVE RequestInv(r)'
  <2>1. HandlerInStep(r)' /\ AnswersExplained(r)'
    BY <1>1 DEF EthInv, RequestInv, HandlerInStep, AnswersExplained, Explained, Known,
                Eth!Current, Eth!NextNonce
  <2>2. ChecksInStep(r)'
    BY <1>1 DEF EthInv, RequestInv, ChecksInStep
  <2> QED
    BY <2>1, <2>2 DEF RequestInv
<1> QED
  BY <1>2, <1>3, <1>4 DEF EthInv

------------------------------------------------------------------------------
(* Steps of a request. *)

\* What one handler does leaves the others in step: the node only gets to know more.
LEMMA OthersInStep ==
  ASSUME EthInv, NEW r \in Request, EthTypes', NoncesInOrder', RequestInv(r)',
         UNCHANGED <<mined, suspended>>, pool \subseteq pool', doubted \subseteq doubted',
         \A q \in Request \ {r} : /\ step'[q] = step[q] /\ index'[q] = index[q]
                                  /\ result'[q] = result[q] /\ sent'[q] = sent[q]
                                  /\ barred'[q] = barred[q]
  PROVE  EthInv'
<1> SUFFICES ASSUME NEW q \in Request \ {r} PROVE RequestInv(q)'
  BY DEF EthInv
<1>1. Known \subseteq Known'
  BY DEF Known
<1>2. \A a : Eth!NextNonce(a)' = Eth!NextNonce(a)
  BY DEF Eth!NextNonce
<1>3. HandlerInStep(q)' /\ ChecksInStep(q)'
  BY <1>1 DEF EthInv, RequestInv, HandlerInStep, ChecksInStep, Eth!Current
<1>4. ASSUME NEW i \in DOMAIN result[q] PROVE Explained(q, Raw[q][i], result[q][i])'
  <2>1. Explained(q, Raw[q][i], result[q][i])
    BY DEF EthInv, RequestInv, AnswersExplained
  <2> QED
    BY <1>1, <1>2, <2>1, StaysExplained
<1> QED
  BY <1>3, <1>4 DEF RequestInv, AnswersExplained

\* A handler that goes on without an answer.
LEMMA EthWentOn ==
  ASSUME EthInv, NEW r \in Request, NEW s \in Eth!Steps, NEW i \in DOMAIN Raw[r],
         Eth!Goto(r, s, i), UNCHANGED <<pool, mined, suspended, result, sent>>,
         doubted' = doubted, switches' = switches, faults' \in 0..NodeFaults,
         barred' \in [Request -> BOOLEAN], \A q \in Request \ {r} : barred'[q] = barred[q],
         HandlerInStep(r)', ChecksInStep(r)'
  PROVE  EthInv'
<1>1. step' = [step EXCEPT ![r] = s] /\ index' = [index EXCEPT ![r] = i]
  BY DEF Eth!Goto
<1>2. i \in Nat
  BY RawTransactions
<1>3. EthTypes'
  BY <1>1, <1>2 DEF EthInv, EthTypes
<1>4. NoncesInOrder'
  BY DEF EthInv, NoncesInOrder, Known, Eth!NextNonce, Eth!Sendable
<1>5. AnswersExplained(r)'
  BY DEF EthInv, RequestInv, AnswersExplained, Explained, Known, Eth!NextNonce, Eth!Sendable
<1>6. \A q \in Request \ {r} : step'[q] = step[q] /\ index'[q] = index[q]
  BY <1>1 DEF EthInv, EthTypes
<1> QED
  BY <1>3, <1>4, <1>5, <1>6, OthersInStep DEF RequestInv

\* The checks before a transaction is sent, and the choice of the next one, send nothing.
LEMMA EthChecked ==
  ASSUME EthInv, NEW r \in Request, Eth!Begin(r) \/ Eth!CheckToken(r) \/ Eth!Pause(r)
  PROVE  EthInv'
<1>0. index[r] \in DOMAIN Raw[r] /\ 1 \in DOMAIN Raw[r] /\ index[r] \in Nat
      /\ Len(Raw[r]) \in Nat /\ DOMAIN Raw[r] = 1..Len(Raw[r])
  BY RawTransactions DEF EthInv, EthTypes, RequestInv, HandlerInStep
<1>1. CASE Eth!Begin(r)
  <2>1. /\ step[r] = "idle" /\ Eth!Goto(r, "check", 1)
        /\ barred' = [barred EXCEPT ![r] = suspended]
        /\ UNCHANGED <<pool, mined, suspended, switches, result, faults, sent, doubted>>
    BY <1>1 DEF Eth!Begin, Eth!node
  <2>2. step'[r] = "check" /\ index'[r] = 1 /\ barred'[r] = suspended
    BY <2>1 DEF Eth!Goto, EthInv, EthTypes
  <2>3. HandlerInStep(r)' /\ ChecksInStep(r)'
    BY <1>0, <2>1, <2>2 DEF EthInv, RequestInv, HandlerInStep, ChecksInStep
  <2>4. barred' \in [Request -> BOOLEAN] /\ \A q \in Request \ {r} : barred'[q] = barred[q]
    BY <2>1 DEF EthInv, EthTypes
  <2> QED
    BY <1>0, <2>1, <2>3, <2>4, EthWentOn DEF EthInv, EthTypes, Eth!Steps
<1>2. CASE Eth!CheckToken(r)
  <2>1. /\ step[r] = "check"
        /\ UNCHANGED <<pool, mined, suspended, switches, result, faults, sent, barred, doubted>>
    BY <1>2 DEF Eth!CheckToken, Eth!node, Eth!history
  <2>2. CASE ForToken(Eth!Current(r)) /\ suspended
    <3>1. Eth!Goto(r, "refused", index[r])
      BY <1>2, <2>2 DEF Eth!CheckToken, ForToken
    <3>2. step'[r] = "refused" /\ index'[r] = index[r]
      BY <3>1 DEF Eth!Goto, EthInv, EthTypes
    <3>3. HandlerInStep(r)' /\ ChecksInStep(r)'
      BY <1>0, <2>1, <3>2 DEF EthInv, RequestInv, HandlerInStep, ChecksInStep
    <3> QED
      BY <1>0, <2>1, <3>1, <3>3, EthWentOn DEF EthInv, EthTypes, Eth!Steps
  <2>3. CASE ~(ForToken(Eth!Current(r)) /\ suspended) /\ index[r] < Len(Raw[r])
    <3>1. Eth!Goto(r, "check", index[r] + 1)
      BY <1>2, <2>3 DEF Eth!CheckToken, ForToken
    <3>2. step'[r] = "check" /\ index'[r] = index[r] + 1 /\ index[r] + 1 \in DOMAIN Raw[r]
      BY <1>0, <2>3, <3>1 DEF Eth!Goto, EthInv, EthTypes
    <3>3. HandlerInStep(r)'
      BY <2>1, <3>2 DEF EthInv, RequestInv, HandlerInStep
    <3>4. ChecksInStep(r)'
      BY <1>0, <2>1, <2>3, <3>2 DEF EthInv, RequestInv, ChecksInStep, Eth!Current
    <3> QED
      BY <2>1, <3>1, <3>2, <3>3, <3>4, EthWentOn DEF EthInv, EthTypes, Eth!Steps
  <2>4. CASE ~(ForToken(Eth!Current(r)) /\ suspended) /\ ~(index[r] < Len(Raw[r]))
    <3>1. Eth!Goto(r, "pause", 1)
      BY <1>2, <2>4 DEF Eth!CheckToken, ForToken
    <3>2. step'[r] = "pause" /\ index'[r] = 1
      BY <3>1 DEF Eth!Goto, EthInv, EthTypes
    <3>3. HandlerInStep(r)'
      BY <1>0, <2>1, <3>2 DEF EthInv, RequestInv, HandlerInStep
    <3>4. ChecksInStep(r)'
      BY <1>0, <2>1, <2>4, <3>2 DEF EthInv, RequestInv, ChecksInStep, Eth!Current
    <3> QED
      BY <1>0, <2>1, <3>1, <3>3, <3>4, EthWentOn DEF EthInv, EthTypes, Eth!Steps
  <2> QED
    BY <2>2, <2>3, <2>4
<1>3. CASE Eth!Pause(r)
  <2>1. /\ step[r] = "pause" /\ Eth!Goto(r, "send", 1)
        /\ UNCHANGED <<pool, mined, suspended, switches, result, faults, sent, barred, doubted>>
    BY <1>3 DEF Eth!Pause, Eth!node, Eth!history
  <2>2. step'[r] = "send" /\ index'[r] = 1
    BY <2>1 DEF Eth!Goto, EthInv, EthTypes
  <2>3. HandlerInStep(r)' /\ ChecksInStep(r)'
    BY <1>0, <2>1, <2>2 DEF EthInv, RequestInv, HandlerInStep, ChecksInStep
  <2> QED
    BY <1>0, <2>1, <2>3, EthWentOn DEF EthInv, EthTypes, Eth!Steps
<1> QED
  BY <1>1, <1>2, <1>3

\* A handler that answers the transaction it is at.
LEMMA EthAnswered ==
  ASSUME EthInv, NEW r \in Request, NEW a \in 0..4, step[r] \in {"send", "wait", "inspect"},
         NEW t, t = Eth!Current(r), Eth!Answer(r, a),
         UNCHANGED <<mined, suspended, switches, barred>>,
         faults' \in 0..NodeFaults, pool \subseteq pool', pool' \subseteq Eth!Tx,
         doubted \subseteq doubted', sent' \in [Request -> SUBSET Eth!Tx],
         \A q \in Request \ {r} : sent'[q] = sent[q],
         NoncesInOrder', Explained(r, t, a)'
  PROVE  EthInv'
<1>1. /\ index[r] \in DOMAIN Raw[r] /\ index[r] \in Nat /\ index[r] + 1 \in Nat
      /\ Len(Raw[r]) \in Nat /\ DOMAIN Raw[r] = 1..Len(Raw[r])
      /\ result[r] \in Seq(0..4) /\ Len(result[r]) = index[r] - 1
  BY RawTransactions DEF EthInv, EthTypes, RequestInv, HandlerInStep
<1>2. result' = [result EXCEPT ![r] = Append(@, a)]
  BY DEF Eth!Answer
<1>3. PICK s \in {"send", "done"}, i \in Nat :
        /\ step' = [step EXCEPT ![r] = s] /\ index' = [index EXCEPT ![r] = i]
        /\ \/ s = "send" /\ index[r] < Len(Raw[r]) /\ i = index[r] + 1
           \/ s = "done" /\ ~(index[r] < Len(Raw[r])) /\ i = index[r]
  BY <1>1 DEF Eth!Answer, Eth!Goto
<1>4. EthTypes'
  <2>1. Append(result[r], a) \in Seq(0..4)
    BY <1>1
  <2> QED
    BY <1>2, <1>3, <2>1 DEF EthInv, EthTypes, Eth!Steps
<1>5. /\ step'[r] = s /\ index'[r] = i
      /\ result'[r] = Append(result[r], a)
      /\ \A q \in Request \ {r} : /\ step'[q] = step[q] /\ index'[q] = index[q]
                                  /\ result'[q] = result[q]
  BY <1>2, <1>3 DEF EthInv, EthTypes
<1>6. Len(result'[r]) = index[r]
  BY <1>1, <1>5
<1>7. HandlerInStep(r)'
  BY <1>1, <1>3, <1>5, <1>6 DEF HandlerInStep
<1>8. ChecksInStep(r)'
  BY <1>3, <1>5 DEF EthInv, RequestInv, ChecksInStep
<1>9. AnswersExplained(r)'
  <2>1. Known \subseteq Known' /\ \A b : Eth!NextNonce(b)' = Eth!NextNonce(b)
    BY DEF Known, Eth!NextNonce
  <2>2. ASSUME NEW k \in 1..index[r], NEW c, c = result'[r][k]
        PROVE  Explained(r, Raw[r][k], c)'
    <3>1. CASE k = index[r]
      <4>1. c = a /\ Raw[r][k] = t
        BY <1>1, <1>5, <2>2, <3>1 DEF Eth!Current
      <4> QED
        BY <4>1
    <3>2. CASE k # index[r]
      <4>1. k \in DOMAIN result[r] /\ c = result[r][k]
        BY <1>1, <1>5, <2>2, <3>2
      <4>2. Explained(r, Raw[r][k], c)
        BY <4>1 DEF EthInv, RequestInv, AnswersExplained
      <4> QED
        BY <2>1, <4>2, StaysExplained
    <3> QED
      BY <3>1, <3>2
  <2>3. DOMAIN result'[r] = 1..index[r]
    BY <1>1, <1>5, <1>6
  <2> QED
    BY <2>2, <2>3 DEF AnswersExplained
<1> QED
  BY <1>4, <1>5, <1>7, <1>8, <1>9, OthersInStep DEF RequestInv

\* The types of what the steps of a request change beside the request.
LEMMA EthTypesNow ==
  ASSUME EthInv
  PROVE  /\ pool \subseteq Eth!Tx /\ faults \in 0..NodeFaults
         /\ sent \in [Request -> SUBSET Eth!Tx]
BY DEF EthInv, EthTypes

\* Where nothing is sent, the node is as it was.
LEMMA NodeAsBefore ==
  ASSUME EthInv, UNCHANGED <<pool, mined>>
  PROVE  NoncesInOrder' /\ Known' = Known /\ \A b : Eth!NextNonce(b)' = Eth!NextNonce(b)
BY DEF EthInv, NoncesInOrder, Known, Eth!NextNonce, Eth!Sendable

\* A request that is being handled is at one of its transactions.
LEMMA CurrentTx ==
  ASSUME EthInv, NEW r \in Request
  PROVE  /\ Eth!Current(r) \in Eth!Tx /\ Eth!Current(r).nonce \in Nat
         /\ Eth!NextNonce(Eth!Current(r).sender) \in Nat
BY RawTransactions, Nonces DEF EthInv, RequestInv, HandlerInStep, Eth!Current

\* An answer of the node without a transaction of the request being sent.
LEMMA EthRefused ==
  ASSUME EthInv, NEW r \in Request, Eth!NotSendable(r) \/ Eth!Refused(r)
  PROVE  EthInv'
<1>0. PICK t : t = Eth!Current(r)
  OBVIOUS
<1>1. /\ step[r] = "send"
      /\ UNCHANGED <<pool, mined, suspended, switches, faults, sent, barred, doubted>>
  BY DEF Eth!NotSendable, Eth!Refused, Eth!node, Eth!history
<1>2. NoncesInOrder' /\ Known' = Known /\ \A b : Eth!NextNonce(b)' = Eth!NextNonce(b)
  BY <1>1, NodeAsBefore
<1>3. PICK a \in 0..4 :
        /\ Eth!Answer(r, a)
        /\ \/ a = 3 /\ t.nonce < Eth!NextNonce(t.sender)
           \/ a = 4 /\ t \in Known
           \/ a = 0 /\ ~Eth!Sendable(t)
           \/ a = 0 /\ \E u \in Known : u # t /\ u.sender = t.sender /\ u.nonce = t.nonce
  BY <1>0 DEF Eth!NotSendable, Eth!Refused, Known
<1>4. Explained(r, t, a)
  BY <1>3 DEF Explained
<1>5. Explained(r, t, a)'
  BY <1>1, <1>2, <1>4, StaysExplained
<1> QED
  BY <1>0, <1>1, <1>2, <1>3, <1>5, EthTypesNow, EthAnswered

\* The node takes a transaction only if it can be put in the order of nonces.
LEMMA NoncesAfterAccept ==
  ASSUME EthInv, NEW r \in Request, NEW t, t = Eth!Current(r),
         Eth!Sendable(t), Eth!New(t), Eth!Accept(r, t), mined' = mined
  PROVE  /\ NoncesInOrder' /\ t \in Known' /\ Known \subseteq Known'
         /\ pool \subseteq pool' /\ pool' \subseteq Eth!Tx
         /\ sent' \in [Request -> SUBSET Eth!Tx]
         /\ \A q \in Request \ {r} : sent'[q] = sent[q]
<1>1. /\ pool' = pool \union {t} /\ sent' = [sent EXCEPT ![r] = @ \union {t}]
      /\ t \in Eth!Tx /\ t.nonce \in Nat
      /\ \A a : Eth!NextNonce(a) \in Nat
      /\ \A u \in Known : u.nonce \in Nat
  BY CurrentTx, Nonces DEF Eth!Accept, EthInv, EthTypes, Known
<1>2. Known' = Known \union {t} /\ \A b : Eth!NextNonce(b)' = Eth!NextNonce(b)
  BY <1>1 DEF Known, Eth!NextNonce
<1>3. \A u \in Known : u.sender = t.sender => u.nonce # t.nonce
  BY <1>1 DEF EthInv, NoncesInOrder, Known, Eth!New
<1>4. NoncesInOrder'
  <2>1. \A u \in Known' : Eth!Sendable(u)'
    BY <1>2 DEF EthInv, NoncesInOrder, Eth!Sendable
  <2>2. \A u \in mined' : u.nonce < Eth!NextNonce(u.sender)'
    BY <1>2 DEF EthInv, NoncesInOrder
  <2>3. \A u \in pool' : u.nonce >= Eth!NextNonce(u.sender)'
    BY <1>1, <1>2 DEF EthInv, NoncesInOrder, Eth!New
  <2>4. \A u, w \in Known' : u.sender = w.sender /\ u.nonce = w.nonce => u = w
    BY <1>2, <1>3 DEF EthInv, NoncesInOrder
  <2> QED
    BY <2>1, <2>2, <2>3, <2>4 DEF NoncesInOrder
<1> QED
  BY <1>1, <1>2, <1>4 DEF EthInv, EthTypes

\* The node accepts the transaction, whose nonce is known from then on.
LEMMA EthAccepted ==
  ASSUME EthInv, NEW r \in Request, Eth!Accepted(r)
  PROVE  EthInv'
<1>0. PICK t : t = Eth!Current(r)
  OBVIOUS
<1>1. /\ step[r] = "send" /\ Eth!Sendable(t) /\ Eth!New(t) /\ Eth!Accept(r, t)
      /\ \/ r \in NoWait /\ Eth!Answer(r, 1)
         \/ r \notin NoWait /\ Eth!Goto(r, "wait", index[r]) /\ result' = result
      /\ UNCHANGED <<mined, suspended, switches, faults, barred, doubted>>
  BY <1>0 DEF Eth!Accepted
<1>2. /\ NoncesInOrder' /\ t \in Known' /\ Known \subseteq Known'
      /\ pool \subseteq pool' /\ pool' \subseteq Eth!Tx
      /\ sent' \in [Request -> SUBSET Eth!Tx]
      /\ \A q \in Request \ {r} : sent'[q] = sent[q]
  BY <1>0, <1>1, NoncesAfterAccept
<1>3. CASE r \in NoWait
  <2>1. Explained(r, t, 1)'
    BY <1>2, <1>3 DEF Explained
  <2> QED
    BY <1>0, <1>1, <1>2, <1>3, <2>1, EthTypesNow, EthAnswered
<1>4. CASE r \notin NoWait
  <2>1. step' = [step EXCEPT ![r] = "wait"] /\ index' = [index EXCEPT ![r] = index[r]]
    BY <1>1, <1>4 DEF Eth!Goto
  <2>2. /\ step'[r] = "wait" /\ index'[r] = index[r] /\ result' = result
        /\ \A q \in Request \ {r} : step'[q] = step[q] /\ index'[q] = index[q]
    BY <1>1, <1>4, <2>1 DEF EthInv, EthTypes
  <2>3. EthTypes'
    BY <1>1, <1>2, <2>1, <2>2 DEF EthInv, EthTypes, Eth!Steps
  <2>4. HandlerInStep(r)'
    BY <1>0, <1>1, <1>2, <2>2 DEF EthInv, RequestInv, HandlerInStep, Eth!Current
  <2>5. ChecksInStep(r)'
    BY <1>1, <2>2 DEF EthInv, RequestInv, ChecksInStep
  <2>6. AnswersExplained(r)'
    <3>1. \A b : Eth!NextNonce(b)' = Eth!NextNonce(b)
      BY <1>1 DEF Eth!NextNonce
    <3>2. ASSUME NEW k \in DOMAIN result[r] PROVE Explained(r, Raw[r][k], result[r][k])'
      <4>1. Explained(r, Raw[r][k], result[r][k])
        BY DEF EthInv, RequestInv, AnswersExplained
      <4> QED
        BY <1>1, <1>2, <2>2, <3>1, <4>1, StaysExplained
    <3> QED
      BY <2>2, <3>2 DEF AnswersExplained
  <2> QED
    BY <1>1, <1>2, <2>2, <2>3, <2>4, <2>5, <2>6, OthersInStep DEF RequestInv
<1> QED
  BY <1>3, <1>4

\* The answer of the node is lost, whether or not it took the transaction.
LEMMA EthLostAnswer ==
  ASSUME EthInv, NEW r \in Request, Eth!LostAnswer(r)
  PROVE  EthInv'
<1>0. PICK t : t = Eth!Current(r)
  OBVIOUS
<1>1. /\ step[r] = "send" /\ Eth!Sendable(t) /\ Eth!New(t) /\ Eth!Accept(r, t)
      /\ faults < NodeFaults /\ faults' = faults + 1
      /\ \/ UNCHANGED <<step, index, result, doubted>>
         \/ Eth!Answer(r, 0) /\ doubted' = doubted \union {t}
      /\ UNCHANGED <<mined, suspended, switches, barred>>
  BY <1>0 DEF Eth!LostAnswer, Eth!handling
<1>2. /\ NoncesInOrder' /\ t \in Known' /\ Known \subseteq Known'
      /\ pool \subseteq pool' /\ pool' \subseteq Eth!Tx
      /\ sent' \in [Request -> SUBSET Eth!Tx]
      /\ \A q \in Request \ {r} : sent'[q] = sent[q]
  BY <1>0, <1>1, NoncesAfterAccept
<1>3. faults' \in 0..NodeFaults
  BY <1>1, EthAssumption DEF EthInv, EthTypes, Eth!Assumption
<1>4. CASE Eth!Answer(r, 0) /\ doubted' = doubted \union {t}
  <2>1. Explained(r, t, 0)'
    BY <1>4 DEF Explained
  <2> QED
    BY <1>0, <1>1, <1>2, <1>3, <1>4, <2>1, EthTypesNow, EthAnswered
<1>5. CASE UNCHANGED <<step, index, result, doubted>>
  <2>1. EthTypes'
    BY <1>1, <1>2, <1>3, <1>5 DEF EthInv, EthTypes
  <2>2. HandlerInStep(r)' /\ ChecksInStep(r)'
    BY <1>1, <1>5 DEF EthInv, RequestInv, HandlerInStep, ChecksInStep
  <2>3. AnswersExplained(r)'
    <3>1. \A b : Eth!NextNonce(b)' = Eth!NextNonce(b)
      BY <1>1 DEF Eth!NextNonce
    <3>2. ASSUME NEW k \in DOMAIN result[r] PROVE Explained(r, Raw[r][k], result[r][k])'
      <4>1. Explained(r, Raw[r][k], result[r][k])
        BY DEF EthInv, RequestInv, AnswersExplained
      <4> QED
        BY <1>1, <1>2, <1>5, <3>1, <4>1, StaysExplained
    <3> QED
      BY <1>5, <3>2 DEF AnswersExplained
  <2> QED
    BY <1>1, <1>2, <1>5, <2>1, <2>2, <2>3, OthersInStep DEF RequestInv
<1> QED
  BY <1>1, <1>4, <1>5

\* The wait for the receipt ends with it, or too early.
LEMMA EthWaited ==
  ASSUME EthInv, NEW r \in Request \ NoWait, Eth!WaitForReceipt(r)
  PROVE  EthInv'
<1>0. PICK t : t = Eth!Current(r)
  OBVIOUS
<1>1. UNCHANGED <<pool, mined, suspended, switches, faults, sent, barred>>
  BY DEF Eth!WaitForReceipt, Eth!Receipt, Eth!TimeExhausted, Eth!InspectPool, Eth!node, Eth!history
<1>2. NoncesInOrder' /\ Known' = Known
  BY <1>1, NodeAsBefore
<1>3. CASE Eth!Receipt(r)
  <2>1. PICK a \in {0, 1} : /\ step[r] = "wait" /\ t \in mined /\ Eth!Answer(r, a)
                            /\ a = IF t.reverts THEN 0 ELSE 1
                            /\ doubted' = doubted
    BY <1>0, <1>3 DEF Eth!Receipt, Eth!history
  <2>2. Explained(r, t, a)'
    BY <1>1, <2>1 DEF Explained
  <2> QED
    BY <1>0, <1>1, <1>2, <2>1, <2>2, EthTypesNow, EthAnswered
<1>4. CASE Eth!TimeExhausted(r)
  <2>1. /\ step[r] = "wait" /\ Eth!Goto(r, "inspect", index[r]) /\ result' = result
        /\ doubted' = doubted
    BY <1>4 DEF Eth!TimeExhausted, Eth!history
  <2>2. step'[r] = "inspect" /\ index'[r] = index[r] /\ index[r] \in DOMAIN Raw[r]
    BY <2>1 DEF Eth!Goto, EthInv, EthTypes, RequestInv, HandlerInStep
  <2>3. HandlerInStep(r)' /\ ChecksInStep(r)'
    BY <1>1, <1>2, <2>1, <2>2
       DEF EthInv, RequestInv, HandlerInStep, ChecksInStep, Eth!Current
  <2> QED
    BY <1>1, <2>1, <2>2, <2>3, EthWentOn DEF EthInv, EthTypes, Eth!Steps
<1>5. CASE Eth!InspectPool(r)
  <2>1. PICK a \in {0, 2} : /\ step[r] = "inspect" /\ Eth!Answer(r, a)
                            /\ \/ a = 0 /\ doubted' = doubted \union {t}
                               \/ a = 2 /\ doubted' = doubted
    BY <1>0, <1>5 DEF Eth!InspectPool
  <2>2. t \in Known
    BY <1>0, <2>1 DEF EthInv, RequestInv, HandlerInStep
  <2>3. Explained(r, t, a)'
    BY <1>2, <2>1, <2>2 DEF Explained
  <2> QED
    BY <1>0, <1>1, <1>2, <2>1, <2>3, EthTypesNow, EthAnswered
<1> QED
  BY <1>3, <1>4, <1>5 DEF Eth!WaitForReceipt

\* A node that fails ends the request, before or after the transaction is sent.
LEMMA EthFailed ==
  ASSUME EthInv, NEW r \in Request, Eth!NodeFails(r)
  PROVE  EthInv'
<1>0. PICK t : t = Eth!Current(r)
  OBVIOUS
<1>1. /\ faults' \in 0..NodeFaults
      /\ UNCHANGED <<pool, mined, suspended, switches, sent, barred>>
  BY EthAssumption DEF Eth!NodeFails, Eth!node, EthInv, EthTypes, Eth!Assumption
<1>2. NoncesInOrder' /\ Known' = Known
  BY <1>1, NodeAsBefore
<1>3. CASE step[r] = "wait" /\ Eth!Answer(r, 0) /\ doubted' = doubted \union {t}
  <2>1. Explained(r, t, 0)'
    BY <1>3 DEF Explained
  <2> QED
    BY <1>0, <1>1, <1>2, <1>3, <2>1, EthTypesNow, EthAnswered
<1>4. CASE /\ step[r] \in {"pause", "inspect"} /\ Eth!Goto(r, "error", index[r])
           /\ UNCHANGED <<result, doubted>>
  <2>1. step'[r] = "error" /\ index'[r] = index[r] /\ index[r] \in DOMAIN Raw[r]
    BY <1>4 DEF Eth!Goto, EthInv, EthTypes, RequestInv, HandlerInStep
  <2>2. HandlerInStep(r)' /\ ChecksInStep(r)'
    BY <1>1, <1>4, <2>1 DEF EthInv, RequestInv, HandlerInStep, ChecksInStep
  <2> QED
    BY <1>1, <1>4, <2>1, <2>2, EthWentOn DEF EthInv, EthTypes, Eth!Steps
<1> QED
  BY <1>0, <1>3, <1>4 DEF Eth!NodeFails

\* Every step of the transaction API keeps EthInv.
LEMMA EthStepKeeps == ASSUME EthInv, EthStep PROVE EthInv'
<1>1. Eth!Next
  BY DEF EthStep
<1>2. NoWait \subseteq Request
  BY EthAssumption DEF Eth!Assumption
<1> QED
  BY <1>1, <1>2, EthMined, EthSwitched, EthChecked, EthRefused, EthAccepted, EthLostAnswer,
     EthWaited, EthFailed
     DEF Eth!Next, Eth!SendRawTransaction, Eth!SendRawTransactionNoWait, Eth!SendTransaction

------------------------------------------------------------------------------
(* What the invariant says of a request. *)

\* EthInv has the type invariant ...
LEMMA EthInvTypes == ASSUME EthInv PROVE Eth!TypeOK
<1> SUFFICES ASSUME NEW r \in Request
             PROVE  /\ index[r] \in DOMAIN Raw[r]
                    /\ \A i \in DOMAIN result[r] : result[r][i] \in 0..4
                    /\ step[r] = "done" => Len(result[r]) = Len(Raw[r])
  BY DEF EthInv, EthTypes, Eth!TypeOK
<1>1. result[r] \in Seq(0..4)
  BY DEF EthInv, EthTypes
<1> QED
  BY <1>1 DEF EthInv, RequestInv, HandlerInStep

\* ... and SuspendedSendsNothing.
LEMMA EthInvBarred == ASSUME EthInv PROVE Eth!SuspendedSendsNothing
<1> SUFFICES ASSUME NEW r \in Request, barred[r],
                    NEW i \in DOMAIN Raw[r], ForToken(Raw[r][i])
             PROVE  sent[r] = {}
  BY DEF Eth!SuspendedSendsNothing, ForToken
<1>1. step[r] \in {"check", "refused"}
  BY DEF EthInv, RequestInv, ChecksInStep
<1> QED
  BY <1>1 DEF EthInv, RequestInv, HandlerInStep

\* A failed transaction that was executed was accepted from the request it failed for: no
\* rival for its nonce was there.
LEMMA EthInvAnswers == ASSUME EthInv PROVE Eth!AnswersAreTrue /\ Eth!FailureExplained
<1>1. ASSUME NEW r \in Request, NEW i \in DOMAIN result[r]
      PROVE  /\ result[r][i] \in 0..4 /\ Explained(r, Raw[r][i], result[r][i])
             /\ Raw[r][i] \in Eth!Tx
  <2>1. result[r] \in Seq(0..4) /\ Len(result[r]) <= Len(Raw[r])
    BY DEF EthInv, EthTypes, RequestInv, HandlerInStep
  <2>2. i \in DOMAIN Raw[r]
    BY <2>1, RawTransactions
  <2>3. Explained(r, Raw[r][i], result[r][i])
    BY DEF EthInv, RequestInv, AnswersExplained
  <2> QED
    BY <2>1, <2>2, <2>3, RawTransactions
<1>2. Eth!AnswersAreTrue
  BY <1>1 DEF Eth!AnswersAreTrue, Explained, Known
<1>3. Eth!FailureExplained
  <2> SUFFICES ASSUME NEW r \in Request, NEW i \in DOMAIN result[r], NEW t, t = Raw[r][i],
                      result[r][i] = 0, t \in mined, ~t.reverts
               PROVE  t \in doubted
    BY DEF Eth!FailureExplained
  <2>1. Explained(r, t, 0)
    BY <1>1
  <2>2. Eth!Sendable(t) /\ t \in Known
    BY DEF EthInv, NoncesInOrder, Known
  <2>3. \A u \in Known : u.sender = t.sender /\ u.nonce = t.nonce => u = t
    BY <2>2 DEF EthInv, NoncesInOrder
  <2> QED
    BY <2>1, <2>2, <2>3 DEF Explained
<1> QED
  BY <1>2, <1>3

\* Whatever the node does and whenever requests are handled, EthInv holds.
THEOREM EthInvariant == ServicesSpec => [](which = "eth" => EthInv)
<1> DEFINE Inv == which = "eth" => EthInv
<1>1. ServicesInit => Inv
  BY EthInitially DEF ServicesInit, MonitorInit, CacheInit, ListsInit, MailInit
<1>2. Inv /\ [ServicesNext]_serviceVars => Inv'
  <2> SUFFICES ASSUME Inv, [ServicesNext]_serviceVars, which' = "eth" PROVE EthInv'
    OBVIOUS
  <2>1. CASE ServicesNext
    <3>1. which = "eth" /\ EthStep
      BY <2>1 DEF ServicesNext, MonitorStep, CacheStep, ListsStep, MailStep
    <3> QED
      BY <3>1, EthStepKeeps
  <2>2. CASE UNCHANGED serviceVars
    <3>1. UNCHANGED <<which, pool, mined, suspended, switches, step, index, result, barred,
                      doubted, faults, sent>>
      BY <2>2 DEF serviceVars, poolOnly, vars
    <3>2. EthTypes' /\ NoncesInOrder'
      BY <3>1, NodeAsBefore DEF EthInv, EthTypes
    <3>3. ASSUME NEW r \in Request PROVE RequestInv(r)'
      <4>1. HandlerInStep(r)' /\ ChecksInStep(r)'
        BY <3>1 DEF EthInv, RequestInv, HandlerInStep, ChecksInStep, Known, Eth!Current
      <4>2. AnswersExplained(r)'
        BY <3>1 DEF EthInv, RequestInv, AnswersExplained, Explained, Known, Eth!NextNonce,
                    Eth!Sendable
      <4> QED
        BY <4>1, <4>2 DEF RequestInv
    <3> QED
      BY <3>1, <3>2, <3>3 DEF EthInv
  <2> QED
    BY <2>1, <2>2
<1> QED
  BY <1>1, <1>2, PTL DEF ServicesSpec

\* While a token is suspended, no request with a transaction for it sends anything, wherever
\* in the request that transaction is, for every set of requests.
THEOREM SuspendedSendsNothingAlways == ServicesSpec => []SuspendedSendsNothing
<1>1. (which = "eth" => EthInv) => SuspendedSendsNothing
  BY EthInvTypes, EthInvBarred DEF SuspendedSendsNothing
<1> QED
  BY <1>1, EthInvariant, PTL

\* What a client was told stays true whatever other requests do, and a transaction that was
\* executed is only called failed when the node failed or let it wait behind a gap.
THEOREM AnswersAlwaysTrue == ServicesSpec => []AnswersAreTrue
<1>1. (which = "eth" => EthInv) => AnswersAreTrue
  BY EthInvAnswers DEF AnswersAreTrue
<1> QED
  BY <1>1, EthInvariant, PTL

------------------------------------------------------------------------------
(* The processes that write a token's row: what they keep, and what it rests on. *)

CacheTypes ==
    /\ template \in {c.template : c \in CacheInstance}
    /\ running \in {c.processes : c \in CacheInstance}
    /\ source \in [Cache!Column -> 1..2]
    /\ held \in [Cache!Column -> [Cache!Value -> Int]]
    /\ now \in 0..CacheTime /\ onList \in BOOLEAN /\ changes \in 0..MaxChanges
    /\ row \in [value : [Cache!Column -> Cache!Value], created : -1..now, short : -1..now]
    /\ stored \in Cache!Value \union {-1}
    /\ DOMAIN job = Cache!Process

\* The present value of a column is held now.
PresentHeld == \A c \in Cache!Column : held[c][Cache!Present(c)] = now

\* No value is held beyond now.
HeldSoFar == \A c \in Cache!Column, v \in Cache!Value : held[c][v] <= now

HeldAll(value, t) == \A c \in Cache!Column : Cache!HeldSince(c, value[c], t)
HeldShort(value, t) == Cache!HeldSince("transferable", value["transferable"], t)

\* A process began its step at most MaxDelay ago.
InTime(p) == job[p].since \in 0..now /\ now - job[p].since <= MaxDelay

\* The row has a short-term column that differs from the one loaded only if it was written
\* since, with a value fetched shortly before.
WrittenSince(loaded, t) ==
    row # Cache!NoRow /\ row.value["transferable"] # loaded.value["transferable"]
        => HeldShort(row.value, t)

\* A value with the long-term column as loaded and the short-term one fetched at t.
RefreshedAt(value, loaded, t) ==
    /\ value \in [Cache!Column -> Cache!Value]
    /\ value["max_holding_quantity"] = loaded.value["max_holding_quantity"]
    /\ HeldShort(value, t)

LoadedTyped(p) ==
    job[p].loaded \in [value : [Cache!Column -> Cache!Value], created : -1..now, short : -1..now]

DetailJob ==
    Cache!Working("detail") =>
        /\ InTime("detail")
        /\ job["detail"].value \in [Cache!Column -> Cache!Value]
        /\ HeldAll(job["detail"].value, job["detail"].since)

ShortJob ==
    Cache!Working("short") =>
        /\ InTime("short") /\ LoadedTyped("short")
        /\ \/ /\ job["short"].step = "fetch"
              /\ WrittenSince(job["short"].loaded, job["short"].since - MaxDelay)
           \/ /\ job["short"].step = "write"
              /\ WrittenSince(job["short"].loaded, job["short"].since - 2 * MaxDelay)
              /\ RefreshedAt(job["short"].value, job["short"].loaded, job["short"].since)

WatchJob ==
    Cache!Working("watch") =>
        /\ InTime("watch") /\ LoadedTyped("watch") /\ job["watch"].refresh \in BOOLEAN
        /\ job["watch"].value \in [Cache!Column -> Cache!Value]
        /\ job["watch"].refresh =>
              /\ WrittenSince(job["watch"].loaded, job["watch"].since - MaxDelay)
              /\ RefreshedAt(job["watch"].value, job["watch"].loaded, job["watch"].since)

\* A registration: what it writes is the present source, or what was found in the cache,
\* refreshed or not.
AdminJob ==
    Cache!Working("admin") =>
        LET a == job["admin"] IN
        /\ InTime("admin") /\ LoadedTyped("admin") /\ a.cached \in BOOLEAN /\ ~onList
        /\ a.value \in [Cache!Column -> Cache!Value]
        /\ ~a.cached => /\ a.value["max_holding_quantity"] = source["max_holding_quantity"]
                        /\ HeldShort(a.value, a.since)
        /\ a.cached =>
              /\ row # Cache!NoRow
              /\ WrittenSince(a.loaded, a.since - MaxDelay)
              /\ \/ RefreshedAt(a.value, a.loaded, a.since)
                 \/ /\ a.value = a.loaded.value /\ a.loaded.short >= a.since - ShortTTL
                    /\ HeldShort(a.value, a.loaded.short - 2 * MaxDelay)

\* Only the row of a listed token may have been registered, its stamp renewed for nothing.
RowFresh ==
    row # Cache!NoRow =>
        /\ Cache!HeldSince("max_holding_quantity", row.value["max_holding_quantity"], row.created)
        /\ HeldShort(row.value, row.short - 2 * MaxDelay - IF onList THEN ShortTTL ELSE 0)

ToldChain ==
    /\ told \in Seq(Cache!Value \X Cache!Value)
    /\ stored = -1 => told = <<>>
    /\ Cache!ToldInOrder

CacheInv == /\ CacheTypes /\ PresentHeld /\ HeldSoFar /\ DetailJob /\ ShortJob /\ WatchJob
            /\ AdminJob /\ RowFresh /\ ToldChain

\* The constants as the proofs use them.
LEMMA CacheBounds ==
    /\ CacheTime \in Nat /\ MaxDelay \in Nat /\ ShortTTL \in Nat /\ TTL \in Nat
    /\ MaxChanges \in Nat
BY CacheAssumption DEF Cache!Assumption

\* Of the two columns, one is short-term for every template.
LEMMA CacheColumns ==
    ASSUME CacheTypes
    PROVE  /\ Cache!ShortTerm = {"transferable"} /\ Cache!Detail = Cache!Column
           /\ Cache!Column = {"transferable", "max_holding_quantity"}
<1>1. template \in {"IbetStraightBond", "IbetShare", "IbetMembership", "IbetCoupon"}
  BY CacheAssumption DEF CacheTypes, Cache!Assumption
<1>2. /\ "transferable" \in Cache!ShortTermOf[template]
      /\ "transferable" \in Cache!DetailOf[template]
      /\ "max_holding_quantity" \in Cache!DetailOf[template]
  BY <1>1 DEF Cache!ShortTermOf, Cache!DetailOf, Cache!BondShortTerm, Cache!ShareShortTerm,
     Cache!MembershipShortTerm, Cache!CouponShortTerm, Cache!CommonShortTerm, Cache!BondDetail,
     Cache!ShareDetail, Cache!MembershipDetail, Cache!CouponDetail, Cache!CommonDetail
<1>3. "max_holding_quantity" \notin Cache!ShortTermOf[template]
  BY <1>1 DEF Cache!ShortTermOf, Cache!BondShortTerm, Cache!ShareShortTerm,
     Cache!MembershipShortTerm, Cache!CouponShortTerm, Cache!CommonShortTerm
<1> QED BY <1>2, <1>3 DEF Cache!ShortTerm, Cache!Detail, Cache!Column

\* What is fetched is held now, and is typed.
LEMMA FetchedHeld ==
    ASSUME CacheTypes, PresentHeld
    PROVE  /\ Cache!Fetched(Cache!Detail) \in [Cache!Column -> Cache!Value]
           /\ HeldAll(Cache!Fetched(Cache!Detail), now)
           /\ \A c \in Cache!Column : source[c] \in Cache!Value
           /\ \A loaded \in [value : [Cache!Column -> Cache!Value],
                             created : -1..now, short : -1..now] :
                 RefreshedAt(Cache!Refreshed(loaded), loaded, now)
<1>1. \A c \in Cache!Column : source[c] \in Cache!Value /\ Cache!Present(c) \in Cache!Value
  BY DEF CacheTypes, Cache!Present, Cache!Value
<1>2. now \in Int
  BY CacheBounds DEF CacheTypes
<1>3. \A c \in Cache!Column : held[c][Cache!Present(c)] >= now
  BY <1>2 DEF PresentHeld
<1>4. /\ Cache!Fetched(Cache!Detail) \in [Cache!Column -> Cache!Value]
      /\ HeldAll(Cache!Fetched(Cache!Detail), now)
  BY <1>1, <1>3, CacheColumns DEF Cache!Fetched, HeldAll, Cache!HeldSince
<1>5. ASSUME NEW loaded \in [value : [Cache!Column -> Cache!Value],
                             created : -1..now, short : -1..now]
      PROVE  RefreshedAt(Cache!Refreshed(loaded), loaded, now)
  <2>1. loaded.value \in [Cache!Column -> Cache!Value]
    OBVIOUS
  <2>2. Cache!Refreshed(loaded) =
          [c \in Cache!Column |-> IF c \in {"transferable"}
                                  THEN Cache!Present(c) ELSE loaded.value[c]]
    BY CacheColumns DEF Cache!Refreshed
  <2> QED BY <1>1, <1>3, <2>1, <2>2, CacheColumns DEF RefreshedAt, HeldShort, Cache!HeldSince
<1> QED BY <1>1, <1>4, <1>5

\* At the start there is no row, and the present values are held.
LEMMA CacheInitially == CacheInit => CacheInv
<1> SUFFICES ASSUME CacheInit PROVE CacheInv
  OBVIOUS
<1>1. /\ template \in {c.template : c \in CacheInstance}
      /\ running \in {c.processes : c \in CacheInstance}
      /\ source = [c \in Cache!Column |-> 1] /\ onList = FALSE /\ now = 0 /\ row = Cache!NoRow
      /\ held = [c \in Cache!Column |->
                     [v \in Cache!Value |-> IF v = Cache!Present(c) THEN 0 ELSE -1]]
      /\ job = [p \in Cache!Process |-> Cache!Idle] /\ stored = -1 /\ told = <<>> /\ changes = 0
  BY DEF CacheInit, Cache!Init
<1>2. CacheTypes
  <2>1. /\ source \in [Cache!Column -> 1..2] /\ held \in [Cache!Column -> [Cache!Value -> Int]]
        /\ DOMAIN job = Cache!Process
    BY <1>1
  <2>2. row \in [value : [Cache!Column -> Cache!Value], created : -1..now, short : -1..now]
    BY <1>1 DEF Cache!NoRow, Cache!Value
  <2>3. onList \in BOOLEAN
    BY <1>1
  <2> QED BY <1>1, <2>1, <2>2, <2>3, CacheBounds DEF CacheTypes
<1>3. PresentHeld
  BY <1>1 DEF PresentHeld, Cache!Present, Cache!Value
<1>4. \A p \in Cache!Process : ~Cache!Working(p)
  BY <1>1 DEF Cache!Working, Cache!Idle
<1>5. DetailJob /\ ShortJob /\ WatchJob /\ AdminJob
  BY <1>4 DEF DetailJob, ShortJob, WatchJob, AdminJob, Cache!Process
<1>6. RowFresh
  BY <1>1 DEF RowFresh
<1>7. ToldChain
  BY <1>1 DEF ToldChain, Cache!ToldInOrder
<1>8. HeldSoFar
  BY <1>1 DEF HeldSoFar
<1> QED BY <1>2, <1>3, <1>5, <1>6, <1>7, <1>8 DEF CacheInv

------------------------------------------------------------------------------
(* What a step of a writer does not touch stays right. *)

\* Values that were held stay so: a later moment can only be added.
HeldGrows == \A c \in Cache!Column, v \in Cache!Value : held'[c][v] >= held[c][v]

\* A column that is written now was fetched at most MaxDelay ago.
RowKept ==
    \/ row' = Cache!NoRow
    \/ row # Cache!NoRow /\ row'.value["transferable"] = row.value["transferable"]
    \/ held'["transferable"][row'.value["transferable"]] >= now - MaxDelay

\* What was written since a process loaded the row stays what it is.
LEMMA WrittenKept ==
    ASSUME CacheTypes, CacheTypes', HeldGrows, RowKept, NEW loaded, NEW t \in Int,
           t <= now - MaxDelay,
           WrittenSince(loaded, t)
    PROVE  row' # Cache!NoRow /\ row'.value["transferable"] # loaded.value["transferable"]
               => held'["transferable"][row'.value["transferable"]] >= t
<1> SUFFICES ASSUME row' # Cache!NoRow, row'.value["transferable"] # loaded.value["transferable"]
             PROVE  held'["transferable"][row'.value["transferable"]] >= t
  OBVIOUS
<1>1. /\ now \in Int /\ MaxDelay \in Int
      /\ row.value["transferable"] \in Cache!Value /\ row'.value["transferable"] \in Cache!Value
      /\ \A v \in Cache!Value : held["transferable"][v] \in Int /\ held'["transferable"][v] \in Int
      /\ \A v \in Cache!Value : held'["transferable"][v] >= held["transferable"][v]
  BY CacheBounds DEF CacheTypes, HeldGrows, Cache!Column
<1>2. CASE row # Cache!NoRow /\ row'.value["transferable"] = row.value["transferable"]
  BY <1>1, <1>2 DEF WrittenSince, HeldShort, Cache!HeldSince
<1>3. CASE held'["transferable"][row'.value["transferable"]] >= now - MaxDelay
  BY <1>1, <1>3
<1> QED BY <1>2, <1>3 DEF RowKept

\* A value held since t stays held since t.
LEMMA HeldKept ==
    ASSUME CacheTypes, CacheTypes', HeldGrows, NEW c \in Cache!Column, NEW v \in Cache!Value,
           NEW t \in Int, held[c][v] >= t
    PROVE  held'[c][v] >= t
<1>1. held[c][v] \in Int /\ held'[c][v] \in Int /\ held'[c][v] >= held[c][v]
  BY DEF CacheTypes, HeldGrows
<1> QED BY <1>1

\* A process that goes on holds what it held, a moment later or not.
Patient(p) == /\ job'[p] = job[p]
              /\ Cache!Working(p) => now' \in {now, now + 1} /\ now' - job[p].since <= MaxDelay

\* A pass of the detail indexer that goes on keeps what it fetched.
LEMMA DetailKept ==
    ASSUME CacheTypes, CacheTypes', HeldGrows, DetailJob, Patient("detail")
    PROVE  DetailJob'
<1> SUFFICES ASSUME Cache!Working("detail")
             PROVE  /\ InTime("detail")' /\ job["detail"].value \in [Cache!Column -> Cache!Value]
                    /\ \A c \in Cache!Column :
                          held'[c][job["detail"].value[c]] >= job["detail"].since
  BY DEF DetailJob, Patient, Cache!Working, HeldAll, Cache!HeldSince
<1>1. /\ job["detail"].since \in 0..now /\ job["detail"].value \in [Cache!Column -> Cache!Value]
      /\ \A c \in Cache!Column : held[c][job["detail"].value[c]] >= job["detail"].since
      /\ now \in 0..CacheTime /\ job'["detail"] = job["detail"]
      /\ now' \in {now, now + 1} /\ now' - job["detail"].since <= MaxDelay
  BY DEF DetailJob, InTime, HeldAll, Cache!HeldSince, Patient, CacheTypes
<1>2. InTime("detail")'
  BY <1>1, CacheBounds DEF InTime
<1>3. job["detail"].since \in Int
  BY <1>1, CacheBounds
<1> QED BY <1>1, <1>2, <1>3, HeldKept

\* The moments of a process that goes on, and the value it fetched.
LEMMA PatientInTime ==
    ASSUME CacheTypes, NEW p, InTime(p), Patient(p), Cache!Working(p)
    PROVE  /\ InTime(p)' /\ job[p].since \in Int /\ job[p].since <= now
           /\ now \in Int /\ MaxDelay \in Nat
<1>1. /\ job[p].since \in 0..now /\ now \in 0..CacheTime /\ job'[p] = job[p]
      /\ now' \in {now, now + 1} /\ now' - job[p].since <= MaxDelay
  BY DEF InTime, Patient, CacheTypes
<1> QED BY <1>1, CacheBounds DEF InTime

\* A value fetched at t stays one.
LEMMA RefreshedKept ==
    ASSUME CacheTypes, CacheTypes', HeldGrows, NEW value, NEW loaded, NEW t \in Int,
           RefreshedAt(value, loaded, t)
    PROVE  /\ value \in [Cache!Column -> Cache!Value]
           /\ value["max_holding_quantity"] = loaded.value["max_holding_quantity"]
           /\ held'["transferable"][value["transferable"]] >= t
<1>1. value["transferable"] \in Cache!Value /\ "transferable" \in Cache!Column
  BY DEF RefreshedAt, Cache!Column
<1> QED BY <1>1, HeldKept DEF RefreshedAt, HeldShort, Cache!HeldSince

\* The row a process loaded stays typed as time goes on.
LEMMA LoadedKept ==
    ASSUME CacheTypes, NEW p, LoadedTyped(p), job'[p] = job[p], now' \in {now, now + 1}
    PROVE  LoadedTyped(p)'
<1>1. /\ job[p].loaded \in [value : [Cache!Column -> Cache!Value],
                            created : -1..now, short : -1..now]
      /\ -1..now \subseteq -1..now'
  BY CacheBounds DEF LoadedTyped, CacheTypes
<1> QED BY <1>1 DEF LoadedTyped

\* A pass of the short-term refresher that goes on stays right about the row.
LEMMA ShortKept ==
    ASSUME CacheTypes, CacheTypes', HeldGrows, RowKept, ShortJob, Patient("short")
    PROVE  ShortJob'
<1> SUFFICES ASSUME Cache!Working("short"), Cache!Working("short")'
             PROVE  ShortJob'
  BY DEF ShortJob, Patient, Cache!Working
<1>1. /\ InTime("short")' /\ LoadedTyped("short")' /\ job'["short"] = job["short"]
  BY PatientInTime, LoadedKept DEF ShortJob, Patient
<1>2. /\ job["short"].since \in Int /\ job["short"].since <= now /\ now \in Int /\ MaxDelay \in Nat
  BY PatientInTime DEF ShortJob
<1>3. CASE /\ job["short"].step = "fetch"
           /\ WrittenSince(job["short"].loaded, job["short"].since - MaxDelay)
  <2>1. job["short"].since - MaxDelay \in Int /\ job["short"].since - MaxDelay <= now - MaxDelay
    BY <1>2
  <2>5. row' # Cache!NoRow /\ row'.value["transferable"] # job["short"].loaded.value["transferable"]
           => held'["transferable"][row'.value["transferable"]] >= job["short"].since - MaxDelay
    BY <1>3, <2>1, WrittenKept
  <2>2. WrittenSince(job["short"].loaded, job["short"].since - MaxDelay)'
    BY <1>1, <2>5 DEF WrittenSince, HeldShort, Cache!HeldSince
  <2> QED BY <1>1, <1>3, <2>2 DEF ShortJob
<1>4. CASE /\ job["short"].step = "write"
           /\ WrittenSince(job["short"].loaded, job["short"].since - 2 * MaxDelay)
           /\ RefreshedAt(job["short"].value, job["short"].loaded, job["short"].since)
  <2>1. /\ job["short"].since - 2 * MaxDelay \in Int
        /\ job["short"].since - 2 * MaxDelay <= now - MaxDelay
    BY <1>2
  <2>5. row' # Cache!NoRow /\ row'.value["transferable"] # job["short"].loaded.value["transferable"]
           => held'["transferable"][row'.value["transferable"]] >= job["short"].since - 2 * MaxDelay
    BY <1>4, <2>1, WrittenKept
  <2>2. WrittenSince(job["short"].loaded, job["short"].since - 2 * MaxDelay)'
    BY <1>1, <2>5 DEF WrittenSince, HeldShort, Cache!HeldSince
  <2>3. RefreshedAt(job["short"].value, job["short"].loaded, job["short"].since)'
    BY <1>1, <1>2, <1>4, RefreshedKept DEF RefreshedAt, HeldShort, Cache!HeldSince
  <2> QED BY <1>1, <1>4, <2>2, <2>3 DEF ShortJob
<1> QED BY <1>3, <1>4 DEF ShortJob

\* A watcher that goes on stays right about the row.
LEMMA WatchKept ==
    ASSUME CacheTypes, CacheTypes', HeldGrows, RowKept, WatchJob, Patient("watch")
    PROVE  WatchJob'
<1> SUFFICES ASSUME Cache!Working("watch"), Cache!Working("watch")'
             PROVE  WatchJob'
  BY DEF WatchJob, Patient, Cache!Working
<1>1. /\ InTime("watch")' /\ LoadedTyped("watch")' /\ job'["watch"] = job["watch"]
  BY PatientInTime, LoadedKept DEF WatchJob, Patient
<1>2. /\ job["watch"].since \in Int /\ job["watch"].since <= now /\ now \in Int /\ MaxDelay \in Nat
  BY PatientInTime DEF WatchJob
<1>3. ASSUME job["watch"].refresh
      PROVE  /\ WrittenSince(job["watch"].loaded, job["watch"].since - MaxDelay)'
             /\ RefreshedAt(job["watch"].value, job["watch"].loaded, job["watch"].since)'
  <2>1. job["watch"].since - MaxDelay \in Int /\ job["watch"].since - MaxDelay <= now - MaxDelay
    BY <1>2
  <2>5. row' # Cache!NoRow /\ row'.value["transferable"] # job["watch"].loaded.value["transferable"]
           => held'["transferable"][row'.value["transferable"]] >= job["watch"].since - MaxDelay
    BY <1>3, <2>1, WrittenKept DEF WatchJob
  <2>2. WrittenSince(job["watch"].loaded, job["watch"].since - MaxDelay)'
    BY <1>1, <2>5 DEF WrittenSince, HeldShort, Cache!HeldSince
  <2>3. RefreshedAt(job["watch"].value, job["watch"].loaded, job["watch"].since)'
    BY <1>1, <1>2, <1>3, RefreshedKept DEF WatchJob, RefreshedAt, HeldShort, Cache!HeldSince
  <2> QED BY <2>2, <2>3
<1> QED BY <1>1, <1>3 DEF WatchJob

\* A registration that goes on stays right about the row and the source.
LEMMA AdminKept ==
    ASSUME CacheTypes, CacheTypes', HeldGrows, RowKept, AdminJob, Patient("admin"),
           Cache!Working("admin") =>
              /\ ~onList' /\ source'["max_holding_quantity"] = source["max_holding_quantity"]
              /\ (row # Cache!NoRow => row' # Cache!NoRow)
    PROVE  AdminJob'
<1> SUFFICES ASSUME Cache!Working("admin"), Cache!Working("admin")'
             PROVE  AdminJob'
  BY DEF AdminJob, Patient, Cache!Working
<1> DEFINE a == job["admin"]
<1>1. /\ InTime("admin")' /\ LoadedTyped("admin")' /\ job'["admin"] = a
  BY PatientInTime, LoadedKept DEF AdminJob, Patient
<1>2. /\ a.since \in Int /\ a.since <= now /\ now \in Int /\ MaxDelay \in Nat
  BY PatientInTime DEF AdminJob
<1>3. a.value \in [Cache!Column -> Cache!Value] /\ ~onList'
  BY DEF AdminJob
<1>6. a.cached \in BOOLEAN
  BY DEF AdminJob
<1>4. ASSUME ~a.cached
      PROVE  /\ a.value["max_holding_quantity"] = source'["max_holding_quantity"]
             /\ held'["transferable"][a.value["transferable"]] >= a.since
  <2>1. /\ a.value["transferable"] \in Cache!Value /\ "transferable" \in Cache!Column
        /\ held["transferable"][a.value["transferable"]] >= a.since
    BY <1>3, <1>4 DEF AdminJob, HeldShort, Cache!HeldSince, Cache!Column
  <2> QED BY <1>2, <1>4, <2>1, HeldKept DEF AdminJob
<1>5. ASSUME a.cached
      PROVE  /\ row' # Cache!NoRow
             /\ WrittenSince(a.loaded, a.since - MaxDelay)'
             /\ \/ RefreshedAt(a.value, a.loaded, a.since)'
                \/ /\ a.value = a.loaded.value /\ a.loaded.short >= a.since - ShortTTL
                   /\ HeldShort(a.value, a.loaded.short - 2 * MaxDelay)'
  <2>1. a.since - MaxDelay \in Int /\ a.since - MaxDelay <= now - MaxDelay
    BY <1>2
  <2>5. row' # Cache!NoRow /\ row'.value["transferable"] # a.loaded.value["transferable"]
           => held'["transferable"][row'.value["transferable"]] >= a.since - MaxDelay
    BY <1>5, <2>1, WrittenKept DEF AdminJob
  <2>2. WrittenSince(a.loaded, a.since - MaxDelay)'
    BY <1>1, <2>5 DEF WrittenSince, HeldShort, Cache!HeldSince
  <2>3. CASE RefreshedAt(a.value, a.loaded, a.since)
    <3>1. RefreshedAt(a.value, a.loaded, a.since)'
      BY <1>1, <1>2, <2>3, RefreshedKept DEF RefreshedAt, HeldShort, Cache!HeldSince
    <3> QED BY <1>5, <2>2, <3>1 DEF AdminJob
  <2>4. CASE /\ a.value = a.loaded.value /\ a.loaded.short >= a.since - ShortTTL
             /\ HeldShort(a.value, a.loaded.short - 2 * MaxDelay)
    <3>1. a.loaded.short \in -1..now
      BY DEF AdminJob, LoadedTyped
    <3>2. a.value["transferable"] \in Cache!Value /\ "transferable" \in Cache!Column
      BY <1>3 DEF Cache!Column
    <3>3. a.loaded.short - 2 * MaxDelay \in Int
      BY <1>2, <3>1
    <3>4. HeldShort(a.value, a.loaded.short - 2 * MaxDelay)'
      BY <1>1, <2>4, <3>2, <3>3, HeldKept DEF HeldShort, Cache!HeldSince
    <3> QED BY <1>1, <1>5, <2>2, <2>4, <3>4 DEF AdminJob
  <2> QED BY <1>5, <2>3, <2>4 DEF AdminJob
<1> QED BY <1>1, <1>3, <1>6, <1>4, <1>5 DEF AdminJob, HeldShort, Cache!HeldSince

------------------------------------------------------------------------------
(* The steps of the writers. *)

\* One process takes a step, the others go on.
LEMMA OneJob ==
    ASSUME CacheTypes, NEW p \in Cache!Process, NEW what, job' = [job EXCEPT ![p] = what]
    PROVE  /\ job'[p] = what /\ DOMAIN job' = Cache!Process
           /\ \A q \in Cache!Process : q # p => job'[q] = job[q]
BY DEF CacheTypes

\* As long as the clock stands still everybody is in time.
LEMMA AllPatient ==
    ASSUME CacheInv, now' = now, NEW p, \A q \in Cache!Process : q # p => job'[q] = job[q]
    PROVE  \A q \in Cache!Process : q # p => Patient(q)
<1>1. \A q \in Cache!Process : Cache!Working(q) => now - job[q].since <= MaxDelay
  BY DEF CacheInv, DetailJob, ShortJob, WatchJob, AdminJob, InTime, Cache!Process
<1> QED BY <1>1 DEF Patient

\* What the others hold, and their moments, stay right.
LEMMA OthersKept ==
    ASSUME CacheInv, CacheTypes', HeldGrows, RowKept,
           NEW p, \A q \in Cache!Process : q # p => Patient(q),
           Cache!Working("admin") =>
              /\ ~onList' /\ source'["max_holding_quantity"] = source["max_holding_quantity"]
              /\ (row # Cache!NoRow => row' # Cache!NoRow)
    PROVE  /\ p # "detail" => DetailJob'
           /\ p # "short" => ShortJob'
           /\ p # "watch" => WatchJob'
           /\ p # "admin" => AdminJob'
<1>1. ASSUME p # "detail" PROVE DetailJob'
  <2>1. Patient("detail")
    BY <1>1 DEF Cache!Process
  <2> QED BY <2>1, DetailKept DEF CacheInv
<1>2. ASSUME p # "short" PROVE ShortJob'
  <2>1. Patient("short")
    BY <1>2 DEF Cache!Process
  <2> QED BY <2>1, ShortKept DEF CacheInv
<1>3. ASSUME p # "watch" PROVE WatchJob'
  <2>1. Patient("watch")
    BY <1>3 DEF Cache!Process
  <2> QED BY <2>1, WatchKept DEF CacheInv
<1>4. ASSUME p # "admin" PROVE AdminJob'
  <2>1. Patient("admin")
    BY <1>4 DEF Cache!Process
  <2> QED BY <2>1, AdminKept DEF CacheInv
<1> QED BY <1>1, <1>2, <1>3, <1>4

\* A process that has finished owes nothing.
LEMMA IdleJob ==
    ASSUME NEW p, job'[p] = Cache!Idle
    PROVE  /\ ~Cache!Working(p)'
           /\ p = "detail" => DetailJob'
           /\ p = "short" => ShortJob'
           /\ p = "watch" => WatchJob'
           /\ p = "admin" => AdminJob'
BY DEF Cache!Working, Cache!Idle, DetailJob, ShortJob, WatchJob, AdminJob

\* With the sources and the clock nothing changes that is held.
LEMMA SameSources ==
    ASSUME CacheTypes, PresentHeld, HeldSoFar, UNCHANGED <<source, held, now, onList>>
    PROVE  HeldGrows /\ PresentHeld' /\ HeldSoFar'
<1>1. \A c \in Cache!Column, v \in Cache!Value : held[c][v] \in Int
  BY DEF CacheTypes
<1> QED BY <1>1 DEF HeldGrows, PresentHeld, HeldSoFar, Cache!Present

\* A row that stays is no less fresh.
LEMMA RowStays ==
    ASSUME CacheTypes, CacheTypes', HeldGrows, RowFresh, UNCHANGED <<row, onList>>
    PROVE  RowFresh' /\ RowKept
<1>1. RowKept
  BY DEF RowKept
<1>2. ASSUME row # Cache!NoRow
      PROVE  /\ held'["max_holding_quantity"][row.value["max_holding_quantity"]] >= row.created
             /\ held'["transferable"][row.value["transferable"]]
                   >= row.short - 2 * MaxDelay - IF onList THEN ShortTTL ELSE 0
  <2>1. /\ row.value["max_holding_quantity"] \in Cache!Value
        /\ "max_holding_quantity" \in Cache!Column
        /\ row.value["transferable"] \in Cache!Value /\ "transferable" \in Cache!Column
        /\ row.created \in Int
        /\ row.short - 2 * MaxDelay - (IF onList THEN ShortTTL ELSE 0) \in Int
    BY CacheBounds DEF CacheTypes, Cache!Column
  <2> QED BY <1>2, <2>1, HeldKept DEF RowFresh, HeldShort, Cache!HeldSince
<1> QED BY <1>1, <1>2 DEF RowFresh, HeldShort, Cache!HeldSince

\* What was told stays in order.
LEMMA SameTold ==
    ASSUME ToldChain, UNCHANGED <<stored, told>>
    PROVE  ToldChain'
BY DEF ToldChain, Cache!ToldInOrder

\* The clock advances when nobody is late.
LEMMA CacheTick == ASSUME CacheInv, Cache!Tick PROVE CacheInv'
<1>1. /\ now < CacheTime /\ now' = now + 1
      /\ held' = [c \in Cache!Column |-> [held[c] EXCEPT ![Cache!Present(c)] = now + 1]]
      /\ UNCHANGED <<template, running, source, onList, row, job, stored, told, changes>>
      /\ \A p \in Cache!Process : Cache!Working(p) => now - job[p].since < MaxDelay
  BY DEF Cache!Tick
<1>2. /\ now \in Nat /\ MaxDelay \in Nat /\ CacheTime \in Nat
      /\ held \in [Cache!Column -> [Cache!Value -> Int]]
      /\ \A c \in Cache!Column : Cache!Present(c) \in Cache!Value /\ held[c][Cache!Present(c)] = now
  BY CacheBounds DEF CacheInv, CacheTypes, PresentHeld, Cache!Present, Cache!Value
<1>3. held' \in [Cache!Column -> [Cache!Value -> Int]]
  BY <1>1, <1>2
<1>4. CacheTypes'
  <2>1. now' \in 0..CacheTime /\ -1..now \subseteq -1..now'
    BY <1>1, <1>2
  <2>2. row' \in [value : [Cache!Column -> Cache!Value], created : -1..now', short : -1..now']
    BY <1>1, <2>1 DEF CacheInv, CacheTypes
  <2> QED BY <1>1, <1>3, <2>1, <2>2 DEF CacheInv, CacheTypes
<1>5. PresentHeld'
  <2>1. \A c \in Cache!Column : Cache!Present(c)' = Cache!Present(c)
    BY <1>1 DEF Cache!Present
  <2> QED BY <1>1, <1>2, <2>1 DEF PresentHeld
<1>6. HeldGrows
  <2>1. ASSUME NEW c \in Cache!Column, NEW v \in Cache!Value PROVE held'[c][v] >= held[c][v]
    <3>1. held'[c][v] = IF v = Cache!Present(c) THEN now + 1 ELSE held[c][v]
      BY <1>1, <1>2
    <3>2. held[c][v] \in Int
      BY <1>2
    <3> QED BY <1>2, <3>1, <3>2
  <2> QED BY <2>1 DEF HeldGrows
<1>10. HeldSoFar'
  <2>1. ASSUME NEW c \in Cache!Column, NEW v \in Cache!Value PROVE held'[c][v] <= now'
    <3>1. held'[c][v] = IF v = Cache!Present(c) THEN now + 1 ELSE held[c][v]
      BY <1>1, <1>2
    <3>2. held[c][v] \in Int /\ held[c][v] <= now
      BY <1>2 DEF CacheInv, HeldSoFar
    <3> QED BY <1>1, <1>2, <3>1, <3>2
  <2> QED BY <2>1 DEF HeldSoFar
<1>7. RowFresh' /\ RowKept
  BY <1>1, <1>4, <1>6, RowStays DEF CacheInv
<1>8. \A q \in Cache!Process : q # "nobody" => Patient(q)
  <2>1. ASSUME NEW q \in Cache!Process, Cache!Working(q) PROVE now' - job[q].since <= MaxDelay
    <3>1. job[q].since \in Int
      BY <1>2, <2>1 DEF CacheInv, DetailJob, ShortJob, WatchJob, AdminJob, InTime, Cache!Process
    <3> QED BY <1>1, <1>2, <2>1, <3>1
  <2> QED BY <1>1, <2>1 DEF Patient
<1>11. Cache!Working("admin") =>
          /\ ~onList' /\ source'["max_holding_quantity"] = source["max_holding_quantity"]
          /\ (row # Cache!NoRow => row' # Cache!NoRow)
  BY <1>1 DEF CacheInv, AdminJob
<1>9. DetailJob' /\ ShortJob' /\ WatchJob' /\ AdminJob'
  BY <1>4, <1>6, <1>7, <1>8, <1>11, OthersKept
<1> QED BY <1>1, <1>4, <1>5, <1>10, <1>7, <1>9, SameTold DEF CacheInv

\* A source changes: the new value is held from now on.
LEMMA CacheSourceChanges ==
    ASSUME CacheInv, NEW c \in Cache!Column, Cache!ChangeOf({c}),
           c = "max_holding_quantity" => onList
    PROVE  CacheInv'
<1>1. /\ changes < MaxChanges /\ changes' = changes + 1
      /\ source' = [source EXCEPT ![c] = 3 - source[c]]
      /\ held' = [held EXCEPT ![c][3 - source[c]] = now]
      /\ UNCHANGED <<template, running, now, onList, row, job, stored, told>>
  BY DEF Cache!ChangeOf, Cache!Happens
<1>2. /\ now \in Int /\ held \in [Cache!Column -> [Cache!Value -> Int]]
      /\ source \in [Cache!Column -> 1..2] /\ 3 - source[c] \in Cache!Value
      /\ 3 - source[c] \in 1..2
      /\ changes \in 0..MaxChanges /\ MaxChanges \in Nat
  BY CacheBounds DEF CacheInv, CacheTypes, Cache!Value
<1>3. CacheTypes'
  <2>1. source' \in [Cache!Column -> 1..2] /\ held' \in [Cache!Column -> [Cache!Value -> Int]]
    BY <1>1, <1>2
  <2>2. changes' \in 0..MaxChanges
    BY <1>1, <1>2
  <2> QED BY <1>1, <2>1, <2>2 DEF CacheInv, CacheTypes
<1>4. \A d \in Cache!Column, v \in Cache!Value :
         held'[d][v] = IF d = c /\ v = 3 - source[c] THEN now ELSE held[d][v]
  BY <1>1, <1>2
<1>5. \A d \in Cache!Column : Cache!Present(d) \in Cache!Value /\ held[d][Cache!Present(d)] = now
  BY DEF CacheInv, CacheTypes, PresentHeld, Cache!Present, Cache!Value
<1>6. \A d \in Cache!Column : Cache!Present(d)' = IF d = c THEN 3 - source[c] ELSE Cache!Present(d)
  BY <1>1, <1>2 DEF Cache!Present
<1>7. PresentHeld'
  BY <1>1, <1>2, <1>4, <1>5, <1>6 DEF PresentHeld
<1>8. HeldGrows
  <2>1. \A d \in Cache!Column, v \in Cache!Value : held[d][v] <= now
    BY DEF CacheInv, HeldSoFar
  <2> QED BY <1>2, <1>4, <2>1 DEF HeldGrows
<1>9. HeldSoFar'
  BY <1>1, <1>2, <1>4 DEF CacheInv, HeldSoFar
<1>10. RowFresh' /\ RowKept
  BY <1>1, <1>3, <1>8, RowStays DEF CacheInv
<1>11. \A q \in Cache!Process : q # "nobody" => Patient(q)
  BY <1>1, AllPatient
<1>12. Cache!Working("admin") =>
          /\ ~onList'
          /\ source'["max_holding_quantity"] = source["max_holding_quantity"]
          /\ (row # Cache!NoRow => row' # Cache!NoRow)
  BY <1>1, <1>2 DEF CacheInv, AdminJob, Cache!Column
<1>13. DetailJob' /\ ShortJob' /\ WatchJob' /\ AdminJob'
  BY <1>3, <1>8, <1>10, <1>11, <1>12, OthersKept
<1> QED BY <1>1, <1>3, <1>7, <1>9, <1>10, <1>13, SameTold DEF CacheInv

\* A process reads and goes to its next step; its own job is shown to be right.
LEMMA CacheReads ==
    ASSUME CacheInv, NEW p \in Cache!Process, NEW what, job' = [job EXCEPT ![p] = what],
           UNCHANGED <<template, running, source, held, now, onList, row, stored, told, changes>>,
           p = "detail" => DetailJob', p = "short" => ShortJob',
           p = "watch" => WatchJob', p = "admin" => AdminJob'
    PROVE  CacheInv'
<1>1. /\ DOMAIN job' = Cache!Process
      /\ \A q \in Cache!Process : q # p => job'[q] = job[q]
  BY OneJob DEF CacheInv
<1>2. CacheTypes'
  BY <1>1 DEF CacheInv, CacheTypes
<1>3. HeldGrows /\ PresentHeld' /\ HeldSoFar'
  BY SameSources DEF CacheInv
<1>4. RowFresh' /\ RowKept
  BY <1>2, <1>3, RowStays DEF CacheInv
<1>5. \A q \in Cache!Process : q # p => Patient(q)
  BY <1>1, AllPatient
<1>6. Cache!Working("admin") =>
          /\ ~onList' /\ source'["max_holding_quantity"] = source["max_holding_quantity"]
          /\ (row # Cache!NoRow => row' # Cache!NoRow)
  BY DEF CacheInv, AdminJob
<1>7. DetailJob' /\ ShortJob' /\ WatchJob' /\ AdminJob'
  BY <1>2, <1>3, <1>4, <1>5, <1>6, OthersKept
<1> QED BY <1>2, <1>3, <1>4, <1>7, SameTold DEF CacheInv

\* A process commits and is done: what it writes to the row is shown to be fresh.
LEMMA CacheWrites ==
    ASSUME CacheInv, NEW p \in Cache!Process, job' = [job EXCEPT ![p] = Cache!Idle],
           UNCHANGED <<template, running, source, held, now, onList, changes>>,
           row' \in [value : [Cache!Column -> Cache!Value], created : -1..now, short : -1..now],
           stored' \in Cache!Value \union {-1}, RowKept, RowFresh', ToldChain',
           row # Cache!NoRow => row' # Cache!NoRow
    PROVE  CacheInv'
<1>1. /\ DOMAIN job' = Cache!Process /\ job'[p] = Cache!Idle
      /\ \A q \in Cache!Process : q # p => job'[q] = job[q]
  BY OneJob DEF CacheInv
<1>2. CacheTypes'
  BY <1>1 DEF CacheInv, CacheTypes
<1>3. HeldGrows /\ PresentHeld' /\ HeldSoFar'
  BY SameSources DEF CacheInv
<1>5. \A q \in Cache!Process : q # p => Patient(q)
  BY <1>1, AllPatient
<1>6. Cache!Working("admin") =>
          /\ ~onList' /\ source'["max_holding_quantity"] = source["max_holding_quantity"]
          /\ (row # Cache!NoRow => row' # Cache!NoRow)
  BY DEF CacheInv, AdminJob
<1>7. DetailJob' /\ ShortJob' /\ WatchJob' /\ AdminJob'
  BY <1>1, <1>2, <1>3, <1>5, <1>6, OthersKept, IdleJob
<1> QED BY <1>2, <1>3, <1>7 DEF CacheInv

\* batch/indexer_Token_Detail.py
LEMMA CacheDetail ==
    ASSUME CacheInv, Cache!TokenDetailStep
    PROVE  CacheInv'
<1>1. CASE Cache!DetailFetch
  <2> DEFINE what == [step |-> "write", since |-> now, value |-> Cache!Fetched(Cache!Detail)]
  <2>1. /\ job' = [job EXCEPT !["detail"] = what]
        /\ UNCHANGED <<template, running, source, held, now, onList, row, stored, told, changes>>
    BY <1>1 DEF Cache!DetailFetch, Cache!Begin
  <2>2. job'["detail"] = what
    BY <2>1, OneJob DEF CacheInv, Cache!Process
  <2>3. /\ Cache!Fetched(Cache!Detail) \in [Cache!Column -> Cache!Value]
        /\ HeldAll(Cache!Fetched(Cache!Detail), now)
    BY FetchedHeld DEF CacheInv
  <2>4. now \in Nat /\ MaxDelay \in Nat
    BY CacheBounds DEF CacheInv, CacheTypes
  <2>5. DetailJob'
    BY <2>1, <2>2, <2>3, <2>4 DEF DetailJob, InTime, HeldAll, Cache!HeldSince
  <2> HIDE DEF what
  <2> QED BY <2>1, <2>5, CacheReads DEF Cache!Process
<1>2. CASE Cache!DetailWrite
  <2> DEFINE j == job["detail"]
  <2>1. /\ job' = [job EXCEPT !["detail"] = Cache!Idle]
        /\ row' = [value |-> j.value, created |-> j.since, short |-> j.since]
        /\ UNCHANGED <<template, running, source, held, now, onList, stored, told, changes>>
    BY <1>2 DEF Cache!DetailWrite, Cache!Finish
  <2>2. /\ j.value \in [Cache!Column -> Cache!Value] /\ j.since \in 0..now
        /\ now - j.since <= MaxDelay
        /\ \A c \in Cache!Column : held[c][j.value[c]] >= j.since /\ j.value[c] \in Cache!Value
    BY <1>2 DEF CacheInv, Cache!DetailWrite, DetailJob, InTime, HeldAll, Cache!HeldSince
  <2>3. /\ now \in Nat /\ MaxDelay \in Nat /\ ShortTTL \in Nat
        /\ \A c \in Cache!Column, v \in Cache!Value : held[c][v] \in Int
    BY CacheBounds DEF CacheInv, CacheTypes
  <2> HIDE DEF j
  <2>4. row' \in [value : [Cache!Column -> Cache!Value], created : -1..now, short : -1..now]
    BY <2>1, <2>2, <2>3
  <2>5. row' # Cache!NoRow
    BY <2>1, <2>2, <2>3 DEF Cache!NoRow
  <2>6. "transferable" \in Cache!Column /\ "max_holding_quantity" \in Cache!Column
    BY DEF Cache!Column
  <2>7. RowKept
    <3>1. held["transferable"][j.value["transferable"]] >= now - MaxDelay
      BY <2>2, <2>3, <2>6
    <3> QED BY <2>1, <3>1 DEF RowKept
  <2>8. RowFresh'
    <3>1. held["transferable"][j.value["transferable"]]
             >= j.since - 2 * MaxDelay - IF onList THEN ShortTTL ELSE 0
      BY <2>2, <2>3, <2>6
    <3> QED BY <2>1, <2>2, <2>6, <3>1 DEF RowFresh, HeldShort, Cache!HeldSince
  <2>9. ToldChain' /\ stored' \in Cache!Value \union {-1}
    BY <2>1, SameTold DEF CacheInv, CacheTypes
  <2> QED BY <2>1, <2>4, <2>5, <2>7, <2>8, <2>9, CacheWrites DEF Cache!Process
<1> QED BY <1>1, <1>2 DEF Cache!TokenDetailStep

\* What an UPDATE of the short-term column makes of a row: fresh at the new stamp t, if what
\* was fetched then is, and what was written since the row was loaded is from t - d or later.
LEMMA UpdateFresh ==
    ASSUME CacheTypes, NEW loaded, NEW value, NEW t \in 0..now, NEW d \in Nat, NEW new,
           row # Cache!NoRow,
           loaded \in [value : [Cache!Column -> Cache!Value], created : -1..now, short : -1..now],
           RefreshedAt(value, loaded, t), WrittenSince(loaded, t - d),
           new = Cache!UpdateOf(row, loaded.value, value, row.created, t)
    PROVE  /\ new \in [value : [Cache!Column -> Cache!Value], created : -1..now, short : -1..now]
           /\ new # Cache!NoRow /\ new.created = row.created /\ new.short = t
           /\ new.value["max_holding_quantity"] = row.value["max_holding_quantity"]
           /\ \/ new.value["transferable"] = row.value["transferable"]
              \/ HeldShort(new.value, t)
           /\ HeldShort(new.value, t - d)
<1>1. /\ now \in Nat /\ "transferable" \in Cache!Column /\ "max_holding_quantity" \in Cache!Column
      /\ row \in [value : [Cache!Column -> Cache!Value], created : -1..now, short : -1..now]
      /\ \A v \in Cache!Value : held["transferable"][v] \in Int
  BY CacheBounds DEF CacheTypes, Cache!Column
<1>2. /\ value \in [Cache!Column -> Cache!Value]
      /\ value["max_holding_quantity"] = loaded.value["max_holding_quantity"]
      /\ held["transferable"][value["transferable"]] >= t
  BY DEF RefreshedAt, HeldShort, Cache!HeldSince
<1>3. new = [value |-> [c \in Cache!Column |-> IF value[c] # loaded.value[c] THEN value[c]
                                               ELSE row.value[c]],
             created |-> row.created, short |-> t]
  BY DEF Cache!UpdateOf
<1>4. new \in [value : [Cache!Column -> Cache!Value], created : -1..now, short : -1..now]
  BY <1>1, <1>2, <1>3
<1>5. new # Cache!NoRow /\ new.created = row.created /\ new.short = t
  BY <1>1, <1>3 DEF Cache!NoRow
<1>6. new.value["max_holding_quantity"] = row.value["max_holding_quantity"]
  BY <1>1, <1>2, <1>3
<1>7. CASE value["transferable"] # loaded.value["transferable"]
  <2>1. new.value["transferable"] = value["transferable"]
    BY <1>1, <1>3, <1>7
  <2>2. held["transferable"][value["transferable"]] >= t - d
    BY <1>1, <1>2
  <2> QED BY <1>2, <1>4, <1>5, <1>6, <2>1, <2>2 DEF HeldShort, Cache!HeldSince
<1>8. CASE value["transferable"] = loaded.value["transferable"]
  <2>1. new.value["transferable"] = row.value["transferable"]
    BY <1>1, <1>3, <1>8
  <2>2. held["transferable"][row.value["transferable"]] >= t - d
    <3>1. CASE row.value["transferable"] = loaded.value["transferable"]
      BY <1>1, <1>2, <1>8, <3>1
    <3>2. CASE row.value["transferable"] # loaded.value["transferable"]
      BY <3>2 DEF WrittenSince, HeldShort, Cache!HeldSince
    <3> QED BY <3>1, <3>2
  <2> QED BY <1>4, <1>5, <1>6, <2>1, <2>2 DEF HeldShort, Cache!HeldSince
<1> QED BY <1>7, <1>8

\* Such an UPDATE keeps the row fresh.
LEMMA UpdateKeepsFresh ==
    ASSUME CacheInv, NEW loaded, NEW value, NEW t \in 0..now, NEW d \in Nat,
           row # Cache!NoRow, d <= 2 * MaxDelay, now - t <= MaxDelay,
           loaded \in [value : [Cache!Column -> Cache!Value], created : -1..now, short : -1..now],
           RefreshedAt(value, loaded, t), WrittenSince(loaded, t - d),
           row' = Cache!UpdateOf(row, loaded.value, value, row.created, t),
           UNCHANGED <<held, now, onList>>
    PROVE  /\ row' \in [value : [Cache!Column -> Cache!Value], created : -1..now, short : -1..now]
           /\ row' # Cache!NoRow /\ RowKept /\ RowFresh'
<1>1. /\ row' \in [value : [Cache!Column -> Cache!Value], created : -1..now, short : -1..now]
      /\ row' # Cache!NoRow /\ row'.created = row.created /\ row'.short = t
      /\ row'.value["max_holding_quantity"] = row.value["max_holding_quantity"]
      /\ \/ row'.value["transferable"] = row.value["transferable"]
         \/ HeldShort(row'.value, t)
      /\ HeldShort(row'.value, t - d)
  BY UpdateFresh DEF CacheInv
<1>2. /\ now \in Nat /\ MaxDelay \in Nat /\ ShortTTL \in Nat
      /\ held["transferable"][row'.value["transferable"]] \in Int
  BY <1>1, CacheBounds DEF CacheInv, CacheTypes, Cache!Column
<1>3. RowKept
  BY <1>1, <1>2 DEF RowKept, HeldShort, Cache!HeldSince
<1>4. held["transferable"][row'.value["transferable"]]
         >= t - 2 * MaxDelay - IF onList THEN ShortTTL ELSE 0
  <2>1. held["transferable"][row'.value["transferable"]] >= t - d
    BY <1>1 DEF HeldShort, Cache!HeldSince
  <2> QED BY <1>2, <2>1
<1>5. held["max_holding_quantity"][row.value["max_holding_quantity"]] >= row.created
  BY DEF CacheInv, RowFresh, Cache!HeldSince
<1> QED BY <1>1, <1>3, <1>4, <1>5 DEF RowFresh, HeldShort, Cache!HeldSince

\* batch/indexer_Token_Detail_ShortTerm.py
LEMMA CacheShortTerm ==
    ASSUME CacheInv, Cache!ShortTermStep
    PROVE  CacheInv'
<1>1. now \in Nat /\ MaxDelay \in Nat
  BY CacheBounds DEF CacheInv, CacheTypes
<1>2. CASE Cache!ShortStart
  <2> DEFINE what == [step |-> "fetch", since |-> now, loaded |-> row]
  <2>1. /\ job' = [job EXCEPT !["short"] = what]
        /\ UNCHANGED <<template, running, source, held, now, onList, row, stored, told, changes>>
    BY <1>2 DEF Cache!ShortStart, Cache!Begin
  <2>2. job'["short"] = what
    BY <2>1, OneJob DEF CacheInv, Cache!Process
  <2>3. InTime("short")' /\ LoadedTyped("short")'
    BY <1>1, <2>1, <2>2 DEF InTime, LoadedTyped, CacheInv, CacheTypes
  <2>4. WrittenSince(row, now - MaxDelay)'
    BY <2>1 DEF WrittenSince
  <2>5. ShortJob'
    BY <2>1, <2>2, <2>3, <2>4 DEF ShortJob, WrittenSince, HeldShort, Cache!HeldSince
  <2> HIDE DEF what
  <2> QED BY <2>1, <2>5, CacheReads DEF Cache!Process
<1>3. CASE Cache!ShortFetch
  <2> DEFINE loaded == job["short"].loaded
             what == [step |-> "write", since |-> now, loaded |-> loaded,
                      value |-> Cache!Refreshed(loaded)]
  <2>1. /\ job' = [job EXCEPT !["short"] = what]
        /\ UNCHANGED <<template, running, source, held, now, onList, row, stored, told, changes>>
    BY <1>3 DEF Cache!ShortFetch, Cache!Begin
  <2>2. job'["short"] = what
    BY <2>1, OneJob DEF CacheInv, Cache!Process
  <2>3. /\ loaded \in [value : [Cache!Column -> Cache!Value], created : -1..now, short : -1..now]
        /\ WrittenSince(loaded, job["short"].since - MaxDelay)
        /\ job["short"].since \in 0..now /\ now - job["short"].since <= MaxDelay
    BY <1>3 DEF Cache!ShortFetch, CacheInv, ShortJob, LoadedTyped, InTime
  <2> HIDE DEF loaded
  <2>4. RefreshedAt(Cache!Refreshed(loaded), loaded, now)
    BY <2>3, FetchedHeld DEF CacheInv
  <2>5. ASSUME row # Cache!NoRow, row.value["transferable"] # loaded.value["transferable"]
        PROVE  held["transferable"][row.value["transferable"]] >= now - 2 * MaxDelay
    <3>1. held["transferable"][row.value["transferable"]] >= job["short"].since - MaxDelay
      BY <2>3, <2>5 DEF WrittenSince, HeldShort, Cache!HeldSince
    <3>2. held["transferable"][row.value["transferable"]] \in Int
      BY DEF CacheInv, CacheTypes, Cache!Column
    <3> QED BY <1>1, <2>3, <3>1, <3>2
  <2>6. InTime("short")' /\ LoadedTyped("short")'
    BY <1>1, <2>1, <2>2, <2>3 DEF InTime, LoadedTyped
  <2>7. WrittenSince(loaded, now - 2 * MaxDelay) /\ row' = row /\ held' = held /\ now' = now
    BY <2>1, <2>5 DEF WrittenSince, HeldShort, Cache!HeldSince
  <2>8. ShortJob'
    <3>1. job'["short"].loaded = loaded /\ job'["short"].since = now /\ job'["short"].step = "write"
          /\ job'["short"].value = Cache!Refreshed(loaded)
      BY <2>2
    <3> HIDE DEF what
    <3>2. WrittenSince(job["short"].loaded, job["short"].since - 2 * MaxDelay)'
      BY <2>7, <3>1 DEF WrittenSince, HeldShort, Cache!HeldSince
    <3>3. RefreshedAt(job["short"].value, job["short"].loaded, job["short"].since)'
      BY <2>4, <2>7, <3>1 DEF RefreshedAt, HeldShort, Cache!HeldSince
    <3> QED BY <2>6, <3>1, <3>2, <3>3 DEF ShortJob
  <2> HIDE DEF what
  <2> QED BY <2>1, <2>8, CacheReads DEF Cache!Process
<1>4. CASE Cache!ShortWrite
  <2> DEFINE j == job["short"]
  <2>1. /\ job' = [job EXCEPT !["short"] = Cache!Idle]
        /\ row' = IF row = Cache!NoRow THEN Cache!NoRow
                  ELSE Cache!UpdateOf(row, j.loaded.value, j.value, row.created, j.since)
        /\ UNCHANGED <<template, running, source, held, now, onList, stored, told, changes>>
    BY <1>4 DEF Cache!ShortWrite, Cache!Finish
  <2>2. /\ j.since \in 0..now /\ now - j.since <= MaxDelay
        /\ j.loaded \in [value : [Cache!Column -> Cache!Value], created : -1..now, short : -1..now]
        /\ RefreshedAt(j.value, j.loaded, j.since) /\ WrittenSince(j.loaded, j.since - 2 * MaxDelay)
    BY <1>4 DEF Cache!ShortWrite, CacheInv, ShortJob, LoadedTyped, InTime
  <2> HIDE DEF j
  <2>3. ToldChain' /\ stored' \in Cache!Value \union {-1}
    BY <2>1, SameTold DEF CacheInv, CacheTypes
  <2>4. /\ row' \in [value : [Cache!Column -> Cache!Value], created : -1..now, short : -1..now]
        /\ RowKept /\ RowFresh' /\ (row # Cache!NoRow => row' # Cache!NoRow)
    <3>1. CASE row = Cache!NoRow
      <4>1. row' = Cache!NoRow /\ row' = row
        BY <2>1, <3>1
      <4> QED BY <4>1 DEF RowKept, RowFresh, CacheInv, CacheTypes
    <3>2. CASE row # Cache!NoRow
      <4>1. row' = Cache!UpdateOf(row, j.loaded.value, j.value, row.created, j.since)
        BY <2>1, <3>2
      <4>2. 2 * MaxDelay \in Nat /\ 2 * MaxDelay <= 2 * MaxDelay
        BY <1>1
      <4> QED BY <2>1, <2>2, <3>2, <4>1, <4>2, UpdateKeepsFresh
    <3> QED BY <3>1, <3>2
  <2> QED BY <2>1, <2>3, <2>4, CacheWrites DEF Cache!Process
<1> QED BY <1>2, <1>3, <1>4 DEF Cache!ShortTermStep

\* What a reader gets is typed; what it refreshed is present.
LEMMA GetTyped ==
    ASSUME CacheInv
    PROVE  /\ Cache!Get \in [Cache!Column -> Cache!Value]
           /\ ~Cache!AliveShort(row) /\ Cache!Alive(row) => RefreshedAt(Cache!Get, row, now)
           /\ Cache!AliveShort(row) /\ Cache!Alive(row) => Cache!Get = row.value
           /\ ~Cache!Alive(row) => HeldAll(Cache!Get, now)
<1>1. /\ row \in [value : [Cache!Column -> Cache!Value], created : -1..now, short : -1..now]
      /\ row.value \in [Cache!Column -> Cache!Value]
  BY DEF CacheInv, CacheTypes
<1>2. /\ Cache!Fetched(Cache!Detail) \in [Cache!Column -> Cache!Value]
      /\ HeldAll(Cache!Fetched(Cache!Detail), now) /\ RefreshedAt(Cache!Refreshed(row), row, now)
  BY <1>1, FetchedHeld DEF CacheInv
<1>3. CASE ~Cache!Alive(row)
  BY <1>2, <1>3 DEF Cache!Get
<1>4. CASE Cache!Alive(row) /\ Cache!AliveShort(row)
  BY <1>1, <1>4 DEF Cache!Get
<1>5. CASE Cache!Alive(row) /\ ~Cache!AliveShort(row)
  BY <1>2, <1>5 DEF Cache!Get, RefreshedAt
<1> QED BY <1>3, <1>4, <1>5

\* A value that is stored continues the chain of what was told.
LEMMA ToldNext ==
    ASSUME ToldChain, stored \in Cache!Value \union {-1}, NEW v \in Cache!Value, stored' = v,
           told' = IF stored \notin {-1, v} THEN Append(told, <<stored, v>>) ELSE told
    PROVE  ToldChain'
<1>1. v # -1
  BY DEF Cache!Value
<1>2. told \in Seq(Cache!Value \X Cache!Value) /\ (stored = -1 => told = <<>>) /\ Cache!ToldInOrder
  BY DEF ToldChain
<1>3. CASE stored \in {-1, v}
  <2>1. told' = told
    BY <1>3
  <2>2. Cache!ToldInOrder'
    BY <1>2, <1>3, <2>1 DEF Cache!ToldInOrder
  <2> QED BY <1>1, <1>2, <2>1, <2>2 DEF ToldChain
<1>4. CASE stored \notin {-1, v}
  <2>1. told' = Append(told, <<stored, v>>) /\ <<stored, v>> \in Cache!Value \X Cache!Value
    BY <1>4
  <2>2. told' \in Seq(Cache!Value \X Cache!Value) /\ Len(told') = Len(told) + 1 /\ Len(told) \in Nat
        /\ told'[Len(told) + 1] = <<stored, v>>
        /\ \A i \in 1..Len(told) : told'[i] = told[i]
    BY <1>2, <2>1
  <2>3. ASSUME NEW i \in 1..Len(told)
        PROVE  told'[i][1] # told'[i][2] /\ told'[i][2] = told'[i + 1][1]
    <3>1. told[i][1] # told[i][2] /\ told[i][2] = IF i = Len(told) THEN stored ELSE told[i + 1][1]
      BY <1>2, <2>3 DEF Cache!ToldInOrder
    <3>2. CASE i = Len(told)
      BY <2>2, <2>3, <3>1, <3>2
    <3>3. CASE i # Len(told)
      <4>1. i + 1 \in 1..Len(told)
        BY <2>2, <2>3, <3>3
      <4> QED BY <2>2, <2>3, <3>1, <3>3, <4>1
    <3> QED BY <3>2, <3>3
  <2>4. Cache!ToldInOrder'
    <3> SUFFICES ASSUME NEW i \in 1..Len(told) + 1
                 PROVE  /\ told'[i][1] # told'[i][2]
                        /\ told'[i][2] = IF i = Len(told) + 1 THEN v ELSE told'[i + 1][1]
      BY <2>2 DEF Cache!ToldInOrder
    <3>1. CASE i = Len(told) + 1
      BY <1>4, <2>2, <3>1
    <3>2. CASE i # Len(told) + 1
      <4>1. i \in 1..Len(told)
        BY <2>2, <3>2
      <4> QED BY <2>3, <3>2, <4>1
    <3> QED BY <3>1, <3>2
  <2> QED BY <1>1, <2>2, <2>4 DEF ToldChain
<1> QED BY <1>3, <1>4

\* The watcher of an attribute.
LEMMA CacheAttribute ==
    ASSUME CacheInv, Cache!AttributeStep
    PROVE  CacheInv'
<1>1. now \in Nat /\ MaxDelay \in Nat
  BY CacheBounds DEF CacheInv, CacheTypes
<1>2. CASE Cache!WatchGet
  <2> DEFINE refresh == Cache!Alive(row) /\ ~Cache!AliveShort(row)
             what == [step |-> "write", since |-> now, value |-> Cache!Get, loaded |-> row,
                      refresh |-> refresh]
  <2>1. /\ job' = [job EXCEPT !["watch"] = what]
        /\ UNCHANGED <<template, running, source, held, now, onList, row, stored, told, changes>>
    BY <1>2 DEF Cache!WatchGet, Cache!Begin
  <2>2. job'["watch"] = what
    BY <2>1, OneJob DEF CacheInv, Cache!Process
  <2>3. refresh \in BOOLEAN
    OBVIOUS
  <2>4. /\ Cache!Get \in [Cache!Column -> Cache!Value]
        /\ refresh => RefreshedAt(Cache!Get, row, now)
    BY GetTyped
  <2> HIDE DEF refresh
  <2>5. /\ job'["watch"].loaded = row /\ job'["watch"].since = now
        /\ job'["watch"].refresh = refresh
        /\ job'["watch"].value = Cache!Get
    BY <2>2
  <2> HIDE DEF what
  <2>6. InTime("watch")' /\ LoadedTyped("watch")'
    BY <1>1, <2>1, <2>5 DEF InTime, LoadedTyped, CacheInv, CacheTypes
  <2>7. WrittenSince(job["watch"].loaded, job["watch"].since - MaxDelay)'
    BY <2>1, <2>5 DEF WrittenSince
  <2>8. refresh => RefreshedAt(job["watch"].value, job["watch"].loaded, job["watch"].since)'
    BY <2>1, <2>4, <2>5 DEF RefreshedAt, HeldShort, Cache!HeldSince
  <2>9. job'["watch"].refresh \in BOOLEAN /\ job'["watch"].value \in [Cache!Column -> Cache!Value]
    BY <2>3, <2>4, <2>5
  <2>10. WatchJob'
    BY <2>5, <2>6, <2>7, <2>8, <2>9 DEF WatchJob
  <2> QED BY <2>1, <2>10, CacheReads DEF Cache!Process
<1>3. CASE Cache!WatchCommit
  <2> DEFINE w == job["watch"]
  <2>1. /\ job' = [job EXCEPT !["watch"] = Cache!Idle] /\ Cache!Working("watch")
        /\ UNCHANGED <<template, running, source, held, now, onList, changes>>
    BY <1>3 DEF Cache!WatchCommit, Cache!Finish
  <2>2. /\ w.since \in 0..now /\ now - w.since <= MaxDelay
        /\ w.loaded \in [value : [Cache!Column -> Cache!Value], created : -1..now, short : -1..now]
        /\ w.value \in [Cache!Column -> Cache!Value]
        /\ w.refresh =>
              /\ RefreshedAt(w.value, w.loaded, w.since)
              /\ WrittenSince(w.loaded, w.since - MaxDelay)
    BY <2>1 DEF CacheInv, WatchJob, LoadedTyped, InTime
  <2>3. \/ w.refresh /\ row = Cache!NoRow /\ UNCHANGED <<stored, told, row>>
        \/ /\ ~(w.refresh /\ row = Cache!NoRow)
           /\ row' = IF w.refresh
                     THEN Cache!UpdateOf(row, w.loaded.value, w.value, row.created, w.since)
                     ELSE row
           /\ stored' = w.value["transferable"]
           /\ told' = IF stored \notin {-1, w.value["transferable"]}
                      THEN Append(told, <<stored, w.value["transferable"]>>) ELSE told
    BY <1>3 DEF Cache!WatchCommit, Cache!Attribute
  <2>4. w.value["transferable"] \in Cache!Value
    BY <2>2 DEF Cache!Column
  <2>5. stored \in Cache!Value \union {-1}
    BY DEF CacheInv, CacheTypes
  <2> HIDE DEF w
  <2>6. ToldChain' /\ stored' \in Cache!Value \union {-1}
    <3>1. CASE UNCHANGED <<stored, told, row>>
      BY <2>5, <3>1, SameTold DEF CacheInv
    <3>2. CASE /\ stored' = w.value["transferable"]
               /\ told' = IF stored \notin {-1, w.value["transferable"]}
                          THEN Append(told, <<stored, w.value["transferable"]>>) ELSE told
      BY <2>4, <2>5, <3>2, ToldNext DEF CacheInv
    <3> QED BY <2>3, <3>1, <3>2
  <2>7. /\ row' \in [value : [Cache!Column -> Cache!Value], created : -1..now, short : -1..now]
        /\ RowKept /\ RowFresh' /\ (row # Cache!NoRow => row' # Cache!NoRow)
    <3>1. CASE row' = row
      BY <2>1, <3>1 DEF RowKept, RowFresh, CacheInv, CacheTypes, HeldShort, Cache!HeldSince
    <3>2. CASE /\ w.refresh /\ row # Cache!NoRow
               /\ row' = Cache!UpdateOf(row, w.loaded.value, w.value, row.created, w.since)
      <4>1. MaxDelay \in Nat /\ MaxDelay <= 2 * MaxDelay
        BY <1>1
      <4> QED BY <2>1, <2>2, <3>2, <4>1, UpdateKeepsFresh
    <3> QED BY <2>3, <3>1, <3>2
  <2> QED BY <2>1, <2>6, <2>7, CacheWrites DEF Cache!Process
<1> QED BY <1>2, <1>3 DEF Cache!AttributeStep

\* A registration begins.
LEMMA CacheRegisterStart ==
    ASSUME CacheInv, Cache!RegisterStart
    PROVE  CacheInv'
<1> DEFINE what == [step |-> "write", since |-> now, loaded |-> row, cached |-> Cache!Alive(row),
                    value |-> IF Cache!Alive(row) THEN Cache!Get ELSE source]
<1>1. /\ job' = [job EXCEPT !["admin"] = what] /\ ~onList
      /\ UNCHANGED <<template, running, source, held, now, onList, row, stored, told, changes>>
  BY DEF Cache!RegisterStart, Cache!Begin
<1>2. job'["admin"] = what
  BY <1>1, OneJob DEF CacheInv, Cache!Process
<1>3. Cache!Alive(row) \in BOOLEAN
  BY DEF Cache!Alive
<1>4. /\ job'["admin"].loaded = row /\ job'["admin"].since = now
      /\ job'["admin"].cached = Cache!Alive(row)
      /\ job'["admin"].value = IF Cache!Alive(row) THEN Cache!Get ELSE source
  BY <1>2
<1> HIDE DEF what
<1>5. /\ now \in Nat /\ MaxDelay \in Nat /\ ShortTTL \in Nat
      /\ row \in [value : [Cache!Column -> Cache!Value], created : -1..now, short : -1..now]
      /\ source \in [Cache!Column -> Cache!Value]
  BY CacheBounds DEF CacheInv, CacheTypes, Cache!Value
<1>6. InTime("admin")' /\ LoadedTyped("admin")'
  BY <1>1, <1>4, <1>5 DEF InTime, LoadedTyped
<1>7. /\ job'["admin"].cached \in BOOLEAN
      /\ job'["admin"].value \in [Cache!Column -> Cache!Value]
  BY <1>3, <1>4, <1>5, GetTyped
<1>8. ASSUME ~Cache!Alive(row)
      PROVE  /\ job'["admin"].value["max_holding_quantity"] = source["max_holding_quantity"]
             /\ held["transferable"][job'["admin"].value["transferable"]] >= now
  <2>1. job'["admin"].value = source
    BY <1>4, <1>8
  <2>2. held["transferable"][source["transferable"]] = now
    BY DEF CacheInv, PresentHeld, Cache!Present, Cache!Column
  <2> QED BY <1>5, <2>1, <2>2
<1>9. ASSUME Cache!Alive(row)
      PROVE  /\ row # Cache!NoRow
             /\ \/ RefreshedAt(job'["admin"].value, row, now)
                \/ /\ job'["admin"].value = row.value /\ row.short >= now - ShortTTL
                   /\ HeldShort(row.value, row.short - 2 * MaxDelay)
  <2>1. row # Cache!NoRow /\ job'["admin"].value = Cache!Get
    BY <1>4, <1>9 DEF Cache!Alive
  <2>2. CASE ~Cache!AliveShort(row)
    BY <1>9, <2>1, <2>2, GetTyped
  <2>3. CASE Cache!AliveShort(row)
    <3>1. Cache!Get = row.value
      BY <1>9, <2>3, GetTyped
    <3>2. row.short \in Int /\ row.short + ShortTTL >= now
      BY <1>5, <2>3 DEF Cache!AliveShort
    <3>3. row.short >= now - ShortTTL
      BY <1>5, <3>2
    <3>4. HeldShort(row.value, row.short - 2 * MaxDelay - 0)
      BY <1>1, <2>1 DEF CacheInv, RowFresh
    <3>5. row.short - 2 * MaxDelay - 0 = row.short - 2 * MaxDelay
      BY <1>5, <3>2
    <3> QED BY <2>1, <3>1, <3>3, <3>4, <3>5
  <2> QED BY <2>2, <2>3, <2>1
<1>10. WrittenSince(job["admin"].loaded, job["admin"].since - MaxDelay)'
  BY <1>1, <1>4 DEF WrittenSince
<1>11. AdminJob'
  <2>1. ASSUME ~job'["admin"].cached
        PROVE  /\ job'["admin"].value["max_holding_quantity"] = source'["max_holding_quantity"]
               /\ HeldShort(job["admin"].value, job["admin"].since)'
    BY <1>1, <1>4, <1>8, <2>1 DEF HeldShort, Cache!HeldSince
  <2>2. ASSUME job'["admin"].cached
        PROVE  /\ row' # Cache!NoRow
               /\ \/ RefreshedAt(job["admin"].value, job["admin"].loaded, job["admin"].since)'
                  \/ /\ job'["admin"].value = job'["admin"].loaded.value
                     /\ job'["admin"].loaded.short >= job'["admin"].since - ShortTTL
                     /\ HeldShort(job["admin"].value, job["admin"].loaded.short - 2 * MaxDelay)'
    BY <1>1, <1>4, <1>9, <2>2 DEF RefreshedAt, HeldShort, Cache!HeldSince
  <2> QED BY <1>1, <1>6, <1>7, <1>10, <2>1, <2>2 DEF AdminJob
<1> QED BY <1>1, <1>11, CacheReads DEF Cache!Process

\* A value that happens to be the present one of a column is held now.
LEMMA NowHeld ==
    ASSUME CacheTypes, HeldSoFar, NEW c \in Cache!Column, NEW v \in Cache!Value,
           held' = [held EXCEPT ![c][v] = now], now' = now
    PROVE  /\ HeldGrows /\ HeldSoFar' /\ held' \in [Cache!Column -> [Cache!Value -> Int]]
           /\ held'[c][v] = now
           /\ \A d \in Cache!Column : d # c => held'[d] = held[d]
<1>1. now \in Int /\ held \in [Cache!Column -> [Cache!Value -> Int]]
  BY CacheBounds DEF CacheTypes
<1>2. \A d \in Cache!Column, w \in Cache!Value :
         held'[d][w] = IF d = c /\ w = v THEN now ELSE held[d][w]
  BY <1>1
<1>3. HeldGrows /\ HeldSoFar'
  <2>1. \A d \in Cache!Column, w \in Cache!Value : held[d][w] <= now /\ held[d][w] \in Int
    BY <1>1 DEF HeldSoFar
  <2> QED BY <1>1, <1>2, <2>1 DEF HeldGrows, HeldSoFar
<1> QED BY <1>1, <1>2, <1>3

\* What a registration writes is fresh.
LEMMA RegisteredRow ==
    ASSUME CacheInv, Cache!RegisterCommit
    PROVE  /\ row' \in [value : [Cache!Column -> Cache!Value], created : -1..now, short : -1..now]
           /\ RowKept /\ RowFresh'
<1> DEFINE a == job["admin"]
           loaded == IF a.cached THEN a.loaded ELSE row
<1>1. /\ Cache!Working("admin") /\ onList' = TRUE
      /\ row' = IF row = Cache!NoRow
                THEN [value |-> a.value, created |-> now, short |-> a.since]
                ELSE Cache!UpdateOf(row, loaded.value, a.value, row.created, a.since)
      /\ held' = [held EXCEPT !["max_holding_quantity"][source["max_holding_quantity"]] = now]
      /\ now' = now
  BY DEF Cache!RegisterCommit, Cache!Happens
<1>2. /\ a.since \in 0..now /\ now - a.since <= MaxDelay
      /\ a.loaded \in [value : [Cache!Column -> Cache!Value], created : -1..now, short : -1..now]
      /\ a.cached \in BOOLEAN /\ a.value \in [Cache!Column -> Cache!Value]
  BY <1>1 DEF CacheInv, AdminJob, InTime, LoadedTyped
<1>3. /\ now \in Nat /\ MaxDelay \in Nat /\ ShortTTL \in Nat
      /\ row \in [value : [Cache!Column -> Cache!Value], created : -1..now, short : -1..now]
      /\ source["max_holding_quantity"] \in Cache!Value
      /\ Cache!Column = {"transferable", "max_holding_quantity"}
      /\ CacheTypes /\ HeldSoFar
      /\ held \in [Cache!Column -> [Cache!Value -> Int]]
  BY CacheBounds DEF CacheInv, CacheTypes, Cache!Value, Cache!Column
<1>4. /\ HeldGrows
      /\ held'["max_holding_quantity"][source["max_holding_quantity"]] = now
      /\ held'["transferable"] = held["transferable"]
  BY <1>1, <1>3, NowHeld
<1>5. ASSUME row # Cache!NoRow
      PROVE  held'["max_holding_quantity"][row.value["max_holding_quantity"]] >= row.created
  <2>1. held["max_holding_quantity"][row.value["max_holding_quantity"]] >= row.created
    BY <1>5 DEF CacheInv, RowFresh, Cache!HeldSince
  <2>2. held'["max_holding_quantity"][row.value["max_holding_quantity"]]
           >= held["max_holding_quantity"][row.value["max_holding_quantity"]]
    BY <1>3, <1>4 DEF HeldGrows
  <2>3. held'["max_holding_quantity"][row.value["max_holding_quantity"]] \in Int
    <3>1. held' \in [Cache!Column -> [Cache!Value -> Int]]
      BY <1>1, <1>3, NowHeld
    <3> QED BY <1>3, <3>1
  <2> QED BY <1>3, <2>1, <2>2, <2>3
<1> HIDE DEF a, loaded
<1>6. CASE ~a.cached
  <2>1. /\ a.value["max_holding_quantity"] = source["max_holding_quantity"]
        /\ held["transferable"][a.value["transferable"]] >= a.since
    BY <1>1, <1>6 DEF CacheInv, AdminJob, HeldShort, Cache!HeldSince, a
  <2>2. row'.value = a.value /\ row'.short = a.since /\ row'.created \in -1..now
        /\ row' = [value |-> row'.value, created |-> row'.created, short |-> row'.short]
    <3>1. CASE row = Cache!NoRow
      BY <1>1, <1>3, <3>1 DEF Cache!UpdateOf
    <3>2. CASE row # Cache!NoRow
      <4>1. loaded = row
        BY <1>6 DEF loaded
      <4>2. row' = [value |-> [c \in Cache!Column |-> IF a.value[c] # row.value[c]
                                                    THEN a.value[c] ELSE row.value[c]],
                    created |-> row.created, short |-> a.since]
        BY <1>1, <3>2, <4>1 DEF Cache!UpdateOf
      <4>3. [c \in Cache!Column |-> IF a.value[c] # row.value[c]
                                    THEN a.value[c] ELSE row.value[c]] = a.value
        BY <1>2
      <4> QED BY <1>3, <4>2, <4>3
    <3> QED BY <3>1, <3>2
  <2>3. row' \in [value : [Cache!Column -> Cache!Value], created : -1..now, short : -1..now]
    BY <1>2, <1>3, <2>2
  <2>4. held'["transferable"][row'.value["transferable"]] >= a.since
    BY <1>4, <2>1, <2>2
  <2>5. held["transferable"][a.value["transferable"]] \in Int
    BY <1>2, <1>3
  <2>6. RowKept
    <3>1. held'["transferable"][row'.value["transferable"]] >= now - MaxDelay
      BY <1>2, <1>3, <1>4, <2>2, <2>4, <2>5
    <3> QED BY <3>1 DEF RowKept
  <2>7. held'["transferable"][row'.value["transferable"]] >= a.since - 2 * MaxDelay - ShortTTL
    BY <1>2, <1>3, <1>4, <2>2, <2>4, <2>5
  <2>8. held'["max_holding_quantity"][row'.value["max_holding_quantity"]] >= row'.created
    BY <1>3, <1>4, <2>1, <2>2
  <2> QED BY <1>1, <2>2, <2>3, <2>6, <2>7, <2>8 DEF RowFresh, HeldShort, Cache!HeldSince
<1>7. CASE a.cached
  <2>1. /\ row # Cache!NoRow /\ WrittenSince(a.loaded, a.since - MaxDelay)
        /\ \/ RefreshedAt(a.value, a.loaded, a.since)
           \/ /\ a.value = a.loaded.value /\ a.loaded.short >= a.since - ShortTTL
              /\ HeldShort(a.value, a.loaded.short - 2 * MaxDelay)
    BY <1>1, <1>7 DEF CacheInv, AdminJob, a
  <2>2. row' = Cache!UpdateOf(row, a.loaded.value, a.value, row.created, a.since)
    BY <1>1, <1>7, <2>1 DEF loaded
  <2>3. CASE RefreshedAt(a.value, a.loaded, a.since)
    <3>1. /\ row' \in [value : [Cache!Column -> Cache!Value], created : -1..now, short : -1..now]
          /\ row' # Cache!NoRow /\ row'.created = row.created /\ row'.short = a.since
          /\ row'.value["max_holding_quantity"] = row.value["max_holding_quantity"]
          /\ \/ row'.value["transferable"] = row.value["transferable"]
             \/ HeldShort(row'.value, a.since)
          /\ HeldShort(row'.value, a.since - MaxDelay)
      BY <1>2, <1>3, <2>1, <2>2, <2>3, UpdateFresh DEF CacheInv
    <3>2. held["transferable"][row'.value["transferable"]] \in Int
      BY <1>3, <3>1
    <3>3. RowKept
      <4>1. CASE row'.value["transferable"] = row.value["transferable"]
        BY <2>1, <4>1 DEF RowKept
      <4>2. CASE held["transferable"][row'.value["transferable"]] >= a.since
        <5>1. held'["transferable"][row'.value["transferable"]] >= now - MaxDelay
          BY <1>2, <1>3, <1>4, <3>2, <4>2
        <5> QED BY <5>1 DEF RowKept
      <4> QED BY <3>1, <4>1, <4>2 DEF HeldShort, Cache!HeldSince
    <3>4. held'["transferable"][row'.value["transferable"]]
             >= row'.short - 2 * MaxDelay - ShortTTL
      <4>1. held["transferable"][row'.value["transferable"]] >= a.since - MaxDelay
        BY <3>1 DEF HeldShort, Cache!HeldSince
      <4> QED BY <1>2, <1>3, <1>4, <3>1, <3>2, <4>1
    <3> QED BY <1>1, <1>5, <2>1, <3>1, <3>3, <3>4 DEF RowFresh, HeldShort, Cache!HeldSince
  <2>4. CASE /\ a.value = a.loaded.value /\ a.loaded.short >= a.since - ShortTTL
             /\ HeldShort(a.value, a.loaded.short - 2 * MaxDelay)
    <3>1. row' = [value |-> row.value, created |-> row.created, short |-> a.since]
      <4>1. row' = [value |-> [c \in Cache!Column |-> IF a.value[c] # a.loaded.value[c]
                                                    THEN a.value[c] ELSE row.value[c]],
                    created |-> row.created, short |-> a.since]
        BY <2>2 DEF Cache!UpdateOf
      <4>2. [c \in Cache!Column |-> IF a.value[c] # a.loaded.value[c]
                                    THEN a.value[c] ELSE row.value[c]] = row.value
        BY <1>3, <2>4
      <4> QED BY <4>1, <4>2
    <3>2. row' \in [value : [Cache!Column -> Cache!Value], created : -1..now, short : -1..now]
      BY <1>2, <1>3, <3>1
    <3>3. RowKept
      BY <2>1, <3>1 DEF RowKept
    <3>4. /\ held["transferable"][row.value["transferable"]] \in Int
          /\ a.loaded.short \in -1..now
      BY <1>2, <1>3
    <3>5. held["transferable"][row.value["transferable"]] >= a.since - 2 * MaxDelay - ShortTTL
      <4>1. CASE row.value["transferable"] = a.loaded.value["transferable"]
        <5>1. held["transferable"][row.value["transferable"]] >= a.loaded.short - 2 * MaxDelay
          BY <2>4, <4>1 DEF HeldShort, Cache!HeldSince
        <5>2. a.loaded.short >= a.since - ShortTTL
          BY <2>4
        <5> QED BY <1>2, <1>3, <3>4, <5>1, <5>2
      <4>2. CASE row.value["transferable"] # a.loaded.value["transferable"]
        <5>1. held["transferable"][row.value["transferable"]] >= a.since - MaxDelay
          BY <2>1, <4>2 DEF WrittenSince, HeldShort, Cache!HeldSince
        <5> QED BY <1>2, <1>3, <3>4, <5>1
      <4> QED BY <4>1, <4>2
    <3>6. /\ row'.value = row.value /\ row'.created = row.created /\ row'.short = a.since
      BY <3>1
    <3> QED BY <1>1, <1>4, <1>5, <2>1, <3>2, <3>3, <3>5, <3>6
            DEF RowFresh, HeldShort, Cache!HeldSince
  <2> QED BY <2>1, <2>3, <2>4
<1> QED BY <1>2, <1>6, <1>7

\* The listing and the row are committed together.
LEMMA CacheRegisterCommit ==
    ASSUME CacheInv, Cache!RegisterCommit
    PROVE  CacheInv'
<1>1. /\ job' = [job EXCEPT !["admin"] = Cache!Idle] /\ onList' = TRUE
      /\ held' = [held EXCEPT !["max_holding_quantity"][source["max_holding_quantity"]] = now]
      /\ UNCHANGED <<template, running, source, now, stored, told, changes>>
  BY DEF Cache!RegisterCommit, Cache!Happens, Cache!Finish
<1>2. /\ DOMAIN job' = Cache!Process /\ job'["admin"] = Cache!Idle
      /\ \A q \in Cache!Process : q # "admin" => job'[q] = job[q]
  BY <1>1, OneJob DEF CacheInv, Cache!Process
<1>3. /\ row' \in [value : [Cache!Column -> Cache!Value], created : -1..now, short : -1..now]
      /\ RowKept /\ RowFresh'
  BY RegisteredRow
<1>4. /\ source["max_holding_quantity"] \in Cache!Value
      /\ "max_holding_quantity" \in Cache!Column
      /\ CacheTypes /\ HeldSoFar
  BY DEF CacheInv, CacheTypes, Cache!Value, Cache!Column
<1>5. /\ HeldGrows /\ HeldSoFar' /\ held' \in [Cache!Column -> [Cache!Value -> Int]]
      /\ held'["max_holding_quantity"][source["max_holding_quantity"]] = now
      /\ \A d \in Cache!Column : d # "max_holding_quantity" => held'[d] = held[d]
  BY <1>1, <1>4, NowHeld
<1>6. CacheTypes'
  BY <1>1, <1>2, <1>3, <1>5 DEF CacheInv, CacheTypes
<1>7. PresentHeld'
  BY <1>1, <1>5 DEF CacheInv, PresentHeld, Cache!Present
<1>8. \A q \in Cache!Process : q # "admin" => Patient(q)
  BY <1>1, <1>2, AllPatient
<1>9. Patient("detail") /\ Patient("short") /\ Patient("watch")
  BY <1>8 DEF Cache!Process
<1>10. DetailJob' /\ ShortJob' /\ WatchJob'
  BY <1>3, <1>5, <1>6, <1>9, DetailKept, ShortKept, WatchKept DEF CacheInv
<1>11. AdminJob'
  BY <1>2, IdleJob
<1> QED BY <1>1, <1>3, <1>5, <1>6, <1>7, <1>10, <1>11, SameTold DEF CacheInv

\* With the listing the row is deleted; no registration is under way.
LEMMA CacheDelete ==
    ASSUME CacheInv, Cache!DeleteToken
    PROVE  CacheInv'
<1>1. /\ onList /\ onList' = FALSE /\ changes < MaxChanges /\ changes' = changes + 1
      /\ row' = Cache!NoRow /\ held' = [held EXCEPT !["max_holding_quantity"][0] = now]
      /\ UNCHANGED <<template, running, source, now, job, stored, told>>
  BY DEF Cache!DeleteToken, Cache!Happens
<1>2. /\ 0 \in Cache!Value /\ "max_holding_quantity" \in Cache!Column
      /\ CacheTypes /\ HeldSoFar
  BY DEF CacheInv, Cache!Value, Cache!Column
<1>3. /\ HeldGrows /\ HeldSoFar' /\ held' \in [Cache!Column -> [Cache!Value -> Int]]
      /\ held'["max_holding_quantity"][0] = now
      /\ \A d \in Cache!Column : d # "max_holding_quantity" => held'[d] = held[d]
  BY <1>1, <1>2, NowHeld
<1>4. CacheTypes'
  <2>1. changes' \in 0..MaxChanges
    BY <1>1, CacheBounds DEF CacheInv, CacheTypes
  <2>2. row' \in [value : [Cache!Column -> Cache!Value], created : -1..now, short : -1..now]
    <3>1. now \in Nat
      BY CacheBounds DEF CacheInv, CacheTypes
    <3> QED BY <1>1, <3>1 DEF Cache!NoRow, Cache!Value
  <2> QED BY <1>1, <1>3, <2>1, <2>2 DEF CacheInv, CacheTypes
<1>5. PresentHeld'
  BY <1>1, <1>3 DEF CacheInv, PresentHeld, Cache!Present
<1>6. RowKept /\ RowFresh'
  BY <1>1 DEF RowKept, RowFresh
<1>7. \A q \in Cache!Process : q # "nobody" => Patient(q)
  BY <1>1, AllPatient
<1>8. Cache!Working("admin") =>
          /\ ~onList' /\ source'["max_holding_quantity"] = source["max_holding_quantity"]
          /\ (row # Cache!NoRow => row' # Cache!NoRow)
  BY <1>1 DEF CacheInv, AdminJob
<1>9. DetailJob' /\ ShortJob' /\ WatchJob' /\ AdminJob'
  BY <1>3, <1>4, <1>6, <1>7, <1>8, OthersKept
<1> QED BY <1>1, <1>3, <1>4, <1>5, <1>6, <1>9, SameTold DEF CacheInv

\* Every step of the writers keeps CacheInv.
LEMMA CacheStepKeeps == ASSUME CacheInv, CacheStep PROVE CacheInv'
<1>1. Cache!Next
  BY DEF CacheStep
<1>2. CASE Cache!Tick
  BY <1>2, CacheTick
<1>3. CASE Cache!Change \/ Cache!UpdateToken
  <2>1. \E c \in Cache!Column : Cache!ChangeOf({c}) /\ (c = "max_holding_quantity" => onList)
    BY <1>3 DEF Cache!Change, Cache!UpdateToken, Cache!Column
  <2> QED BY <2>1, CacheSourceChanges
<1>4. CASE Cache!TokenDetailStep
  BY <1>4, CacheDetail
<1>5. CASE Cache!ShortTermStep
  BY <1>5, CacheShortTerm
<1>6. CASE Cache!AttributeStep
  BY <1>6, CacheAttribute
<1>7. CASE Cache!RegisterStart \/ Cache!RegisterCommit \/ Cache!DeleteToken
  BY <1>7, CacheRegisterStart, CacheRegisterCommit, CacheDelete
<1> QED BY <1>1, <1>2, <1>3, <1>4, <1>5, <1>6, <1>7 DEF Cache!Next, Cache!AdminStep

\* Nothing happens to the writers when another service takes a step or none does.
LEMMA CacheStutters == ASSUME CacheInv, UNCHANGED <<now, cacheOnly>> PROVE CacheInv'
<1>1. UNCHANGED <<template, running, source, held, now, onList, row, job, stored, told, changes>>
  BY DEF cacheOnly
<1>2. CacheTypes'
  BY <1>1 DEF CacheInv, CacheTypes
<1>3. HeldGrows /\ PresentHeld' /\ HeldSoFar'
  BY <1>1, SameSources DEF CacheInv
<1>4. RowFresh' /\ RowKept
  BY <1>1, <1>2, <1>3, RowStays DEF CacheInv
<1>5. \A q \in Cache!Process : q # "nobody" => Patient(q)
  BY <1>1, AllPatient
<1>6. Cache!Working("admin") =>
          /\ ~onList' /\ source'["max_holding_quantity"] = source["max_holding_quantity"]
          /\ (row # Cache!NoRow => row' # Cache!NoRow)
  BY <1>1 DEF CacheInv, AdminJob
<1>7. DetailJob' /\ ShortJob' /\ WatchJob' /\ AdminJob'
  BY <1>2, <1>3, <1>4, <1>5, <1>6, OthersKept
<1> QED BY <1>1, <1>2, <1>3, <1>4, <1>7, SameTold DEF CacheInv

\* A fresh row is not older than its stamps, and what is read from it is as fresh.
LEMMA FreshIsServed ==
    ASSUME CacheInv
    PROVE  Cache!TypeOK /\ Cache!RowNotOlderThanStamps /\ Cache!ServedIsFresh
<1>1. /\ now \in Nat /\ MaxDelay \in Nat /\ ShortTTL \in Nat
      /\ row \in [value : [Cache!Column -> Cache!Value], created : -1..now, short : -1..now]
      /\ held \in [Cache!Column -> [Cache!Value -> Int]]
      /\ Cache!ShortTerm = {"transferable"}
      /\ Cache!Column = {"transferable", "max_holding_quantity"}
  BY CacheBounds, CacheColumns DEF CacheInv, CacheTypes
<1>2. Cache!TypeOK
  BY DEF CacheInv, CacheTypes, Cache!TypeOK, Cache!Value
<1>3. ASSUME row # Cache!NoRow
      PROVE  held["transferable"][row.value["transferable"]] >= row.short - ShortTTL - 2 * MaxDelay
  <2>1. held["transferable"][row.value["transferable"]]
            >= row.short - 2 * MaxDelay - IF onList THEN ShortTTL ELSE 0
    BY <1>3 DEF CacheInv, RowFresh, HeldShort, Cache!HeldSince
  <2>2. held["transferable"][row.value["transferable"]] \in Int /\ row.short \in Int
    BY <1>1
  <2> QED BY <1>1, <2>1, <2>2
<1>4. Cache!RowNotOlderThanStamps
  BY <1>1, <1>3 DEF CacheInv, RowFresh, Cache!RowNotOlderThanStamps, Cache!HeldSince
<1>5. held["transferable"][Cache!Get["transferable"]] >= now - 2 * ShortTTL - 2 * MaxDelay
  <2>1. Cache!Get["transferable"] \in Cache!Value
    BY <1>1, GetTyped
  <2>2. held["transferable"][Cache!Get["transferable"]] \in Int
    BY <1>1, <2>1
  <2>3. CASE Cache!Alive(row) /\ Cache!AliveShort(row)
    <3>1. Cache!Get = row.value /\ row # Cache!NoRow
      BY <2>3, GetTyped DEF Cache!Alive
    <3>2. row.short + ShortTTL >= now
      BY <2>3 DEF Cache!AliveShort
    <3>3. row.short \in Int
      BY <1>1
    <3>4. held["transferable"][Cache!Get["transferable"]] >= row.short - ShortTTL - 2 * MaxDelay
      BY <1>3, <3>1
    <3> QED BY <1>1, <2>2, <3>2, <3>3, <3>4
  <2>4. CASE ~(Cache!Alive(row) /\ Cache!AliveShort(row))
    <3>1. held["transferable"][Cache!Get["transferable"]] >= now
      BY <1>1, <2>4, GetTyped DEF RefreshedAt, HeldAll, HeldShort, Cache!HeldSince
    <3> QED BY <1>1, <2>2, <3>1
  <2> QED BY <2>3, <2>4
<1>6. Cache!ServedIsFresh
  BY <1>1, <1>5 DEF Cache!ServedIsFresh, Cache!HeldSince
<1> QED BY <1>2, <1>4, <1>6

\* As long as the writers run, CacheInv holds.
LEMMA CacheInvariant ==
    /\ ServicesInit => (which = "cache" => CacheInv)
    /\ (which = "cache" => CacheInv) /\ [ServicesNext]_serviceVars
          => (which = "cache" => CacheInv)'
<1>1. ServicesInit => (which = "cache" => CacheInv)
  BY CacheInitially DEF ServicesInit, MonitorInit, ListsInit, MailInit, EthInit
<1>2. ASSUME which = "cache" => CacheInv, [ServicesNext]_serviceVars, which' = "cache"
      PROVE  CacheInv'
  <2>1. CASE ServicesNext
    <3>1. which = "cache" /\ CacheStep
      BY <1>2, <2>1 DEF ServicesNext, MonitorStep, ListsStep, MailStep, EthStep
    <3> QED BY <1>2, <3>1, CacheStepKeeps
  <2>2. CASE UNCHANGED serviceVars
    <3>1. which' = which /\ UNCHANGED <<now, cacheOnly>>
      BY <2>2 DEF serviceVars, vars, chainVars
    <3> QED BY <1>2, <3>1, CacheStutters
  <2> QED BY <1>2, <2>1, <2>2
<1> QED BY <1>1, <1>2

\* However the writers of a token's row interleave and whatever limits are configured, no
\* column is older than its stamp says by more than two passes and one short time limit, and
\* what is served is not older than twice that limit and two passes.
THEOREM CacheIsFreshAlways == ServicesSpec => []CacheIsFresh
<1>1. (which = "cache" => CacheInv) => CacheIsFresh
  BY FreshIsServed DEF CacheIsFresh
<1> QED BY <1>1, CacheInvariant, PTL DEF ServicesSpec

\* The changes of an attribute are told in a chain that ends with the stored value.
THEOREM ToldInOrderAlways == ServicesSpec => []ToldInOrder
<1>1. (which = "cache" => CacheInv) => ToldInOrder
  BY DEF ToldInOrder, CacheInv, ToldChain
<1> QED BY <1>1, CacheInvariant, PTL DEF ServicesSpec

------------------------------------------------------------------------------
(* The client of a monitored set of nodes: each fault pays for an attempt. *)

RequestType ==
    [pc : {"idle", "choose", "send", "wait", "served", "failed", "unavailable"},
     counter : Nat, endpoint : Endpoint, retryAt : Nat, steady : SUBSET Endpoint]

MonitorTypes ==
    /\ now \in Nat /\ passStart \in Nat /\ faults \in Nat
    /\ up \in [Endpoint -> BOOLEAN] /\ primary \in Endpoint
    /\ node \in [Endpoint -> [present : BOOLEAN, priority : {0, 1}, synced : BOOLEAN]]
    /\ mpc \in {"boot", "pass", "sleep"} /\ todo \in Seq(Endpoint)
    /\ request \in RequestType

\* A pass ends, and the next one starts, when it is due.
PassInTime ==
    /\ passStart <= now
    /\ mpc = "pass" => now <= passStart + PassTime
    /\ mpc = "sleep" => now <= passStart + Interval

Left(m) == \E i \in 1..Len(todo) : todo[i] = m

\* When the monitor notices at the latest that a node is down.
MarkedBy(m) ==
    IF mpc = "boot" THEN now
    ELSE IF mpc = "pass" /\ Left(m) THEN passStart + PassTime
    ELSE passStart + Interval + PassTime

\* The nodes a client may choose in vain.
Lost == {m \in Synced : ~up[m]}

\* The time of the next attempt, and the time the waits after d failed ones take.
Attempt == IF request.pc = "wait" THEN request.retryAt ELSE now
Paid(d) == d * WaitTime

Trying == request.pc \in {"idle", "choose", "send", "wait"}

\* Every failed attempt is paid for by a fault, and what the other faults pay for is longer
\* than any lost node is served.
FaultsPay ==
    /\ request.counter <= faults
    /\ request.pc = "send" /\ ~up[request.endpoint] => request.counter < faults
    /\ Trying => \A m \in Lost : MarkedBy(m) < Attempt + Paid(faults - request.counter)

RequestInStep ==
    /\ request.pc = "idle" => request.counter = 0
    /\ request.pc = "wait" => now <= request.retryAt
    /\ request.pc = "unavailable" => request.counter > RetryCount
    /\ request.steady \subseteq {n \in Synced : up[n]}
    /\ request.pc = "idle" \/ request.steady # {} => FaultsPay

\* The inductive invariant of monitor and client.
FailOverInv == MonitorTypes /\ PassInTime /\ RequestInStep

\* The bounds of monitor and client are as assumed.
LEMMA FailOverBounds ==
  /\ Interval \in Nat \ {0} /\ RetryCount \in Nat /\ WaitTime \in Nat /\ PassTime \in Nat
  /\ StartTime \in Nat /\ PassTime < Interval
  /\ IsFiniteSet(Endpoint) /\ Endpoint # {}
BY FailOverAssumption DEF Assumption

\* A pass visits every node.
LEMMA OrdersComplete ==
  ASSUME NEW s \in Orders
  PROVE  s \in Seq(Endpoint) /\ \A m \in Endpoint : \E i \in 1..Len(s) : s[i] = m
<1> DEFINE c == Cardinality(Endpoint)
<1>1. c \in Nat
  BY FailOverBounds, FS_CardinalityType
<1>2. s \in [1..c -> Endpoint] /\ \A i, j \in 1..c : i # j => s[i] # s[j]
  BY DEF Orders, SetToSeqs
<1> HIDE DEF c
<1>3. s \in Seq(Endpoint) /\ Len(s) = c
  BY <1>1, <1>2
<1>4. s \in Injection(1..c, Endpoint)
  BY <1>2 DEF Injection, IsInjective
<1>5. Cardinality(1..c) = c
  BY <1>1, FS_Interval
<1>6. s \in Surjection(1..c, Endpoint)
  BY <1>4, <1>5, FS_Injection, FailOverBounds DEF c
<1> QED
  BY <1>3, <1>6 DEF Surjection

\* What two numbers of faults pay for adds up.
LEMMA PaidAdds ==
  ASSUME NEW a \in Nat, NEW b \in Nat
  PROVE  Paid(a) \in Nat /\ Paid(b) \in Nat /\ Paid(a + b) = Paid(a) + Paid(b)
<1>1. WaitTime \in Nat
  BY FailOverBounds
<1> QED
  BY <1>1 DEF Paid

\* A fault pays for the wait between two attempts.
LEMMA PaidOne == Paid(0) = 0 /\ Paid(1) = WaitTime
<1>1. WaitTime \in Nat
  BY FailOverBounds
<1> QED
  BY <1>1 DEF Paid

\* A lost node is marked at the latest in the next pass.
LEMMA MarkedByTime ==
  ASSUME MonitorTypes, PassInTime, NEW m
  PROVE  /\ MarkedBy(m) \in Nat /\ now <= MarkedBy(m) 
         /\ mpc # "boot" => MarkedBy(m) <= passStart + Interval + PassTime
<1>1. /\ now \in Nat /\ passStart \in Nat /\ Interval \in Nat /\ PassTime \in Nat
      /\ mpc \in {"boot", "pass", "sleep"}
  BY FailOverBounds DEF MonitorTypes
<1>2. PICK t \in BOOLEAN : t = Left(m)
  BY DEF Left
<1>3. MarkedBy(m) = IF mpc = "boot" THEN now
                   ELSE IF mpc = "pass" /\ t THEN passStart + PassTime
                   ELSE passStart + Interval + PassTime
  BY <1>2, Zenon DEF MarkedBy
<1> QED
  BY <1>1, <1>3 DEF PassInTime

\* The same is a number after a step.
LEMMA MarkedLater ==
  ASSUME MonitorTypes', PassInTime', NEW m
  PROVE  MarkedBy(m)' \in Nat
<1>1. /\ now' \in Nat /\ passStart' \in Nat /\ Interval \in Nat /\ PassTime \in Nat
  BY FailOverBounds DEF MonitorTypes
<1>2. \/ MarkedBy(m)' = now' \/ MarkedBy(m)' = passStart' + PassTime
      \/ MarkedBy(m)' = passStart' + Interval + PassTime
  BY DEF MarkedBy
<1> QED
  BY <1>1, <1>2

\* A step of the monitor or a fault: the time gained by a lost node is paid for.
LEMMA PaidSteps ==
  ASSUME FailOverInv, MonitorTypes', PassInTime', NEW d \in Nat, faults' = faults + d,
         now <= now', request'.pc = request.pc, request'.counter = request.counter,
         request'.endpoint = request.endpoint, request'.retryAt = request.retryAt,
         request'.steady \subseteq request.steady,
         \A n \in request'.steady : n \in Synced' /\ up'[n],
         request.pc = "wait" => now' <= request.retryAt,
         request.pc = "send" /\ ~up'[request.endpoint] => ~up[request.endpoint] \/ d > 0,
         \A m \in Lost' : \/ m \in Lost /\ MarkedBy(m)' <= MarkedBy(m) + Paid(d)
                          \/ MarkedBy(m)' < now' + Paid(d)
  PROVE  FailOverInv'
<1>1. /\ request.counter \in Nat /\ faults \in Nat /\ request.retryAt \in Nat /\ now \in Nat
      /\ now' \in Nat /\ request.pc \in {"idle", "choose", "send", "wait", "served", "failed", "unavailable"}
  BY DEF FailOverInv, MonitorTypes, RequestType
<1>2. ASSUME request'.pc = "idle" \/ request'.steady # {} PROVE FaultsPay'
  <2>1. FaultsPay
    BY <1>2 DEF FailOverInv, RequestInStep
  <2>2. request.counter <= faults
    BY <2>1 DEF FaultsPay
  <2>3. request'.counter <= faults'
    BY <1>1, <2>2
  <2>4. request'.pc = "send" /\ ~up'[request'.endpoint] => request'.counter < faults'
    BY <1>1, <2>1, <2>2 DEF FaultsPay
  <2>5. ASSUME Trying', NEW m \in Lost' PROVE MarkedBy(m)' < (Attempt + Paid(faults - request.counter))'
    <3>1. Attempt \in Nat /\ Attempt' \in Nat /\ Attempt <= Attempt' /\ now' <= Attempt'
      BY <1>1 DEF Attempt
    <3>2. PICK a \in Nat : a = faults - request.counter
      BY <1>1, <2>2
    <3>3. a + d = faults' - request'.counter
      BY <1>1, <3>2
    <3>4. MarkedBy(m)' < Attempt' + (Paid(a) + Paid(d))
      <4>1. MonitorTypes /\ PassInTime
        BY DEF FailOverInv
      <4>4. MarkedBy(m) \in Nat
        BY <4>1, MarkedByTime
      <4>5. MarkedBy(m)' \in Nat
        BY MarkedLater
      <4>2. m \in Lost => MarkedBy(m) < Attempt + Paid(a)
        BY <2>1, <2>5, <3>2, Zenon DEF FaultsPay, Trying
      <4>3. Paid(a) \in Nat /\ Paid(d) \in Nat
        BY PaidAdds
      <4> QED
        BY <1>1, <3>1, <4>2, <4>3, <4>4, <4>5
    <3>5. Paid(faults - request.counter)' = Paid(a) + Paid(d)
      BY <3>3, PaidAdds, Zenon
    <3> QED
      BY <3>4, <3>5
  <2> QED
    BY <2>3, <2>4, <2>5 DEF FaultsPay
<1>3. request'.steady \subseteq {n \in Synced : up[n]}'
  OBVIOUS
<1> QED
  BY <1>1, <1>2, <1>3 DEF FailOverInv, RequestInStep

\* A request whose steady nodes are fewer.
LEMMA UnsteadyRequest ==
  ASSUME request \in RequestType, NEW S, Unsteady(S)
  PROVE  /\ request' \in RequestType
         /\ request'.pc = request.pc /\ request'.counter = request.counter
         /\ request'.endpoint = request.endpoint /\ request'.retryAt = request.retryAt
         /\ request'.steady = request.steady \ S
BY DEF Unsteady, RequestType

Row == [present : BOOLEAN, priority : {0, 1}, synced : BOOLEAN]

\* The row of a node gets the verdict, the rows of the others stay.
LEMMA SinkTyped ==
  ASSUME MonitorTypes, NEW n \in Endpoint, NEW c \in BOOLEAN
  PROVE  SinkOnNode(n, c) \in Row /\ SinkOnNode(n, c).present /\ SinkOnNode(n, c).synced = c
<1>1. node[n] \in Row
  BY DEF MonitorTypes, Row
<1>2. NewRow(n, c) \in Row /\ NewRow(n, c).present /\ NewRow(n, c).synced = c
  BY DEF NewRow, Row
<1>3. ASSUME node[n].present
      PROVE  /\ [node[n] EXCEPT !.synced = c] \in Row
             /\ [node[n] EXCEPT !.synced = c].present /\ [node[n] EXCEPT !.synced = c].synced = c
  BY <1>1, <1>3 DEF Row
<1> QED
  BY <1>2, <1>3, Zenon DEF SinkOnNode

\* Time passes: nothing that is due is left behind, a lost node is marked in time.
LEMMA TickKeeps ==
  ASSUME FailOverInv, Tick
  PROVE  FailOverInv'
<1>1. /\ now' = now + 1 /\ UNCHANGED <<primary, up, node, mpc, todo, passStart, request, faults>>
      /\ NothingDue /\ now \in Nat /\ passStart \in Nat
  BY DEF Tick, monitorVars, FailOverInv, MonitorTypes
<1>2. MonitorTypes'
  BY <1>1 DEF FailOverInv, MonitorTypes
<1>3. PassInTime'
  BY <1>1, FailOverBounds DEF FailOverInv, PassInTime, NothingDue
<1>4. request.pc = "wait" => now' <= request.retryAt
  BY <1>1 DEF NothingDue, FailOverInv, MonitorTypes, RequestType
<1>5. ASSUME NEW m \in Lost' PROVE m \in Lost /\ MarkedBy(m)' <= MarkedBy(m) + Paid(0)
  <2>1. m \in Lost
    BY <1>1 DEF Lost, Synced
  <2>2. MarkedBy(m)' = MarkedBy(m)
    BY <1>1 DEF MarkedBy, Left, NothingDue
  <2>3. MarkedBy(m) \in Nat
    BY MarkedByTime DEF FailOverInv
  <2> QED
    BY <2>1, <2>2, <2>3, PaidOne
<1>6. \A n \in request'.steady : n \in Synced' /\ up'[n]
  BY <1>1 DEF FailOverInv, RequestInStep, Synced
<1>7. faults' = faults + 0 /\ now <= now' /\ request' = request /\ up' = up
  BY <1>1 DEF FailOverInv, MonitorTypes
<1> QED
  BY <1>2, <1>3, <1>4, <1>5, <1>6, <1>7, PaidSteps

\* A node is lost: two faults pay for the time until it is marked.
LEMMA GoDownKeeps ==
  ASSUME FailOverInv, Interval <= WaitTime, NEW n \in Endpoint, GoDown(n)
  PROVE  FailOverInv'
<1>1. /\ UNCHANGED <<now, primary, node, mpc, todo, passStart>>
      /\ faults' = faults + 2 /\ up' = [up EXCEPT ![n] = FALSE] /\ Unsteady({n})
  BY DEF GoDown, chainVars, monitorVars, Fault
<1>2. /\ now \in Nat /\ passStart \in Nat /\ faults \in Nat /\ request \in RequestType
      /\ up \in [Endpoint -> BOOLEAN]
  BY DEF FailOverInv, MonitorTypes
<1>3. /\ request' \in RequestType
      /\ request'.pc = request.pc /\ request'.counter = request.counter
      /\ request'.endpoint = request.endpoint /\ request'.retryAt = request.retryAt
      /\ request'.steady = request.steady \ {n}
  BY <1>1, <1>2, UnsteadyRequest
<1>4. up' \in [Endpoint -> BOOLEAN] /\ faults' \in Nat
  BY <1>1, <1>2
<1>5. MonitorTypes' /\ PassInTime'
  BY <1>1, <1>3, <1>4 DEF FailOverInv, MonitorTypes, PassInTime
<1>6. ASSUME NEW m \in Lost' PROVE MarkedBy(m)' < now' + Paid(2)
  <2>1. MarkedBy(m)' = MarkedBy(m)
    BY <1>1 DEF MarkedBy, Left
  <2>2. /\ MarkedBy(m) \in Nat /\ now <= MarkedBy(m)
        /\ mpc # "boot" => MarkedBy(m) <= passStart + Interval + PassTime
    BY MarkedByTime DEF FailOverInv
  <2>3. mpc = "boot" => MarkedBy(m) = now
    BY DEF MarkedBy
  <2>4. Paid(2) = WaitTime + WaitTime
    <3>1. Paid(1 + 1) = Paid(1) + Paid(1)
      BY PaidAdds
    <3> QED
      BY <3>1, PaidOne
  <2>5. passStart <= now
    BY DEF FailOverInv, PassInTime
  <2>6. /\ Interval \in Nat /\ PassTime \in Nat /\ WaitTime \in Nat /\ Interval > 0
        /\ PassTime < Interval /\ Interval <= WaitTime
    BY FailOverBounds
  <2> QED
    BY <1>1, <1>2, <2>1, <2>2, <2>3, <2>4, <2>5, <2>6
<1>7. ASSUME NEW k \in request'.steady PROVE k \in Synced' /\ up'[k]
  <2>1. k \in Synced /\ up[k] /\ k # n /\ k \in Endpoint
    BY <1>3 DEF FailOverInv, RequestInStep, Synced
  <2> QED
    BY <1>1, <1>2, <2>1 DEF Synced
<1>8. request.pc = "wait" => now' <= request.retryAt
  BY <1>1 DEF FailOverInv, RequestInStep
<1>9. now <= now' /\ request'.steady \subseteq request.steady /\ 2 > 0 /\ 2 \in Nat
  BY <1>1, <1>2, <1>3
<1> QED
  BY <1>1, <1>3, <1>5, <1>6, <1>7, <1>8, <1>9, PaidSteps

\* A node comes back.
LEMMA ComeUpKeeps ==
  ASSUME FailOverInv, NEW n \in Endpoint, ComeUp(n)
  PROVE  FailOverInv'
<1>1. /\ UNCHANGED <<now, primary, node, mpc, todo, passStart, request, faults>>
      /\ up' = [up EXCEPT ![n] = TRUE]
  BY DEF ComeUp, chainVars, monitorVars
<1>2. now \in Nat /\ faults \in Nat /\ up \in [Endpoint -> BOOLEAN] /\ request \in RequestType
  BY DEF FailOverInv, MonitorTypes
<1>3. up' \in [Endpoint -> BOOLEAN] /\ \A m \in Endpoint : up[m] => up'[m]
  BY <1>1, <1>2
<1>4. MonitorTypes' /\ PassInTime'
  BY <1>1, <1>3 DEF FailOverInv, MonitorTypes, PassInTime
<1>5. ASSUME NEW m \in Lost' PROVE m \in Lost /\ MarkedBy(m)' <= MarkedBy(m) + Paid(0)
  <2>1. m \in Lost
    BY <1>1, <1>3 DEF Lost, Synced
  <2>2. MarkedBy(m)' = MarkedBy(m)
    BY <1>1 DEF MarkedBy, Left
  <2>3. MarkedBy(m) \in Nat
    BY MarkedByTime DEF FailOverInv
  <2> QED
    BY <2>1, <2>2, <2>3, PaidOne
<1>6. \A m \in request'.steady : m \in Synced' /\ up'[m]
  BY <1>1, <1>3 DEF FailOverInv, RequestInStep, Synced
<1>7. request.pc = "wait" => now' <= request.retryAt
  BY <1>1 DEF FailOverInv, RequestInStep
<1>8. request.pc = "send" /\ ~up'[request.endpoint] => ~up[request.endpoint]
  BY <1>2, <1>3 DEF RequestType
<1>9. faults' = faults + 0 /\ now <= now' /\ request' = request
  BY <1>1, <1>2
<1> QED
  BY <1>4, <1>5, <1>6, <1>7, <1>8, <1>9, PaidSteps

\* One endpoint less is left.
LEMMA TailLeft ==
  ASSUME todo \in Seq(Endpoint), todo # <<>>
  PROVE  /\ Head(todo) \in Endpoint /\ Tail(todo) \in Seq(Endpoint)
         /\ \A m : Left(m) /\ m # Head(todo) => \E i \in 1..Len(Tail(todo)) : Tail(todo)[i] = m
<1>1. Head(todo) \in Endpoint /\ Tail(todo) \in Seq(Endpoint) /\ Head(todo) = todo[1]
  OBVIOUS
<1>2. ASSUME NEW m, NEW i \in 1..Len(todo), todo[i] = m, m # todo[1]
      PROVE  \E j \in 1..Len(Tail(todo)) : Tail(todo)[j] = m
  <2>1. i - 1 \in 1..Len(Tail(todo)) /\ Tail(todo)[i - 1] = todo[i]
    BY <1>2
  <2> QED
    BY <1>2, <2>1
<1> QED
  BY <1>1, <1>2 DEF Left

\* The verdict on a node reaches the table, or the database fails and spoils an attempt.
LEMMA StoreKeeps ==
  ASSUME FailOverInv, Interval <= WaitTime, mpc = "pass", todo # <<>>, NEW c \in BOOLEAN, NEW w,
         Store(Head(todo), c, w), UNCHANGED <<now, primary, up, mpc, passStart>>,
         up[Head(todo)] \/ ~c
  PROVE  FailOverInv'
<1> DEFINE n == Head(todo)
<1>1. /\ now \in Nat /\ passStart \in Nat /\ faults \in Nat /\ request \in RequestType
      /\ up \in [Endpoint -> BOOLEAN] /\ node \in [Endpoint -> Row] /\ todo \in Seq(Endpoint)
  BY DEF FailOverInv, MonitorTypes, Row
<1>2. n \in Endpoint /\ Tail(todo) \in Seq(Endpoint)
  BY <1>1, TailLeft
<1>3. request.pc = "wait" => now' <= request.retryAt
  BY DEF FailOverInv, RequestInStep
<1>4. PassInTime'
  BY DEF FailOverInv, PassInTime
<1>5. CASE /\ node' = [node EXCEPT ![n] = SinkOnNode(n, c)]
           /\ IF c THEN UNCHANGED request ELSE Unsteady({n})
           /\ todo' = Tail(todo) /\ UNCHANGED faults
  <2>1. SinkOnNode(n, c) \in Row /\ SinkOnNode(n, c).present /\ SinkOnNode(n, c).synced = c
    BY <1>2, SinkTyped DEF FailOverInv
  <2>2. /\ node' \in [Endpoint -> Row] /\ node'[n] = SinkOnNode(n, c)
        /\ \A m \in Endpoint : m # n => node'[m] = node[m]
    BY <1>1, <1>2, <1>5, <2>1
  <2>3. /\ request' \in RequestType
        /\ request'.pc = request.pc /\ request'.counter = request.counter
        /\ request'.endpoint = request.endpoint /\ request'.retryAt = request.retryAt
        /\ request'.steady = IF c THEN request.steady ELSE request.steady \ {n}
    <3>1. CASE c
      BY <1>1, <1>5, <3>1
    <3>2. CASE ~c
      <4>1. Unsteady({n})
        BY <1>5, <3>2
      <4> QED
        BY <1>1, <3>2, <4>1, UnsteadyRequest
    <3> QED
      BY <3>1, <3>2
  <2>4. MonitorTypes'
    BY <1>2, <1>5, <2>2, <2>3 DEF FailOverInv, MonitorTypes, Row
  <2>5. ASSUME NEW m \in Lost' PROVE m \in Lost /\ MarkedBy(m)' <= MarkedBy(m) + Paid(0)
    <3>1. m \in Endpoint /\ node'[m].present /\ node'[m].synced /\ ~up[m]
      BY DEF Lost, Synced
    <3>2. m # n
      BY <2>1, <2>2, <3>1
    <3>3. m \in Lost
      BY <2>2, <3>1, <3>2 DEF Lost, Synced
    <3>4. Left(m) => Left(m)'
      BY <1>1, <1>5, <3>2, TailLeft DEF Left
    <3>5. MarkedBy(m)' <= MarkedBy(m)
      <4>1. /\ Left(m)' => MarkedBy(m)' = passStart + PassTime
            /\ ~Left(m)' => MarkedBy(m)' = passStart + Interval + PassTime
            /\ Left(m) => MarkedBy(m) = passStart + PassTime
            /\ ~Left(m) => MarkedBy(m) = passStart + Interval + PassTime
        BY DEF MarkedBy
      <4> QED
        BY <1>1, <3>4, <4>1, FailOverBounds
    <3>6. MarkedBy(m) \in Nat /\ MarkedBy(m)' \in Nat
      <4>1. MarkedBy(m) \in Nat
        BY MarkedByTime DEF FailOverInv
      <4>2. MarkedBy(m)' \in Nat
        BY <1>4, <2>4, MarkedLater
      <4> QED
        BY <4>1, <4>2
    <3> QED
      BY <3>3, <3>5, <3>6, PaidOne
  <2>6. ASSUME NEW k \in request'.steady PROVE k \in Synced' /\ up'[k]
    <3>1. k \in Synced /\ up[k] /\ k \in Endpoint
      BY <2>3 DEF FailOverInv, RequestInStep, Synced
    <3>2. k = n => c
      BY <2>3
    <3> QED
      BY <2>1, <2>2, <3>1, <3>2 DEF Synced
  <2>7. now <= now' /\ faults' = faults + 0 /\ request'.steady \subseteq request.steady
    BY <1>1, <1>5, <2>3
  <2> QED
    BY <1>3, <1>4, <2>3, <2>4, <2>5, <2>6, <2>7, PaidSteps
<1>6. CASE Fault(1) /\ todo' \in {<<>>, Tail(todo)} /\ UNCHANGED <<node, request>>
  <2>1. faults' = faults + 1
    BY <1>6 DEF Fault
  <2>6. todo' \in Seq(Endpoint)
    <3>1. <<>> \in Seq(Endpoint)
      OBVIOUS
    <3>2. todo' = <<>> \/ todo' = Tail(todo)
      BY <1>6
    <3> QED
      BY <1>2, <3>1, <3>2, Zenon
  <2>2. MonitorTypes'
    BY <1>1, <1>6, <2>1, <2>6 DEF FailOverInv, MonitorTypes
  <2>3. ASSUME NEW m \in Lost' PROVE m \in Lost /\ MarkedBy(m)' <= MarkedBy(m) + Paid(1)
    <3>1. m \in Lost
      BY <1>6 DEF Lost, Synced
    <3>2. /\ MarkedBy(m)' \in {passStart + PassTime, passStart + Interval + PassTime}
          /\ MarkedBy(m) \in {passStart + PassTime, passStart + Interval + PassTime}
      BY DEF MarkedBy
    <3> QED
      BY <1>1, <3>1, <3>2, PaidOne, FailOverBounds
  <2>4. \A k \in request'.steady : k \in Synced' /\ up'[k]
    BY <1>6 DEF FailOverInv, RequestInStep, Synced
  <2>5. now <= now' /\ request' = request
    BY <1>1, <1>6
  <2> QED
    BY <1>3, <1>4, <2>1, <2>2, <2>3, <2>4, <2>5, PaidSteps
<1> QED
  BY <1>5, <1>6 DEF Store

\* A check marks a node that is down, whatever else it finds.
LEMMA ChecksKeep ==
  ASSUME FailOverInv, Interval <= WaitTime, CheckNode \/ CheckFails
  PROVE  FailOverInv'
<1>1. CASE CheckNode
  <2> DEFINE n == Head(todo)
             data == [time |-> now, number |-> height[n]]
             behind == Len(blockTime) - height[n]
             answer == [time |-> now, number |-> height[n], behind |-> behind]
             w == [answers |-> Append(Recent(seen[n].answers), answer), missed |-> FALSE]
             P(syncing) == /\ ~(syncing /\ behind > RemainingThreshold)
                           /\ ~Slow(PeekOldest(history[n]), data)
  <2>1. PICK syncing \in BOOLEAN : Store(n, P(syncing), w)
    BY <1>1, Zenon DEF CheckNode
  <2>2. mpc = "pass" /\ todo # <<>> /\ up[n] /\ UNCHANGED <<now, primary, up, mpc, passStart>>
    BY <1>1 DEF CheckNode, chainVars
  <2> HIDE DEF w
  <2>3. PICK c \in BOOLEAN : c = P(syncing)
    OBVIOUS
  <2> HIDE DEF P
  <2>4. Store(n, c, w)
    BY <2>1, <2>3, Zenon
  <2> HIDE DEF n
  <2> QED
    BY <2>2, <2>4, StoreKeeps DEF n
<1>2. CASE CheckFails
  <2> DEFINE w == [seen[Head(todo)] EXCEPT !.missed = TRUE]
  <2>1. Store(Head(todo), FALSE, w)
    BY <1>2, Zenon DEF CheckFails
  <2>2. mpc = "pass" /\ todo # <<>> /\ UNCHANGED <<now, primary, up, mpc, passStart>>
    BY <1>2 DEF CheckFails, chainVars
  <2> HIDE DEF w
  <2> QED
    BY <2>1, <2>2, StoreKeeps
<1> QED
  BY <1>1, <1>2

\* The setup marks all nodes that are down.
LEMMA InitialSetupKeeps ==
  ASSUME FailOverInv, InitialSetup
  PROVE  FailOverInv'
<1> DEFINE D == {n \in Endpoint : ~up[n]}
<1>1. /\ UNCHANGED <<now, primary, up, faults>>
      /\ node' = [n \in Endpoint |-> IF up[n] THEN node[n] ELSE SinkOnNode(n, FALSE)]
      /\ Unsteady(D) /\ todo' \in Orders /\ passStart' = now /\ mpc' = "pass"
  BY DEF InitialSetup, chainVars
<1>2. /\ now \in Nat /\ faults \in Nat /\ request \in RequestType /\ node \in [Endpoint -> Row]
      /\ up \in [Endpoint -> BOOLEAN]
  BY DEF FailOverInv, MonitorTypes, Row
<1>3. /\ request' \in RequestType
      /\ request'.pc = request.pc /\ request'.counter = request.counter
      /\ request'.endpoint = request.endpoint /\ request'.retryAt = request.retryAt
      /\ request'.steady = request.steady \ D
  BY <1>1, <1>2, UnsteadyRequest
<1>4. \A n \in Endpoint : /\ SinkOnNode(n, FALSE) \in Row
                          /\ SinkOnNode(n, FALSE).present
                          /\ SinkOnNode(n, FALSE).synced = FALSE
  BY SinkTyped DEF FailOverInv
<1>5. /\ node' \in [Endpoint -> Row]
      /\ \A n \in Endpoint : IF up[n] THEN node'[n] = node[n] ELSE ~node'[n].synced
  BY <1>1, <1>2, <1>4
<1>6. todo' \in Seq(Endpoint)
  BY <1>1, OrdersComplete
<1>7. MonitorTypes'
  BY <1>1, <1>2, <1>3, <1>5, <1>6 DEF FailOverInv, MonitorTypes, Row
<1>8. PassInTime'
  BY <1>1, <1>2, FailOverBounds DEF PassInTime
<1>9. Lost' = {}
  BY <1>1, <1>5 DEF Lost, Synced
<1>10. ASSUME NEW k \in request'.steady PROVE k \in Synced' /\ up'[k]
  <2>1. k \in Synced /\ up[k] /\ k \in Endpoint
    BY <1>3 DEF FailOverInv, RequestInStep, Synced
  <2> QED
    BY <1>1, <1>5, <2>1 DEF Synced
<1>11. request.pc = "wait" => now' <= request.retryAt
  BY <1>1 DEF FailOverInv, RequestInStep
<1>12. now <= now' /\ faults' = faults + 0 /\ request'.steady \subseteq request.steady /\ up' = up
  BY <1>1, <1>2, <1>3
<1> HIDE DEF D
<1> QED
  BY <1>3, <1>7, <1>8, <1>9, <1>10, <1>11, <1>12, PaidSteps

\* The next pass starts on time: what it has still to check is not marked later.
LEMMA PassesKeep ==
  ASSUME FailOverInv, EndOfPass \/ StartPass
  PROVE  FailOverInv'
<1>1. UNCHANGED <<now, primary, up, node, request, faults>>
  BY DEF EndOfPass, StartPass, chainVars
<1>2. now \in Nat /\ passStart \in Nat /\ faults \in Nat
  BY DEF FailOverInv, MonitorTypes
<1>3. passStart' \in Nat /\ mpc' \in {"pass", "sleep"} /\ todo' \in Seq(Endpoint)
  BY <1>2, OrdersComplete DEF EndOfPass, StartPass, FailOverInv, MonitorTypes
<1>4. MonitorTypes'
  BY <1>1, <1>3 DEF FailOverInv, MonitorTypes
<1>5. PassInTime'
  BY <1>1, <1>2, FailOverBounds DEF FailOverInv, PassInTime, EndOfPass, StartPass
<1>6. ASSUME NEW m \in Lost' PROVE m \in Lost /\ MarkedBy(m)' <= MarkedBy(m) + Paid(0)
  <2>1. m \in Lost /\ m \in Endpoint
    BY <1>1 DEF Lost, Synced
  <2>2. MarkedBy(m)' <= MarkedBy(m)
    <3>1. CASE EndOfPass
      <4>1. MarkedBy(m) = passStart + Interval + PassTime
        BY <3>1 DEF MarkedBy, Left, EndOfPass
      <4>2. MarkedBy(m)' = passStart + Interval + PassTime
        BY <3>1 DEF MarkedBy, EndOfPass
      <4> QED
        BY <1>2, <4>1, <4>2, FailOverBounds
    <3>2. CASE StartPass
      <4>1. MarkedBy(m) = passStart + Interval + PassTime
        BY <3>2 DEF MarkedBy, StartPass
      <4>2. Left(m)'
        BY <2>1, <3>2, OrdersComplete DEF Left, StartPass
      <4>3. MarkedBy(m)' = now + PassTime
        BY <3>2, <4>2 DEF MarkedBy, StartPass
      <4>4. now <= passStart + Interval
        BY <3>2 DEF FailOverInv, PassInTime, StartPass
      <4> QED
        BY <1>2, <4>1, <4>3, <4>4, FailOverBounds
    <3> QED
      BY <3>1, <3>2
  <2>3. MarkedBy(m) \in Nat
    BY MarkedByTime DEF FailOverInv
  <2> QED
    BY <2>1, <2>2, <2>3, PaidOne
<1>7. \A k \in request'.steady : k \in Synced' /\ up'[k]
  BY <1>1 DEF FailOverInv, RequestInStep, Synced
<1>8. request.pc = "wait" => now' <= request.retryAt
  BY <1>1 DEF FailOverInv, RequestInStep
<1>9. now <= now' /\ faults' = faults + 0 /\ request' = request /\ up' = up
  BY <1>1, <1>2
<1> QED
  BY <1>4, <1>5, <1>6, <1>7, <1>8, <1>9, PaidSteps

\* A restart marks earlier than it has to: the setup follows at once.
LEMMA RestartKeeps ==
  ASSUME FailOverInv, Restart
  PROVE  FailOverInv'
<1>1. /\ UNCHANGED <<now, primary, up, node, passStart, request>> /\ mpc' = "boot" /\ todo' = <<>>
      /\ faults' = faults + 1
  BY DEF Restart, chainVars, Fault
<1>2. now \in Nat /\ faults \in Nat
  BY DEF FailOverInv, MonitorTypes
<1>3. todo' \in Seq(Endpoint)
  BY <1>1
<1>4. MonitorTypes' /\ PassInTime'
  BY <1>1, <1>2, <1>3 DEF FailOverInv, MonitorTypes, PassInTime
<1>5. ASSUME NEW m \in Lost' PROVE m \in Lost /\ MarkedBy(m)' <= MarkedBy(m) + Paid(1)
  <2>1. m \in Lost
    BY <1>1 DEF Lost, Synced
  <2>2. MarkedBy(m)' = now /\ MarkedBy(m) \in Nat /\ now <= MarkedBy(m)
    <3>1. MarkedBy(m)' = now
      BY <1>1 DEF MarkedBy
    <3>2. MarkedBy(m) \in Nat /\ now <= MarkedBy(m)
      BY MarkedByTime DEF FailOverInv
    <3> QED
      BY <3>1, <3>2
  <2> QED
    BY <1>2, <2>1, <2>2, PaidOne, FailOverBounds
<1>6. \A k \in request'.steady : k \in Synced' /\ up'[k]
  BY <1>1 DEF FailOverInv, RequestInStep, Synced
<1>7. request.pc = "wait" => now' <= request.retryAt
  BY <1>1 DEF FailOverInv, RequestInStep
<1>8. now <= now' /\ request' = request /\ up' = up
  BY <1>1, <1>2
<1> QED
  BY <1>1, <1>4, <1>5, <1>6, <1>7, <1>8, PaidSteps

\* A node that is synchronized is a candidate.
LEMMA BestNodesExist ==
  ASSUME MonitorTypes, Synced # {}
  PROVE  BestNodes # {}
<1>1. Synced \subseteq Endpoint /\ \A n \in Endpoint : node[n].priority \in {0, 1}
  BY DEF MonitorTypes, Synced
<1>2. PICK n \in Synced : (\E m \in Synced : node[m].priority = 0) => node[n].priority = 0
  OBVIOUS
<1>3. \A m \in Synced : node[n].priority <= node[m].priority
  BY <1>1, <1>2
<1> QED
  BY <1>3 DEF BestNodes

\* A step of the client that is no failed attempt.
LEMMA ClientMoves ==
  ASSUME FailOverInv, UNCHANGED <<now, primary, up, node, mpc, todo, passStart, faults>>,
         request' \in RequestType, request'.counter = request.counter,
         request.pc \in {"idle", "choose", "send", "wait"},
         request'.pc \in {"choose", "send", "served", "failed"},
         \A n \in request'.steady : n \in Synced /\ up[n],
         request.pc = "idle" \/ request'.steady = request.steady,
         request'.pc = "send" => request.pc = "choose" /\ request'.endpoint \in Synced,
         request.pc = "wait" => now >= request.retryAt
  PROVE  FailOverInv'
<1>1. MonitorTypes' /\ PassInTime'
  BY DEF FailOverInv, MonitorTypes, PassInTime
<1>2. now \in Nat /\ faults \in Nat /\ request.counter \in Nat /\ request.retryAt \in Nat
  BY DEF FailOverInv, MonitorTypes, RequestType
<1>3. request'.steady \subseteq {n \in Synced : up[n]}'
  BY DEF Synced
<1>4. ASSUME request'.steady # {} PROVE FaultsPay'
  <2>1. FaultsPay
    BY <1>4 DEF FailOverInv, RequestInStep
  <2>2. PICK a \in Nat : a = faults - request.counter
    BY <1>2, <2>1 DEF FaultsPay
  <2>3. Paid(a) \in Nat
    BY PaidAdds
  <2>4. Attempt \in Nat /\ Attempt <= now /\ Attempt' = now
    BY <1>2 DEF Attempt
  <2>5. ASSUME NEW m \in Lost PROVE MarkedBy(m) < now + Paid(a) /\ now <= MarkedBy(m)
    <3>1. MarkedBy(m) < Attempt + Paid(a)
      BY <2>1, <2>2, <2>5, Zenon DEF FaultsPay, Trying
    <3>2. MarkedBy(m) \in Nat /\ now <= MarkedBy(m)
      BY MarkedByTime DEF FailOverInv
    <3> QED
      BY <1>2, <2>3, <2>4, <3>1, <3>2
  <2>6. request'.pc = "send" /\ ~up'[request'.endpoint] => request'.counter < faults'
    <3>1. SUFFICES ASSUME request'.pc = "send", ~up[request'.endpoint] PROVE a # 0
      BY <1>2, <2>1, <2>2 DEF FaultsPay
    <3>2. request'.endpoint \in Lost
      BY <3>1 DEF Lost
    <3>3. now <= MarkedBy(request'.endpoint) /\ MarkedBy(request'.endpoint) < now + Paid(a)
      BY <2>5, <3>2
    <3>4. MarkedBy(request'.endpoint) \in Nat
      BY MarkedByTime DEF FailOverInv
    <3> QED
      BY <1>2, <2>3, <3>3, <3>4, PaidOne
  <2>7. ASSUME NEW m \in Lost' PROVE MarkedBy(m)' < (Attempt + Paid(faults - request.counter))'
    <3>1. m \in Lost
      BY DEF Lost, Synced
    <3>2. MarkedBy(m)' = MarkedBy(m)
      BY DEF MarkedBy, Left
    <3>3. Paid(faults - request.counter)' = Paid(a)
      BY <2>2, Zenon
    <3> QED
      BY <2>4, <2>5, <3>1, <3>2, <3>3
  <2> QED
    BY <2>1, <2>6, <2>7 DEF FaultsPay
<1> QED
  BY <1>1, <1>3, <1>4 DEF FailOverInv, RequestInStep

\* A failed attempt is paid for by a fault, unless no steady node is left.
LEMMA RetryKeeps ==
  ASSUME FailOverInv, UNCHANGED <<now, primary, up, node, mpc, todo, passStart, faults>>,
         Retry, request.pc \in {"choose", "send"},
         request.steady = {} \/ (request.pc = "send" /\ ~up[request.endpoint])
  PROVE  FailOverInv'
<1>1. MonitorTypes /\ request \in RequestType /\ RetryCount \in Nat /\ now \in Nat /\ faults \in Nat
  BY FailOverBounds DEF FailOverInv, MonitorTypes
<1>2. /\ request' \in RequestType /\ request'.counter = request.counter + 1
      /\ request'.retryAt = now + WaitTime /\ request'.pc \in {"wait", "unavailable"}
      /\ request'.steady = request.steady
      /\ request'.pc = "unavailable" => request'.counter > RetryCount
  <2> DEFINE c == request.counter + 1
             p == IF c <= RetryCount THEN "wait" ELSE "unavailable"
  <2>1. c \in Nat /\ now + WaitTime \in Nat
    BY <1>1, FailOverBounds DEF RequestType
  <2>2. p \in {"wait", "unavailable"} /\ (p = "unavailable" => c > RetryCount)
    BY <1>1, <2>1
  <2>3. request' = [request EXCEPT !.counter = c, !.retryAt = now + WaitTime, !.pc = p]
    BY DEF Retry
  <2> HIDE DEF c, p
  <2>4. /\ request' \in RequestType /\ request'.counter = c /\ request'.retryAt = now + WaitTime
        /\ request'.pc = p /\ request'.steady = request.steady
    BY <1>1, <2>1, <2>2, <2>3 DEF RequestType
  <2> QED
    BY <2>2, <2>4 DEF c
<1>3. MonitorTypes' /\ PassInTime'
  BY <1>2 DEF FailOverInv, MonitorTypes, PassInTime
<1>4. request'.steady \subseteq {n \in Synced : up[n]}'
  BY <1>2 DEF FailOverInv, RequestInStep, Synced
<1>5. request'.pc = "wait" => now' <= request'.retryAt
  BY <1>1, <1>2, FailOverBounds
<1>6. ASSUME request'.steady # {} PROVE FaultsPay'
  <2>1. FaultsPay /\ request.counter < faults
    BY <1>2, <1>6 DEF FailOverInv, RequestInStep, FaultsPay
  <2>2. request.counter \in Nat
    BY <1>1 DEF RequestType
  <2>3. request'.counter <= faults'
    BY <1>1, <1>2, <2>1, <2>2
  <2>4. ASSUME request'.pc = "wait", NEW m \in Lost'
        PROVE  MarkedBy(m)' < (Attempt + Paid(faults - request.counter))'
    <3>1. m \in Lost
      BY <2>4 DEF Lost, Synced
    <3>2. MarkedBy(m)' = MarkedBy(m)
      BY DEF MarkedBy, Left
    <3>3. PICK a \in Nat : a = faults' - request'.counter
      BY <1>1, <1>2, <2>1, <2>2
    <3>4. a + 1 = faults - request.counter
      BY <1>1, <1>2, <2>2, <3>3
    <3>5. Paid(a) \in Nat /\ Paid(a + 1) = Paid(a) + WaitTime
      BY PaidAdds, PaidOne
    <3>6. Attempt = now /\ (request'.pc = "wait" => Attempt' = now + WaitTime)
      BY <1>2 DEF Attempt
    <3>7. MarkedBy(m) < now + Paid(a + 1)
      BY <2>1, <3>1, <3>4, <3>6, Zenon DEF FaultsPay, Trying
    <3>8. Paid(faults - request.counter)' = Paid(a)
      BY <3>3, Zenon
    <3>9. MarkedBy(m) \in Nat
      BY MarkedByTime DEF FailOverInv
    <3> QED
      BY <1>1, <2>4, <3>2, <3>5, <3>6, <3>7, <3>8, <3>9, FailOverBounds
  <2> QED
    BY <1>2, <2>3, <2>4 DEF FaultsPay, Trying
<1> QED
  BY <1>2, <1>3, <1>4, <1>5, <1>6 DEF FailOverInv, RequestInStep

\* Each step of the client is a failed attempt or costs nothing.
LEMMA ClientKeeps ==
  ASSUME FailOverInv, Client
  PROVE  FailOverInv'
<1>1. UNCHANGED <<now, primary, up, node, mpc, todo, passStart, faults>>
  BY DEF Client, chainVars, monitorVars
<1>2. MonitorTypes /\ request \in RequestType /\ primary \in Endpoint
  BY DEF FailOverInv, MonitorTypes
<1>3. \A n \in request.steady : n \in Synced /\ up[n]
  BY DEF FailOverInv, RequestInStep
<1>4. CASE StartRequest
  <2>1. request.pc = "idle" /\ Synced \subseteq Endpoint
    BY <1>4 DEF StartRequest, Synced
  <2>2. PICK S \in SUBSET Endpoint : S = {n \in Synced : up[n]}
    BY <2>1
  <2>3. request' = [request EXCEPT !.pc = "choose", !.steady = S]
    BY <1>4, <2>2, Zenon DEF StartRequest
  <2>4. /\ request' \in RequestType /\ request'.counter = request.counter
        /\ request'.pc = "choose" /\ request'.steady = S
    BY <1>2, <2>3 DEF RequestType
  <2>5. \A n \in request'.steady : n \in Synced /\ up[n]
    BY <2>2, <2>4
  <2> QED
    BY <1>1, <2>1, <2>4, <2>5, ClientMoves
<1>5. CASE ChooseDefault
  <2> DEFINE p == IF up[primary] THEN "served" ELSE "failed"
  <2>1. request.pc = "choose" /\ request' = [request EXCEPT !.endpoint = primary, !.pc = p]
    BY <1>5 DEF ChooseDefault
  <2>2. p \in {"served", "failed"}
    OBVIOUS
  <2> HIDE DEF p
  <2>3. /\ request' \in RequestType /\ request'.counter = request.counter
        /\ request'.pc = p /\ request'.steady = request.steady
    BY <1>2, <2>1, <2>2 DEF RequestType
  <2> QED
    BY <1>1, <1>3, <2>1, <2>2, <2>3, ClientMoves
<1>6. CASE ChooseNode
  <2>1. request.pc = "choose"
    BY <1>6 DEF ChooseNode
  <2>2. CASE BestNodes = {} /\ Retry
    <3>1. request.steady = {}
      BY <1>2, <1>3, <2>2, BestNodesExist
    <3> QED
      BY <1>1, <2>1, <2>2, <3>1, RetryKeeps
  <2>3. ASSUME NEW n \in BestNodes, request' = [request EXCEPT !.endpoint = n, !.pc = "send"]
        PROVE  FailOverInv'
    <3>1. n \in Synced /\ n \in Endpoint
      BY DEF BestNodes, Synced
    <3>2. /\ request' \in RequestType /\ request'.counter = request.counter
          /\ request'.pc = "send" /\ request'.steady = request.steady /\ request'.endpoint = n
      BY <1>2, <2>3, <3>1 DEF RequestType
    <3> QED
      BY <1>1, <1>3, <2>1, <3>1, <3>2, ClientMoves
  <2> QED
    BY <1>6, <2>2, <2>3 DEF ChooseNode
<1>7. CASE Send
  <2>1. request.pc = "send"
    BY <1>7 DEF Send
  <2>2. CASE up[request.endpoint]
    <3>1. request' = [request EXCEPT !.pc = "served"]
      BY <1>7, <2>2 DEF Send
    <3>2. /\ request' \in RequestType /\ request'.counter = request.counter
          /\ request'.pc = "served" /\ request'.steady = request.steady
      BY <1>2, <3>1 DEF RequestType
    <3> QED
      BY <1>1, <1>3, <2>1, <3>2, ClientMoves
  <2>3. CASE ~up[request.endpoint]
    BY <1>1, <1>7, <2>1, <2>3, RetryKeeps DEF Send
  <2> QED
    BY <2>2, <2>3
<1>8. CASE WakeUp
  <2>1. /\ request.pc = "wait" /\ now >= request.retryAt
        /\ request' = [request EXCEPT !.pc = "choose"]
    BY <1>8 DEF WakeUp
  <2>2. /\ request' \in RequestType /\ request'.counter = request.counter
        /\ request'.pc = "choose" /\ request'.steady = request.steady
    BY <1>2, <2>1 DEF RequestType
  <2> QED
    BY <1>1, <1>3, <2>1, <2>2, ClientMoves
<1> QED
  BY <1>4, <1>5, <1>6, <1>7, <1>8 DEF Client

\* No node is synchronized in the beginning.
LEMMA FailOverInitially ==
  ASSUME Init
  PROVE  FailOverInv
<1>1. /\ now = StartTime /\ passStart = StartTime /\ faults = 0 /\ mpc = "boot" /\ todo = <<>>
      /\ up = [n \in Endpoint |-> TRUE] /\ primary \in Endpoint
      /\ node = [n \in Endpoint |-> [present |-> FALSE, priority |-> 0, synced |-> FALSE]]
      /\ request = [pc |-> "idle", counter |-> 0, endpoint |-> primary, retryAt |-> 0, steady |-> {}]
  BY DEF Init
<1>2. StartTime \in Nat
  BY FailOverBounds
<1>3. todo \in Seq(Endpoint)
  BY <1>1
<1>4. request \in RequestType
  BY <1>1 DEF RequestType
<1>5. node \in [Endpoint -> [present : BOOLEAN, priority : {0, 1}, synced : BOOLEAN]]
  BY <1>1
<1>6. up \in [Endpoint -> BOOLEAN]
  BY <1>1
<1>7. MonitorTypes /\ PassInTime
  BY <1>1, <1>2, <1>3, <1>4, <1>5, <1>6 DEF MonitorTypes, PassInTime
<1>8. Synced = {}
  BY <1>1 DEF Synced
<1>9. request.pc = "idle" /\ request.counter = 0 /\ request.steady = {}
  BY <1>1
<1>10. FaultsPay
  BY <1>1, <1>8, <1>9 DEF FaultsPay, Lost
<1> QED
  BY <1>7, <1>9, <1>10 DEF FailOverInv, RequestInStep

\* However many nodes there are and whenever they are lost, if the client waits at least one
\* interval of the monitor between its attempts, as the configuration does, it gives up only
\* when no node was steady all the time or more faults occurred than it has retries.
THEOREM OutageAlwaysSurvived ==
  ASSUME Interval <= WaitTime
  PROVE  ServicesSpec => []OutageSurvived
<1> DEFINE Inv == which = "two" => FailOverInv
<1>1. ServicesInit => Inv
  BY FailOverInitially DEF ServicesInit, MonitorInit, CacheInit, ListsInit, MailInit, EthInit
<1>2. Inv /\ [ServicesNext]_serviceVars => Inv'
  <2> SUFFICES ASSUME Inv, [ServicesNext]_serviceVars, which' = "two" PROVE FailOverInv'
    OBVIOUS
  <2>1. CASE ServicesNext
    <3>1. which = "two" /\ (MonitorNext \/ Client)
      BY <2>1 DEF ServicesNext, MonitorStep, CacheStep, ListsStep, MailStep, EthStep
    <3>2. FailOverInv
      BY <3>1
    <3>3. CASE MonitorNext
      BY <3>2, <3>3, TickKeeps, GoDownKeeps, ComeUpKeeps, InitialSetupKeeps, ChecksKeep,
         PassesKeep, RestartKeeps DEF MonitorNext
    <3> QED
      BY <3>1, <3>2, <3>3, ClientKeeps
  <2>2. CASE UNCHANGED serviceVars
    <3>1. /\ UNCHANGED <<now, primary, up, node, mpc, todo, passStart, faults, request>>
          /\ which' = which
      BY <2>2 DEF serviceVars, vars, chainVars, monitorVars
    <3>2. FailOverInv
      BY <3>1
    <3> QED
      BY <3>1, <3>2 DEF FailOverInv, MonitorTypes, PassInTime, RequestInStep, FaultsPay, Trying,
         Lost, Synced, Attempt, Paid, MarkedBy, Left
  <2> QED
    BY <2>1, <2>2
<1>3. Inv => OutageSurvived
  <2> SUFFICES ASSUME FailOverInv PROVE UnavailableOnlyAfterFaults
    BY DEF OutageSurvived
  <2>1. request.counter \in Nat /\ faults \in Nat /\ RetryCount \in Nat
    BY FailOverBounds DEF FailOverInv, MonitorTypes, RequestType
  <2> QED
    BY <2>1 DEF FailOverInv, RequestInStep, FaultsPay, UnavailableOnlyAfterFaults
<1> QED
  BY <1>1, <1>2, <1>3, PTL DEF ServicesSpec

------------------------------------------------------------------------------
(* The monitor of nodes: its ring buffers and what it judges from them. *)

\* The answers a ring keeps, the newest first.
Back(ring, k) == ring.slot[IF k <= ring.next THEN ring.next - k ELSE ring.next - k + Period]

RingType == [slot : [0..Period - 1 -> OneNode!Data], next : 0..Period - 1]

\* The bounds of the monitor are as assumed.
LEMMA MonitorBounds ==
  /\ Period \in Nat \ {0} /\ Interval \in Nat \ {0}
  /\ RemainingThreshold \in Nat /\ Speed \in Nat /\ BlocksPerSec \in Nat
  /\ RetryCount \in Nat /\ WaitTime \in Nat /\ PassTime \in Nat /\ StartTime \in Nat
  /\ MonitorTime \in Nat /\ MonitorFaults \in Nat
  /\ PassTime < Interval /\ StartTime <= MonitorTime
  /\ Blocks \subseteq {0, 1} /\ IsFiniteSet(Monitored) /\ Monitored # {}
BY MonitorAssumption DEF OneNode!Assumption, OneNode!IsFiniteSet, IsFiniteSet

\* The next slot.
LEMMA NextSlot ==
  ASSUME NEW P \in Nat \ {0}, NEW x \in 0..P - 1
  PROVE  (x + 1) % P = IF x + 1 = P THEN 0 ELSE x + 1
<1>1. CASE x + 1 = P
  <2>1. P % P = 0
    OBVIOUS
  <2> QED
    BY <1>1, <2>1
<1>2. CASE x + 1 < P
  <2>1. x + 1 \in 0..P - 1
    BY <1>2
  <2>2. ASSUME NEW y \in 0..P - 1 PROVE y % P = y
    OBVIOUS
  <2> QED
    BY <1>2, <2>1, <2>2
<1> QED
  BY <1>1, <1>2

\* An answer pushes the others one place back; the oldest one is lost.
LEMMA RingAppends ==
  ASSUME NEW ring \in RingType, NEW data \in OneNode!Data
  PROVE  LET new == OneNode!AppendData(ring, data)
         IN  /\ new \in RingType
             /\ Back(new, 1) = data
             /\ \A k \in 2..Period : Back(new, k) = Back(ring, k - 1)
             /\ OneNode!PeekOldest(ring) = Back(ring, Period)
<1> DEFINE new == OneNode!AppendData(ring, data)
<1>1. /\ Period \in Nat \ {0} /\ ring.next \in 0..Period - 1
      /\ ring.slot \in [0..Period - 1 -> OneNode!Data]
  BY MonitorBounds DEF RingType
<1>2. new = [slot |-> [ring.slot EXCEPT ![ring.next] = data], next |-> new.next]
  BY DEF OneNode!AppendData
<1>3. new.next = IF ring.next + 1 = Period THEN 0 ELSE ring.next + 1
  BY <1>1, NextSlot DEF OneNode!AppendData
<1> HIDE DEF new
<1>4. new.slot = [ring.slot EXCEPT ![ring.next] = data]
  BY <1>2
<1>5. new \in RingType
  BY <1>1, <1>2, <1>3 DEF RingType
<1>6. Back(new, 1) = data
  BY <1>1, <1>3, <1>4 DEF Back
<1>7. ASSUME NEW k \in 2..Period PROVE Back(new, k) = Back(ring, k - 1)
  BY <1>1, <1>3, <1>4 DEF Back
<1>8. OneNode!PeekOldest(ring) = Back(ring, Period)
  BY <1>1 DEF Back, OneNode!PeekOldest
<1> QED
  BY <1>5, <1>6, <1>7, <1>8 DEF new

\* The least element, and speeds that are fast enough add up.
LEMMA LeastOf ==
  ASSUME NEW S \in SUBSET Nat, S # {}
  PROVE  \E x \in S : \A y \in S : x <= y
<1>1. \E x \in S : \A y \in S : ~ (<<y, x>> \in OpToRel(<, Nat))
  BY WFMin, NatLessThanWellFounded
<1>2. PICK x \in S : \A y \in S : ~ (<<y, x>> \in OpToRel(<, Nat))
  BY <1>1
<1>3. ASSUME NEW y \in S PROVE x <= y
  <2>1. x \in Nat /\ y \in Nat
    BY <1>2
  <2>2. <<y, x>> \notin OpToRel(<, Nat)
    BY <1>2
  <2>3. ~ (y < x)
    BY <2>1, <2>2 DEF OpToRel
  <2> QED
    BY <2>1, <2>3
<1> QED
  BY <1>3

Answer == [time : Nat, number : Nat, behind : Int]

\* A sum times a number.
LEMMA Product ==
  ASSUME NEW K \in Nat, NEW a \in Int, NEW b \in Int
  PROVE  (a + b) * K = a * K + b * K
OBVIOUS

\* What slow means, with one product for the expected speed.
LEMMA SlowIs ==
  ASSUME NEW old, NEW new, old.time \in Nat, new.time \in Nat, old.number \in Nat, new.number \in Nat
  PROVE  OneNode!Slow(old, new) <=>
            100 * (new.number - old.number) < (new.time - old.time) * (BlocksPerSec * Speed)
<1>1. BlocksPerSec \in Nat /\ Speed \in Nat
  BY MonitorBounds
<1>2. ASSUME NEW a \in Int PROVE a * BlocksPerSec * Speed = a * (BlocksPerSec * Speed)
  BY <1>1
<1> QED
  BY <1>2 DEF OneNode!Slow

\* Two steps that are fast enough are so together.
LEMMA TwoSteps ==
  ASSUME NEW x \in Answer, NEW y \in Answer, NEW z \in Answer,
         ~OneNode!Slow(x, y), ~OneNode!Slow(y, z)
  PROVE  ~OneNode!Slow(x, z)
<1>1. /\ x.time \in Nat /\ y.time \in Nat /\ z.time \in Nat
      /\ x.number \in Nat /\ y.number \in Nat /\ z.number \in Nat
  BY DEF Answer
<1>2. PICK K \in Nat : K = BlocksPerSec * Speed
  BY MonitorBounds
<1>3. PICK a \in Int : a = y.time - x.time
  BY <1>1
<1>4. PICK b \in Int : b = z.time - y.time
  BY <1>1
<1>5. 100 * (y.number - x.number) >= a * K
  <2>1. ~(100 * (y.number - x.number) < a * K)
    BY <1>1, <1>2, <1>3, SlowIs
  <2> QED
    BY <1>1, <2>1
<1>6. 100 * (z.number - y.number) >= b * K
  <2>1. ~(100 * (z.number - y.number) < b * K)
    BY <1>1, <1>2, <1>4, SlowIs
  <2> QED
    BY <1>1, <2>1
<1>7. (a + b) * K = a * K + b * K /\ a * K \in Int /\ b * K \in Int
  BY Product
<1>8. ~(100 * (z.number - x.number) < (a + b) * K)
  BY <1>1, <1>5, <1>6, <1>7
<1>9. OneNode!Slow(x, z) <=> 100 * (z.number - x.number) < (a + b) * K
  <2>1. z.time - x.time = a + b
    BY <1>1, <1>3, <1>4
  <2> QED
    BY <1>1, <1>2, <2>1, SlowIs
<1> QED
  BY <1>8, <1>9

\* Steps that are all fast enough are fast enough together.
LEMMA FastEnoughAddsUp ==
  ASSUME NEW s \in Seq(Answer), NEW m \in Nat,
         \A i \in 1..m : ~OneNode!Slow(s[i], s[i + 1]), m + 1 <= Len(s)
  PROVE  ~OneNode!Slow(s[1], s[m + 1])
<1> DEFINE S == {i \in 1..m + 1 : OneNode!Slow(s[1], s[i])}
<1>1. \A i \in 1..m + 1 : s[i] \in Answer
  OBVIOUS
<1>2. ~OneNode!Slow(s[1], s[1])
  <2>1. s[1] \in Answer
    BY <1>1
  <2>2. s[1].time \in Nat /\ s[1].number \in Nat
    BY <2>1 DEF Answer
  <2>3. PICK K \in Nat : K = BlocksPerSec * Speed
    BY MonitorBounds
  <2>4. OneNode!Slow(s[1], s[1]) <=> 100 * (s[1].number - s[1].number) < (s[1].time - s[1].time) * K
    BY <2>2, <2>3, SlowIs
  <2>5. 100 * (s[1].number - s[1].number) = 0 /\ (s[1].time - s[1].time) * K = 0
    BY <2>2
  <2> QED
    BY <2>4, <2>5
<1> SUFFICES ASSUME S # {} PROVE FALSE
  OBVIOUS
<1>3. PICK i \in S : \A j \in S : i <= j
  <2>1. S \in SUBSET Nat
    OBVIOUS
  <2> HIDE DEF S
  <2> QED
    BY <2>1, LeastOf
<1>4. i \in 1..m + 1 /\ OneNode!Slow(s[1], s[i])
  BY <1>3
<1>5. i # 1
  BY <1>2, <1>4
<1>6. i - 1 \in 1..m /\ (i - 1) + 1 = i
  BY <1>4, <1>5
<1>7. PICK j \in 1..m : j = i - 1
  BY <1>6
<1>8. j + 1 = i /\ j \in 1..m + 1 /\ ~(i <= j)
  BY <1>4, <1>7
<1>9. ~OneNode!Slow(s[1], s[j]) /\ ~OneNode!Slow(s[j], s[i])
  BY <1>3, <1>8
<1>10. s[1] \in Answer /\ s[j] \in Answer /\ s[i] \in Answer
  BY <1>1, <1>4, <1>8
<1> QED
  BY <1>4, <1>9, <1>10, TwoSteps
\* An answer is as old and as high as the data of the ring.
Matches(data, answer) == data.time = answer.time /\ data.number = answer.number

\* The ring keeps the newest answers seen, up to one per slot.
Remembers(ring, s) ==
    /\ Len(s) <= Period + 1
    /\ \A k \in 1..Period : k <= Len(s) => Matches(Back(ring, k), s[Len(s) - k + 1])

Ordered(s) == \A i, j \in 1..Len(s) : i < j => s[i].time < s[j].time

\* No answer is newer than the clock, and those of a node still to be checked are older than
\* the pass.
AnswersInTime(n) ==
    \A i \in 1..Len(seen[n].answers) :
        LET t == seen[n].answers[i].time
        IN  /\ t <= now
            /\ mpc = "pass" /\ Left(n) => t < passStart
            /\ mpc = "sleep" => t <= passStart + PassTime

Judged(n) ==
    /\ OneNode!Stuck(seen[n].answers) \/ seen[n].missed => ~node[n].synced
    /\ OneNode!Steady(seen[n].answers) /\ ~seen[n].missed => node[n].synced

IdleRequest == [pc : {"idle"}, counter : {0}, endpoint : Monitored, retryAt : {0},
                steady : SUBSET Monitored]

OneTypes ==
    /\ OneNode!TypeOK /\ Len(blockTime) <= now /\ request \in IdleRequest
    /\ seen \in [Monitored -> [answers : Seq(Answer), missed : BOOLEAN]]
    /\ \A i, j \in 1..Len(todo) : i # j => todo[i] # todo[j]

\* The inductive invariant of the monitor.
OneInv ==
    /\ OneTypes /\ PassInTime
    /\ \A n \in Monitored :
          /\ Remembers(history[n], seen[n].answers) /\ Ordered(seen[n].answers)
          /\ AnswersInTime(n) /\ Judged(n)
          /\ mpc = "boot" => seen[n] = OneNode!Unseen

\* The answers that stay, counted from the newest one.
LEMMA RecentAnswers ==
  ASSUME NEW s \in Seq(Answer), Len(s) <= Period + 1
  PROVE  LET t == OneNode!Recent(s)
         IN  /\ t \in Seq(Answer) /\ Len(t) <= Period /\ Len(t) <= Len(s)
             /\ Len(s) >= Period => Len(t) = Period
             /\ \A i \in 1..Len(t) : t[i] = s[Len(s) - Len(t) + i]
<1>1. Period \in Nat \ {0} /\ Len(s) \in Nat
  BY MonitorBounds
<1>2. CASE Len(s) > Period
  <2>1. s # <<>> /\ OneNode!Recent(s) = Tail(s)
    BY <1>1, <1>2 DEF OneNode!Recent
  <2>2. /\ Tail(s) \in Seq(Answer) /\ Len(Tail(s)) = Len(s) - 1
        /\ \A i \in 1..Len(Tail(s)) : Tail(s)[i] = s[i + 1]
    BY <2>1
  <2>3. PICK t \in Seq(Answer) : t = Tail(s)
    BY <2>2
  <2>4. ASSUME NEW i \in 1..Len(t) PROVE t[i] = s[Len(s) - Len(t) + i]
    <3>1. Len(s) - Len(t) + i = i + 1
      BY <1>1, <2>2, <2>3
    <3> QED
      BY <2>2, <2>3, <3>1
  <2>5. Len(t) <= Period /\ Len(t) <= Len(s) /\ (Len(s) >= Period => Len(t) = Period)
    BY <1>1, <1>2, <2>2, <2>3
  <2> QED
    BY <2>1, <2>3, <2>4, <2>5, Zenon
<1>3. CASE ~(Len(s) > Period)
  <2>1. OneNode!Recent(s) = s
    BY <1>3 DEF OneNode!Recent
  <2> QED
    BY <1>1, <1>3, <2>1
<1> QED
  BY <1>2, <1>3

\* One answer more, in the ring and in what was seen.
LEMMA AnswerKept ==
  ASSUME NEW ring \in RingType, NEW s \in Seq(Answer), Remembers(ring, s), Ordered(s),
         NEW data \in OneNode!Data, NEW a \in Answer, Matches(data, a),
         \A i \in 1..Len(s) : s[i].time < a.time
  PROVE  LET new == Append(OneNode!Recent(s), a)
         IN  /\ new \in Seq(Answer) /\ Ordered(new)
             /\ Remembers(OneNode!AppendData(ring, data), new)
             /\ \A i \in 1..Len(new) : new[i].time <= a.time
             /\ OneNode!Full(new) => /\ Matches(OneNode!PeekOldest(ring), new[1])
                                     /\ new[Period + 1] = a
<1> DEFINE t == OneNode!Recent(s)
           new == Append(t, a)
           later == OneNode!AppendData(ring, data)
<1>1. Period \in Nat \ {0} /\ Len(s) \in Nat /\ Len(s) <= Period + 1
  BY MonitorBounds DEF Remembers
<1>2. /\ t \in Seq(Answer) /\ Len(t) \in Nat /\ Len(t) <= Period /\ Len(t) <= Len(s)
      /\ Len(s) >= Period => Len(t) = Period
      /\ \A i \in 1..Len(t) : t[i] = s[Len(s) - Len(t) + i]
  BY <1>1, RecentAnswers
<1> HIDE DEF t
<1>3. /\ new \in Seq(Answer) /\ Len(new) = Len(t) + 1 /\ new[Len(t) + 1] = a
      /\ \A i \in 1..Len(t) : new[i] = t[i]
  BY <1>2
<1>4. /\ Back(later, 1) = data
      /\ \A k \in 2..Period : Back(later, k) = Back(ring, k - 1)
      /\ OneNode!PeekOldest(ring) = Back(ring, Period)
  BY RingAppends
<1> HIDE DEF new, later
<1>5. ASSUME NEW i \in 1..Len(s) PROVE s[i].time \in Nat
  <2>1. s[i] \in Answer
    BY <1>1
  <2> QED
    BY <2>1 DEF Answer
<1>6. a.time \in Nat
  BY DEF Answer
<1>7. \A i \in 1..Len(t) : /\ Len(s) - Len(t) + i \in 1..Len(s)
                           /\ new[i] = s[Len(s) - Len(t) + i]
  BY <1>1, <1>2, <1>3
<1>8. Ordered(new)
  <2> SUFFICES ASSUME NEW i \in 1..Len(new), NEW j \in 1..Len(new), i < j
               PROVE  new[i].time < new[j].time
    BY DEF Ordered
  <2>1. i \in 1..Len(t)
    BY <1>2, <1>3
  <2>2. CASE j \in 1..Len(t)
    <3>1. Len(s) - Len(t) + i < Len(s) - Len(t) + j
      BY <1>1, <1>2
    <3> QED
      BY <1>7, <2>1, <2>2, <3>1 DEF Ordered
  <2>3. CASE j = Len(t) + 1
    BY <1>3, <1>7, <2>1, <2>3
  <2>4. j \in 1..Len(t) \/ j = Len(t) + 1
    <3>1. Len(t) \in Nat /\ Len(new) = Len(t) + 1
      BY <1>2, <1>3
    <3> QED
      BY <3>1
  <2> QED
    BY <2>2, <2>3, <2>4
<1>9. ASSUME NEW i \in 1..Len(new) PROVE new[i].time <= a.time
  <2>1. CASE i \in 1..Len(t)
    BY <1>5, <1>6, <1>7, <2>1
  <2>2. CASE i = Len(t) + 1
    BY <1>3, <1>6, <2>2
  <2> QED
    BY <1>2, <1>3, <2>1, <2>2
<1>10. Remembers(later, new)
  <2>1. Len(new) <= Period + 1
    BY <1>1, <1>2, <1>3
  <2>2. ASSUME NEW k \in 1..Period, k <= Len(new)
        PROVE  Matches(Back(later, k), new[Len(new) - k + 1])
    <3>1. CASE k = 1
      <4>1. new[Len(new) - k + 1] = a
        BY <1>2, <1>3, <3>1
      <4> QED
        BY <1>4, <3>1, <4>1
    <3>2. CASE k # 1
      <4>1. k \in 2..Period /\ k - 1 \in 1..Period /\ k - 1 <= Len(s)
        BY <1>1, <1>2, <1>3, <2>2, <3>2
      <4>2. Matches(Back(ring, k - 1), s[Len(s) - (k - 1) + 1])
        BY <4>1 DEF Remembers
      <4>3. Len(new) - k + 1 \in 1..Len(t)
        BY <1>2, <1>3, <2>2, <4>1
      <4>4. Len(s) - Len(t) + (Len(new) - k + 1) = Len(s) - (k - 1) + 1
        BY <1>1, <1>2, <1>3
      <4>5. new[Len(new) - k + 1] = s[Len(s) - (k - 1) + 1]
        <5>1. PICK i \in 1..Len(t) : i = Len(new) - k + 1
          BY <4>3
        <5>2. new[i] = s[Len(s) - Len(t) + i]
          BY <1>7
        <5> QED
          BY <4>4, <5>1, <5>2, Zenon
      <4>6. Back(later, k) = Back(ring, k - 1)
        BY <1>4, <4>1
      <4> QED
        BY <4>2, <4>5, <4>6, Zenon
    <3> QED
      BY <3>1, <3>2
  <2> QED
    BY <2>1, <2>2 DEF Remembers
<1>11. ASSUME OneNode!Full(new)
       PROVE  Matches(OneNode!PeekOldest(ring), new[1]) /\ new[Period + 1] = a
  <2>1. Len(t) = Period /\ Len(s) >= Period
    BY <1>1, <1>2, <1>3, <1>11 DEF OneNode!Full
  <2>2. 1 \in 1..Len(t) /\ new[1] = s[Len(s) - Period + 1]
    BY <1>1, <1>7, <2>1
  <2>3. Matches(Back(ring, Period), s[Len(s) - Period + 1])
    BY <1>1, <2>1 DEF Remembers
  <2>4. new[Period + 1] = a
    BY <1>3, <2>1
  <2> QED
    BY <1>4, <2>2, <2>3, <2>4, Zenon
<1> QED
  BY <1>3, <1>8, <1>9, <1>10, <1>11 DEF new, t, later

\* What __process compares, the oldest answer of the ring with the new one, tells a node that
\* is stuck from one that grew fast enough all the time.
LEMMA ComparesRight ==
  ASSUME BlocksPerSec > 0, Speed > 0, NEW s \in Seq(Answer), OneNode!Full(s), Ordered(s),
         NEW old, NEW data, Matches(old, s[1]), Matches(data, s[Period + 1])
  PROVE  /\ OneNode!Stuck(s) => OneNode!Slow(old, data)
         /\ OneNode!Steady(s) => ~OneNode!Slow(old, data)
<1> DEFINE f == s[1]
           l == s[Period + 1]
<1>1. Period \in Nat \ {0} /\ Len(s) = Period + 1 /\ BlocksPerSec \in Nat /\ Speed \in Nat
  BY MonitorBounds DEF OneNode!Full
<1>2. /\ 1 \in 1..Len(s) /\ Period + 1 \in 1..Len(s) /\ DOMAIN s = 1..Len(s)
      /\ f \in Answer /\ l \in Answer
  BY <1>1
<1>3. /\ f.time \in Nat /\ f.number \in Nat /\ l.time \in Nat /\ l.number \in Nat
      /\ f.time < l.time
  BY <1>1, <1>2 DEF Answer, Ordered
<1>4. /\ old.time = f.time /\ old.number = f.number
      /\ data.time = l.time /\ data.number = l.number
  BY DEF Matches
<1>5. OneNode!Slow(old, data) <=> OneNode!Slow(f, l)
  BY <1>4, Zenon DEF OneNode!Slow
<1>6. ASSUME OneNode!Stuck(s) PROVE OneNode!Slow(f, l)
  <2>1. l.number = f.number
    BY <1>2, <1>6 DEF OneNode!Stuck
  <2>2. PICK d \in Nat \ {0} : d = l.time - f.time
    BY <1>3
  <2>3. PICK K \in Nat \ {0} : K = BlocksPerSec * Speed
    BY <1>1
  <2>4. d * K > 0
    BY <2>2, <2>3
  <2>5. 100 * (l.number - f.number) = 0
    BY <1>3, <2>1
  <2>6. OneNode!Slow(f, l) <=> 100 * (l.number - f.number) < (l.time - f.time) * (BlocksPerSec * Speed)
    BY <1>3, SlowIs
  <2> QED
    BY <2>2, <2>3, <2>4, <2>5, <2>6
<1>7. ASSUME OneNode!Steady(s) PROVE ~OneNode!Slow(f, l)
  <2>1. \A i \in 1..Period : ~OneNode!Slow(s[i], s[i + 1])
    BY <1>7 DEF OneNode!Steady
  <2>2. Period \in Nat /\ Period + 1 <= Len(s)
    BY <1>1
  <2> QED
    BY <2>1, <2>2, FastEnoughAddsUp
<1> QED
  BY <1>5, <1>6, <1>7

\* What the types say of each variable.
LEMMA MonitorFacts ==
  ASSUME OneTypes
  PROVE  /\ now \in Nat /\ StartTime <= now /\ now <= MonitorTime /\ passStart \in StartTime..now
         /\ faults \in 0..MonitorFaults /\ Len(blockTime) \in Nat /\ Len(blockTime) <= now
         /\ blockTime \in Seq(1..MonitorTime)
         /\ \A n \in Monitored : height[n] \in 0..Len(blockTime)
         /\ up \in [Monitored -> BOOLEAN] /\ primary \in Monitored
         /\ node \in [Monitored -> Row] /\ history \in [Monitored -> RingType]
         /\ mpc \in {"boot", "pass", "sleep"} /\ todo \in Seq(Monitored)
         /\ request \in IdleRequest
         /\ seen \in [Monitored -> [answers : Seq(Answer), missed : BOOLEAN]]
<1>1. OneNode!TypeOK /\ Len(blockTime) <= now /\ request \in IdleRequest
  BY DEF OneTypes
<1>2. now \in Nat /\ StartTime <= now /\ now <= MonitorTime
  BY <1>1, MonitorBounds DEF OneNode!TypeOK
<1>3. blockTime \in Seq(1..MonitorTime) /\ Len(blockTime) \in Nat
  BY <1>1 DEF OneNode!TypeOK
<1>4. /\ \A n \in Monitored : height[n] \in 0..Len(blockTime)
      /\ up \in [Monitored -> BOOLEAN] /\ primary \in Monitored
      /\ node \in [Monitored -> Row] /\ passStart \in StartTime..now
      /\ mpc \in {"boot", "pass", "sleep"} /\ todo \in Seq(Monitored)
      /\ faults \in 0..MonitorFaults
  BY <1>1 DEF OneNode!TypeOK, Row
<1>5. history \in [Monitored -> RingType]
  BY <1>1 DEF OneNode!TypeOK, RingType
<1> QED
  BY <1>1, <1>2, <1>3, <1>4, <1>5 DEF OneTypes

\* The types, gathered from those of the variables a step changes.
LEMMA TypesGathered ==
  ASSUME OneTypes, now' \in now..MonitorTime, blockTime' \in Seq(1..MonitorTime),
         Len(blockTime') <= now', \A n \in Monitored : height'[n] \in 0..Len(blockTime'),
         up' \in [Monitored -> BOOLEAN], primary' = primary, node' \in [Monitored -> Row],
         history' \in [Monitored -> RingType], mpc' \in {"boot", "pass", "sleep"},
         todo' \in Seq(Monitored), \A i, j \in 1..Len(todo') : i # j => todo'[i] # todo'[j],
         passStart' \in passStart..now', request' \in IdleRequest,
         faults' \in 0..MonitorFaults,
         seen' \in [Monitored -> [answers : Seq(Answer), missed : BOOLEAN]]
  PROVE  OneTypes'
<1>1. /\ now \in Nat /\ StartTime \in Nat /\ StartTime <= now /\ passStart \in StartTime..now
      /\ MonitorTime \in Nat /\ RetryCount \in Nat /\ primary \in Monitored
  BY MonitorFacts, MonitorBounds
<1>2. /\ request'.counter = 0 /\ request'.pc = "idle"
  BY DEF IdleRequest
<1>3. now' \in StartTime..MonitorTime /\ passStart' \in StartTime..now' /\ request'.counter \in 0..RetryCount + 1
  BY <1>1, <1>2
<1>4. history' \in [Monitored -> [slot : [0..Period - 1 -> OneNode!Data], next : 0..Period - 1]]
  BY DEF RingType
<1>5. OneNode!TypeOK'
  BY <1>1, <1>2, <1>3, <1>4 DEF OneNode!TypeOK, Row
<1> QED
  BY <1>5 DEF OneTypes

\* An endpoint without any answer.
LEMMA UnseenIsFine ==
  ASSUME NEW n \in Monitored, seen'[n] = OneNode!Unseen
  PROVE  /\ Remembers(history[n], seen[n].answers)' /\ Ordered(seen[n].answers)'
         /\ AnswersInTime(n)' /\ Judged(n)'
<1>1. Period \in Nat \ {0}
  BY MonitorBounds
<1>2. seen'[n].answers = <<>> /\ seen'[n].missed = FALSE
  BY DEF OneNode!Unseen
<1>3. Len(seen'[n].answers) = 0
  BY <1>2
<1>4. Remembers(history[n], seen[n].answers)' /\ Ordered(seen[n].answers)' /\ AnswersInTime(n)'
  BY <1>1, <1>3 DEF Remembers, Ordered, AnswersInTime
<1>5. ~OneNode!Full(seen'[n].answers)
  BY <1>1, <1>3 DEF OneNode!Full
<1>6. Judged(n)'
  BY <1>2, <1>5 DEF Judged, OneNode!Stuck, OneNode!Steady
<1> QED
  BY <1>4, <1>6

\* A step that leaves what the monitor knows.
LEMMA QuietSteps ==
  ASSUME OneInv, OneTypes', PassInTime', UNCHANGED <<history, seen, node>>,
         mpc' = "boot" => mpc = "boot", \A n \in Monitored : AnswersInTime(n)'
  PROVE  OneInv'
<1>1. ASSUME NEW n \in Monitored
      PROVE  /\ Remembers(history[n], seen[n].answers)' /\ Ordered(seen[n].answers)'
             /\ Judged(n)'
  BY DEF OneInv, Remembers, Ordered, Judged
<1> QED
  BY <1>1 DEF OneInv

\* A part of the steady nodes of the request, which stays idle.
LEMMA StaysIdle ==
  ASSUME request \in IdleRequest, NEW S, OneNode!Unsteady(S)
  PROVE  request' \in IdleRequest
BY DEF OneNode!Unsteady, IdleRequest

\* A pass visits no node twice.
LEMMA OrdersVisitOnce ==
  ASSUME NEW s \in OneNode!Orders
  PROVE  s \in Seq(Monitored) /\ \A i, j \in 1..Len(s) : i # j => s[i] # s[j]
<1> DEFINE c == Cardinality(Monitored)
<1>1. c \in Nat /\ OneNode!Cardinality(Monitored) = c
  BY MonitorBounds, FS_CardinalityType, Zenon DEF OneNode!Cardinality, Cardinality
<1>2. /\ s \in [1..OneNode!Cardinality(Monitored) -> Monitored]
      /\ \A i, j \in 1..OneNode!Cardinality(Monitored) : i # j => s[i] # s[j]
  BY DEF OneNode!Orders, OneNode!SetToSeqs
<1> HIDE DEF c
<1>3. s \in Seq(Monitored) /\ Len(s) = c
  BY <1>1, <1>2
<1> QED
  BY <1>1, <1>2, <1>3

\* The verdict on a node in its row.
LEMMA OneSink ==
  ASSUME node \in [Monitored -> Row], NEW n \in Monitored, NEW c \in BOOLEAN
  PROVE  OneNode!SinkOnNode(n, c) \in Row /\ OneNode!SinkOnNode(n, c).synced = c
<1>1. node[n] \in Row
  OBVIOUS
<1>2. OneNode!NewRow(n, c) \in Row /\ OneNode!NewRow(n, c).synced = c
  BY DEF OneNode!NewRow, Row
<1>3. [node[n] EXCEPT !.synced = c] \in Row /\ [node[n] EXCEPT !.synced = c].synced = c
  BY <1>1 DEF Row
<1> QED
  BY <1>2, <1>3, Zenon DEF OneNode!SinkOnNode

\* What the clock, the faults of the nodes and the ends of passes do to the times.
LEMMA InTimeLater ==
  ASSUME OneInv, now' \in Nat, now <= now', UNCHANGED <<seen, passStart>>,
         (mpc' = mpc /\ todo' = todo) \/ mpc' = "boot"
            \/ (mpc' = "sleep" /\ mpc = "pass" /\ now' <= passStart + PassTime),
         NEW n \in Monitored
  PROVE  AnswersInTime(n)'
<1>1. now \in Nat /\ passStart \in Nat /\ seen[n].answers \in Seq(Answer)
  BY MonitorFacts, MonitorBounds DEF OneInv
<1>2. ASSUME NEW i \in 1..Len(seen[n].answers) PROVE seen[n].answers[i].time \in Nat
  <2>1. seen[n].answers[i] \in Answer
    BY <1>1
  <2> QED
    BY <2>1 DEF Answer
<1>3. AnswersInTime(n)
  BY DEF OneInv
<1> SUFFICES ASSUME NEW i \in 1..Len(seen[n].answers)
             PROVE  LET t == seen[n].answers[i].time
                    IN  /\ t <= now'
                        /\ mpc' = "pass" /\ Left(n)' => t < passStart
                        /\ mpc' = "sleep" => t <= passStart + PassTime
  BY DEF AnswersInTime
<1> DEFINE t == seen[n].answers[i].time
<1>4. t \in Nat /\ t <= now /\ (mpc = "pass" /\ Left(n) => t < passStart)
      /\ (mpc = "sleep" => t <= passStart + PassTime)
  BY <1>2, <1>3 DEF AnswersInTime
<1>5. mpc' = mpc /\ todo' = todo => (Left(n)' <=> Left(n))
  BY DEF Left
<1> HIDE DEF t
<1>6. PassTime \in Nat
  BY MonitorBounds
<1>7. t <= now'
  BY <1>1, <1>4
<1>8. mpc' = "pass" /\ Left(n)' => t < passStart
  BY <1>4, <1>5
<1>9. mpc' = "sleep" => t <= passStart + PassTime
  BY <1>1, <1>4, <1>6, <1>7
<1> QED
  BY <1>7, <1>8, <1>9 DEF t

\* Time passes: no answer gets newer, and a pass that is due is not left behind.
LEMMA OneTick ==
  ASSUME OneInv, OneNode!Tick
  PROVE  OneInv'
<1>1. /\ now < MonitorTime /\ now' = now + 1 /\ OneNode!NothingDue
      /\ UNCHANGED <<primary, up, node, history, mpc, todo, passStart, seen, request, faults>>
  BY DEF OneNode!Tick, OneNode!monitorVars
<1>2. OneTypes /\ now \in Nat /\ MonitorTime \in Nat /\ passStart \in StartTime..now /\ StartTime \in Nat
  BY MonitorFacts, MonitorBounds DEF OneInv
<1>3. /\ blockTime \in Seq(1..MonitorTime) /\ Len(blockTime) \in Nat /\ Len(blockTime) <= now
      /\ \A n \in Monitored : height[n] \in 0..Len(blockTime)
  BY <1>2, MonitorFacts
<1>4. PICK blocks \in {0, 1} : blockTime' = blockTime \o [i \in 1..blocks |-> now']
  BY MonitorBounds DEF OneNode!Tick
<1>5. blockTime' \in Seq(1..MonitorTime) /\ Len(blockTime') = Len(blockTime) + blocks
  <2>1. now' \in 1..MonitorTime
    BY <1>1, <1>2
  <2>2. [i \in 1..blocks |-> now'] \in Seq(1..MonitorTime) /\ Len([i \in 1..blocks |-> now']) = blocks
    BY <2>1
  <2> QED
    BY <1>3, <1>4, <2>2
<1>6. PICK stuck \in SUBSET Monitored :
          height' = [n \in Monitored |-> IF n \in stuck \/ ~up[n] THEN height[n] ELSE Len(blockTime')]
  BY DEF OneNode!Tick
<1>7. \A n \in Monitored : height'[n] \in 0..Len(blockTime')
  BY <1>3, <1>5, <1>6
<1>8. OneTypes'
  <2>1. now' \in now..MonitorTime /\ Len(blockTime') <= now' /\ passStart' \in passStart..now'
    BY <1>1, <1>2, <1>3, <1>5
  <2> QED
    BY <1>1, <1>2, <1>5, <1>7, <2>1, TypesGathered, MonitorFacts DEF OneTypes
<1>9. PassInTime'
  BY <1>1, <1>2, MonitorBounds DEF OneInv, PassInTime, OneNode!NothingDue
<1>10. \A n \in Monitored : AnswersInTime(n)'
  BY <1>1, <1>2, InTimeLater
<1> QED
  BY <1>1, <1>8, <1>9, <1>10, QuietSteps

\* A node goes down or comes back: the monitor notices nothing.
LEMMA OneFault ==
  ASSUME OneInv, NEW n \in Monitored, OneNode!GoDown(n) \/ OneNode!ComeUp(n)
  PROVE  OneInv'
<1>1. /\ UNCHANGED <<now, blockTime, height, primary, node, history, mpc, todo, passStart, seen>>
      /\ up' = [up EXCEPT ![n] = FALSE] \/ up' = [up EXCEPT ![n] = TRUE]
  BY DEF OneNode!GoDown, OneNode!ComeUp, OneNode!chainVars, OneNode!monitorVars
<1>2. OneTypes /\ now \in Nat /\ now <= MonitorTime /\ MonitorTime \in Nat /\ passStart \in StartTime..now
      /\ StartTime \in Nat
  BY MonitorFacts, MonitorBounds DEF OneInv
<1>3. up \in [Monitored -> BOOLEAN] /\ request \in IdleRequest /\ faults \in 0..MonitorFaults
  BY <1>2, MonitorFacts
<1>4. up' \in [Monitored -> BOOLEAN]
  BY <1>1, <1>3
<1>5. request' \in IdleRequest
  BY <1>3, StaysIdle DEF OneNode!GoDown, OneNode!ComeUp
<1>6. faults' \in 0..MonitorFaults
  BY <1>3, MonitorBounds DEF OneNode!GoDown, OneNode!ComeUp, OneNode!Fault
<1>7. OneTypes'
  <2>1. now' \in now..MonitorTime /\ passStart' \in passStart..now'
    BY <1>1, <1>2
  <2> QED
    BY <1>1, <1>2, <1>4, <1>5, <1>6, <2>1, TypesGathered, MonitorFacts DEF OneTypes
<1>8. PassInTime'
  BY <1>1 DEF OneInv, PassInTime
<1>9. \A m \in Monitored : AnswersInTime(m)'
  BY <1>1, <1>2, InTimeLater
<1> QED
  BY <1>1, <1>7, <1>8, <1>9, QuietSteps

\* A pass ends or starts: all answers are older than the new pass.
LEMMA OnePasses ==
  ASSUME OneInv, OneNode!EndOfPass \/ OneNode!StartPass
  PROVE  OneInv'
<1>1. UNCHANGED <<now, blockTime, height, primary, up, node, history, seen, request, faults>>
  BY DEF OneNode!EndOfPass, OneNode!StartPass, OneNode!chainVars
<1>2. OneTypes /\ now \in Nat /\ now <= MonitorTime /\ MonitorTime \in Nat /\ passStart \in Nat
      /\ passStart <= now /\ passStart \in StartTime..now
  BY MonitorFacts, MonitorBounds DEF OneInv
<1>3. /\ mpc' \in {"pass", "sleep"} /\ passStart' \in passStart..now'
      /\ todo' \in Seq(Monitored) /\ \A i, j \in 1..Len(todo') : i # j => todo'[i] # todo'[j]
  <2>1. CASE OneNode!EndOfPass
    BY <1>2, <2>1, MonitorFacts DEF OneNode!EndOfPass, OneNode!chainVars, OneTypes
  <2>2. CASE OneNode!StartPass
    BY <1>2, <2>2, OrdersVisitOnce DEF OneNode!StartPass, OneNode!chainVars
  <2> QED
    BY <2>1, <2>2
<1>4. OneTypes'
  <2>1. now' \in now..MonitorTime
    BY <1>1, <1>2
  <2> QED
    BY <1>1, <1>2, <1>3, <2>1, TypesGathered, MonitorFacts DEF OneTypes
<1>5. PassInTime'
  BY <1>1, <1>2, MonitorBounds DEF OneInv, PassInTime, OneNode!EndOfPass, OneNode!StartPass
<1>6. ASSUME NEW n \in Monitored PROVE AnswersInTime(n)'
  <2>1. CASE OneNode!EndOfPass
    <3>1. mpc = "pass" /\ mpc' = "sleep" /\ passStart' = passStart /\ now <= passStart + PassTime
      BY <2>1 DEF OneNode!EndOfPass, OneInv, PassInTime
    <3> QED
      BY <1>1, <1>2, <3>1, InTimeLater
  <2>2. CASE OneNode!StartPass
    <3>1. mpc = "sleep" /\ mpc' = "pass" /\ passStart' = now /\ now >= passStart + Interval
      BY <2>2 DEF OneNode!StartPass
    <3>2. seen[n].answers \in Seq(Answer)
      BY <1>2, MonitorFacts
    <3>3. ASSUME NEW i \in 1..Len(seen[n].answers)
          PROVE  seen[n].answers[i].time < now
      <4>1. seen[n].answers[i] \in Answer
        BY <3>2
      <4>2. seen[n].answers[i].time \in Nat
        BY <4>1 DEF Answer
      <4>3. seen[n].answers[i].time <= passStart + PassTime
        BY <3>1 DEF OneInv, AnswersInTime
      <4>4. PassTime \in Nat /\ Interval \in Nat /\ PassTime < Interval
        BY MonitorBounds
      <4> QED
        BY <1>2, <3>1, <4>2, <4>3, <4>4
    <3>4. ASSUME NEW i \in 1..Len(seen[n].answers)
          PROVE  seen[n].answers[i].time <= now
      BY DEF OneInv, AnswersInTime
    <3> QED
      BY <1>1, <3>1, <3>3, <3>4 DEF AnswersInTime
  <2> QED
    BY <2>1, <2>2
<1> QED
  BY <1>1, <1>3, <1>4, <1>5, <1>6, QuietSteps

\* The histories are set up: nothing was seen since.
LEMMA OneInitialSetup ==
  ASSUME OneInv, OneNode!InitialSetup
  PROVE  OneInv'
<1>1. /\ UNCHANGED <<now, blockTime, height, primary, up, seen, faults>> /\ mpc = "boot"
      /\ mpc' = "pass" /\ passStart' = now /\ todo' \in OneNode!Orders
      /\ history' = [n \in Monitored |-> OneNode!Ring(OneNode!InitialData(n))]
      /\ node' = [n \in Monitored |-> IF up[n] THEN node[n] ELSE OneNode!SinkOnNode(n, FALSE)]
      /\ OneNode!Unsteady({n \in Monitored : ~up[n]})
  BY DEF OneNode!InitialSetup, OneNode!chainVars
<1>2. OneTypes /\ now \in Nat /\ now <= MonitorTime /\ MonitorTime \in Nat /\ passStart \in Nat
      /\ passStart <= now /\ Len(blockTime) \in Nat /\ Len(blockTime) <= now
      /\ blockTime \in Seq(1..MonitorTime) /\ node \in [Monitored -> Row] /\ request \in IdleRequest
  BY MonitorFacts, MonitorBounds DEF OneInv
<1>3. \A n \in Monitored : height[n] \in 0..Len(blockTime)
  BY <1>2, MonitorFacts
<1>4. ASSUME NEW n \in Monitored PROVE OneNode!InitialData(n) \in OneNode!Data
  <2>1. Period \in Nat \ {0}
    BY MonitorBounds
  <2>2. PICK b \in 0..Len(blockTime) : b = IF height[n] > Period THEN height[n] - Period ELSE 0
    BY <1>2, <1>3, <2>1
  <2>3. b # 0 => blockTime[b] \in 1..MonitorTime
    BY <1>2, <2>2
  <2>4. \/ OneNode!InitialData(n) = [time |-> now, number |-> 0]
        \/ OneNode!InitialData(n) = [time |-> 0, number |-> b] /\ b = 0
        \/ OneNode!InitialData(n) = [time |-> blockTime[b], number |-> b] /\ b # 0
    BY <2>2, Zenon DEF OneNode!InitialData
  <2> QED
    BY <1>2, <2>2, <2>3, <2>4 DEF OneNode!Data
<1>5. history' \in [Monitored -> RingType]
  <2>1. ASSUME NEW n \in Monitored PROVE OneNode!Ring(OneNode!InitialData(n)) \in RingType
    <3>1. PICK data \in OneNode!Data : data = OneNode!InitialData(n)
      BY <1>4
    <3>2. OneNode!Ring(data) \in RingType
      BY MonitorBounds DEF OneNode!Ring, RingType
    <3> QED
      BY <3>1, <3>2, Zenon
  <2> QED
    BY <1>1, <2>1
<1>6. node' \in [Monitored -> Row]
  BY <1>1, <1>2, OneSink
<1>7. request' \in IdleRequest
  BY <1>1, <1>2, StaysIdle
<1>8. todo' \in Seq(Monitored) /\ \A i, j \in 1..Len(todo') : i # j => todo'[i] # todo'[j]
  BY <1>1, OrdersVisitOnce
<1>9. OneTypes'
  <2>1. now' \in now..MonitorTime /\ passStart' \in passStart..now'
    BY <1>1, <1>2
  <2> QED
    BY <1>1, <1>2, <1>3, <1>5, <1>6, <1>7, <1>8, <2>1, TypesGathered, MonitorFacts
<1>10. PassInTime'
  BY <1>1, <1>2, MonitorBounds DEF PassInTime
<1>11. \A n \in Monitored : seen'[n] = OneNode!Unseen
  BY <1>1 DEF OneInv
<1> QED
  BY <1>1, <1>9, <1>10, <1>11, UnseenIsFine DEF OneInv

\* The histories are lost, with what was seen.
LEMMA OneRestart ==
  ASSUME OneInv, OneNode!Restart
  PROVE  OneInv'
<1>1. /\ UNCHANGED <<now, blockTime, height, primary, up, node, history, passStart, request>>
      /\ mpc' = "boot" /\ todo' = <<>> /\ seen' = [n \in Monitored |-> OneNode!Unseen]
      /\ OneNode!Fault(1)
  BY DEF OneNode!Restart, OneNode!chainVars
<1>2. OneTypes /\ now \in Nat /\ now <= MonitorTime /\ MonitorTime \in Nat /\ passStart \in Nat
      /\ passStart <= now /\ faults \in 0..MonitorFaults
  BY MonitorFacts, MonitorBounds DEF OneInv
<1>3. faults' \in 0..MonitorFaults
  BY <1>1, <1>2, MonitorBounds DEF OneNode!Fault
<1>4. OneNode!Unseen \in [answers : Seq(Answer), missed : BOOLEAN]
  BY DEF OneNode!Unseen
<1>5. seen' \in [Monitored -> [answers : Seq(Answer), missed : BOOLEAN]]
  BY <1>1, <1>4
<1>6. todo' \in Seq(Monitored) /\ \A i, j \in 1..Len(todo') : i # j => todo'[i] # todo'[j]
  BY <1>1
<1>7. OneTypes'
  <2>1. now' \in now..MonitorTime /\ passStart' \in passStart..now'
    BY <1>1, <1>2
  <2> QED
    BY <1>1, <1>2, <1>3, <1>5, <1>6, <2>1, TypesGathered, MonitorFacts DEF OneTypes
<1>8. PassInTime'
  BY <1>1, <1>2 DEF PassInTime
<1>9. \A n \in Monitored : seen'[n] = OneNode!Unseen
  BY <1>1
<1> QED
  BY <1>7, <1>8, <1>9, UnseenIsFine DEF OneInv

\* What is left of a pass.
LEMMA RestOfPass ==
  ASSUME OneTypes, todo # <<>>, todo' \in {<<>>, Tail(todo)}
  PROVE  /\ Head(todo) \in Monitored /\ Left(Head(todo)) /\ todo' \in Seq(Monitored)
         /\ \A i, j \in 1..Len(todo') : i # j => todo'[i] # todo'[j]
         /\ \A m : Left(m)' => Left(m) /\ m # Head(todo)
<1>1. /\ todo \in Seq(Monitored) /\ \A i, j \in 1..Len(todo) : i # j => todo[i] # todo[j]
  BY MonitorFacts DEF OneTypes
<1>2. /\ Len(todo) \in Nat \ {0} /\ Head(todo) = todo[1] /\ 1 \in 1..Len(todo)
      /\ Head(todo) \in Monitored
  BY <1>1
<1>3. Left(Head(todo))
  BY <1>2 DEF Left
<1>4. CASE todo' = <<>>
  <2>1. /\ todo' \in Seq(Monitored) /\ Len(todo') = 0
    BY <1>4
  <2> QED
    BY <1>2, <1>3, <2>1 DEF Left
<1>5. CASE todo' = Tail(todo)
  <2>1. /\ todo' \in Seq(Monitored) /\ Len(todo') = Len(todo) - 1
        /\ \A i \in 1..Len(todo') : todo'[i] = todo[i + 1]
    BY <1>1, <1>2, <1>5
  <2>2. \A i \in 1..Len(todo') : i + 1 \in 1..Len(todo) /\ i + 1 # 1
    BY <1>2, <2>1
  <2>3. ASSUME NEW i \in 1..Len(todo'), NEW j \in 1..Len(todo'), i # j
        PROVE  todo'[i] # todo'[j]
    BY <1>1, <2>1, <2>2, <2>3
  <2>4. ASSUME NEW m, NEW i \in 1..Len(todo'), todo'[i] = m
        PROVE  Left(m) /\ m # todo[1]
    BY <1>1, <1>2, <2>1, <2>2, <2>4 DEF Left
  <2> QED
    BY <1>2, <1>3, <2>1, <2>3, <2>4 DEF Left
<1> QED
  BY <1>4, <1>5

\* The verdict is stored with what was seen, or the database fails and it is forgotten.
LEMMA OneStore ==
  ASSUME OneInv, mpc = "pass", todo # <<>>, NEW n \in Monitored, n = Head(todo), NEW c \in BOOLEAN,
         NEW w \in [answers : Seq(Answer), missed : BOOLEAN],
         OneNode!Store(n, c, w),
         UNCHANGED <<now, blockTime, height, primary, up, mpc, passStart>>,
         history' \in [Monitored -> RingType],
         \A m \in Monitored : m # n => history'[m] = history[m],
         Remembers(history'[n], w.answers), Ordered(w.answers),
         \A i \in 1..Len(w.answers) : w.answers[i].time <= now,
         OneNode!Stuck(w.answers) \/ w.missed => ~c,
         OneNode!Steady(w.answers) /\ ~w.missed => c
  PROVE  OneInv'
<1>1. OneTypes /\ now \in Nat /\ now <= MonitorTime /\ MonitorTime \in Nat /\ passStart \in Nat
      /\ passStart <= now /\ faults \in 0..MonitorFaults /\ node \in [Monitored -> Row]
      /\ request \in IdleRequest /\ seen \in [Monitored -> [answers : Seq(Answer), missed : BOOLEAN]]
  BY MonitorFacts, MonitorBounds DEF OneInv
<1>2. todo' \in {<<>>, Tail(todo)}
  BY DEF OneNode!Store
<1>3. /\ n \in Monitored /\ Left(n) /\ todo' \in Seq(Monitored)
      /\ \A i, j \in 1..Len(todo') : i # j => todo'[i] # todo'[j]
      /\ \A m : Left(m)' => Left(m) /\ m # n
  BY <1>1, <1>2, RestOfPass
<1>4. OneNode!Unseen \in [answers : Seq(Answer), missed : BOOLEAN]
  BY DEF OneNode!Unseen
<1>5. /\ node' \in [Monitored -> Row] /\ request' \in IdleRequest /\ faults' \in 0..MonitorFaults
      /\ seen' \in [Monitored -> [answers : Seq(Answer), missed : BOOLEAN]]
      /\ \A m \in Monitored : m # n => node'[m] = node[m] /\ seen'[m] = seen[m]
      /\ seen'[n] = OneNode!Unseen \/ (seen'[n] = w /\ node'[n].synced = c)
  <2>1. CASE /\ node' = [node EXCEPT ![n] = OneNode!SinkOnNode(n, c)]
             /\ IF c THEN UNCHANGED request ELSE OneNode!Unsteady({n})
             /\ seen' = [seen EXCEPT ![n] = w] /\ UNCHANGED faults
    <3>1. request' \in IdleRequest
      BY <1>1, <2>1, StaysIdle
    <3>2. OneNode!SinkOnNode(n, c) \in Row /\ OneNode!SinkOnNode(n, c).synced = c
      BY <1>1, <1>3, OneSink
    <3>3. node' \in [Monitored -> Row] /\ node'[n] = OneNode!SinkOnNode(n, c)
      BY <1>1, <1>3, <2>1, <3>2
    <3>4. seen' \in [Monitored -> [answers : Seq(Answer), missed : BOOLEAN]] /\ seen'[n] = w
      BY <1>1, <1>3, <2>1
    <3>5. \A m \in Monitored : m # n => node'[m] = node[m] /\ seen'[m] = seen[m]
      BY <1>1, <1>3, <2>1
    <3> QED
      BY <1>1, <2>1, <3>1, <3>2, <3>3, <3>4, <3>5
  <2>2. CASE /\ OneNode!Fault(1) /\ seen' = [seen EXCEPT ![n] = OneNode!Unseen]
             /\ UNCHANGED <<node, request>>
    <3>1. faults' \in 0..MonitorFaults
      BY <1>1, <2>2, MonitorBounds DEF OneNode!Fault
    <3>2. /\ seen' \in [Monitored -> [answers : Seq(Answer), missed : BOOLEAN]]
          /\ seen'[n] = OneNode!Unseen /\ \A m \in Monitored : m # n => seen'[m] = seen[m]
      BY <1>1, <1>3, <1>4, <2>2
    <3> QED
      BY <1>1, <2>2, <3>1, <3>2
  <2> QED
    BY <2>1, <2>2 DEF OneNode!Store
<1>6. OneTypes'
  <2>1. now' \in now..MonitorTime /\ passStart' \in passStart..now'
    BY <1>1
  <2> QED
    BY <1>1, <1>3, <1>5, <2>1, TypesGathered, MonitorFacts
<1>7. PassInTime'
  BY DEF OneInv, PassInTime
<1>8. ASSUME NEW m \in Monitored, m # n
      PROVE  /\ Remembers(history[m], seen[m].answers)' /\ Ordered(seen[m].answers)'
             /\ AnswersInTime(m)' /\ Judged(m)'
  <2>1. node'[m] = node[m] /\ seen'[m] = seen[m] /\ history'[m] = history[m] /\ (Left(m)' => Left(m))
    BY <1>3, <1>5, <1>8
  <2>2. /\ Remembers(history[m], seen[m].answers) /\ Ordered(seen[m].answers)
        /\ AnswersInTime(m) /\ Judged(m)
    BY DEF OneInv
  <2>3. Remembers(history[m], seen[m].answers)' /\ Ordered(seen[m].answers)' /\ Judged(m)'
    BY <2>1, <2>2 DEF Remembers, Ordered, Judged
  <2>4. AnswersInTime(m)'
    BY <2>1, <2>2 DEF AnswersInTime
  <2> QED
    BY <2>3, <2>4
<1>9. /\ Remembers(history[n], seen[n].answers)' /\ Ordered(seen[n].answers)'
      /\ AnswersInTime(n)' /\ Judged(n)'
  <2>1. CASE seen'[n] = OneNode!Unseen
    BY <1>3, <2>1, UnseenIsFine
  <2>2. CASE seen'[n] = w /\ node'[n].synced = c
    <3>1. Remembers(history'[n], seen'[n].answers) /\ Ordered(seen'[n].answers)
      BY <2>2
    <3>2. AnswersInTime(n)'
      BY <1>3, <2>2 DEF AnswersInTime
    <3>3. Judged(n)'
      BY <2>2 DEF Judged
    <3> QED
      BY <3>1, <3>2, <3>3 DEF Remembers, Ordered
  <2> QED
    BY <1>5, <2>1, <2>2
<1> QED
  BY <1>6, <1>7, <1>8, <1>9 DEF OneInv

\* __process judges by the oldest answer of the ring.
LEMMA OneCheckNode ==
  ASSUME OneInv, OneNode!CheckNode, BlocksPerSec > 0, Speed > 0
  PROVE  OneInv'
<1>1. OneTypes /\ mpc = "pass" /\ todo # <<>>
  BY DEF OneInv, OneNode!CheckNode
<1>2. PICK n \in Monitored : n = Head(todo)
  BY <1>1, MonitorFacts
<1> DEFINE s == seen[n].answers
           ring == history[n]
           data == [time |-> now, number |-> height[n]]
           behind == Len(blockTime) - height[n]
           answer == [time |-> now, number |-> height[n], behind |-> behind]
           new == Append(OneNode!Recent(s), answer)
           w == [answers |-> new, missed |-> FALSE]
           P(syncing) == /\ ~(syncing /\ behind > RemainingThreshold)
                         /\ ~OneNode!Slow(OneNode!PeekOldest(ring), data)
<1>3. /\ history' = [history EXCEPT ![n] = OneNode!AppendData(ring, data)]
      /\ \E syncing \in BOOLEAN : OneNode!Store(n, P(syncing), w)
      /\ UNCHANGED <<now, blockTime, height, primary, up, mpc, passStart>>
  BY <1>2, Zenon DEF OneNode!CheckNode, OneNode!chainVars
<1>4. PICK syncing \in BOOLEAN : OneNode!Store(n, P(syncing), w)
  BY <1>3, Zenon
<1>5. PICK c \in BOOLEAN : c = P(syncing)
  OBVIOUS
<1>6. OneNode!Store(n, c, w)
  BY <1>4, <1>5, Zenon
<1>7. /\ now \in Nat /\ now <= MonitorTime /\ MonitorTime \in Nat /\ passStart <= now
      /\ passStart \in Nat /\ RemainingThreshold \in Nat
      /\ Len(blockTime) \in Nat /\ Len(blockTime) <= now
      /\ height[n] \in 0..Len(blockTime) /\ history \in [Monitored -> RingType]
      /\ seen \in [Monitored -> [answers : Seq(Answer), missed : BOOLEAN]]
  BY <1>1, MonitorFacts, MonitorBounds
<1>8. ring \in RingType /\ s \in Seq(Answer)
  BY <1>7
<1>9. data \in OneNode!Data /\ answer \in Answer /\ Matches(data, answer)
  BY <1>7 DEF OneNode!Data, Answer, Matches
<1>10. Remembers(ring, s) /\ Ordered(s) /\ AnswersInTime(n)
  BY DEF OneInv
<1>11. answer.time = now /\ answer.behind = behind
  OBVIOUS
<1> HIDE DEF P, data, answer
<1>12. ASSUME NEW i \in 1..Len(s) PROVE s[i].time < answer.time
  <2>1. Left(n)
    <3>1. todo \in Seq(Monitored)
      BY <1>1, MonitorFacts
    <3>2. 1 \in 1..Len(todo) /\ todo[1] = n
      BY <1>1, <1>2, <3>1
    <3> QED
      BY <3>2 DEF Left
  <2>2. s[i].time < passStart
    BY <1>1, <1>10, <2>1 DEF AnswersInTime
  <2>3. s[i].time \in Nat
    <3>1. s[i] \in Answer
      BY <1>8
    <3> QED
      BY <3>1 DEF Answer
  <2> QED
    BY <1>7, <1>11, <2>2, <2>3
<1> HIDE DEF s, ring
<1>13. /\ new \in Seq(Answer) /\ Ordered(new)
       /\ Remembers(OneNode!AppendData(ring, data), new)
       /\ \A i \in 1..Len(new) : new[i].time <= answer.time
       /\ OneNode!Full(new) => /\ Matches(OneNode!PeekOldest(ring), new[1])
                               /\ new[Period + 1] = answer
  BY <1>8, <1>9, <1>10, <1>12, AnswerKept
<1>14. OneNode!AppendData(ring, data) \in RingType
  BY <1>8, <1>9, RingAppends
<1> HIDE DEF new
<1>15. w \in [answers : Seq(Answer), missed : BOOLEAN] /\ w.answers = new /\ w.missed = FALSE
  BY <1>13
<1>16. ASSUME OneNode!Full(new)
       PROVE  /\ OneNode!Stuck(new) => OneNode!Slow(OneNode!PeekOldest(ring), data)
              /\ OneNode!Steady(new) => ~OneNode!Slow(OneNode!PeekOldest(ring), data)
  <2>1. Matches(OneNode!PeekOldest(ring), new[1]) /\ Matches(data, new[Period + 1])
    BY <1>9, <1>13, <1>16, Zenon
  <2> QED
    BY <1>13, <1>16, <2>1, ComparesRight
<1>17. OneNode!Stuck(new) => ~c
  BY <1>5, <1>16, Zenon DEF P, OneNode!Stuck
<1>18. OneNode!Steady(new) => c
  <2> SUFFICES ASSUME OneNode!Steady(new) PROVE c
    OBVIOUS
  <2>1. OneNode!Full(new) /\ new[Period + 1].behind <= RemainingThreshold
    BY DEF OneNode!Steady
  <2>2. behind <= RemainingThreshold /\ behind \in Int
    BY <1>7, <1>11, <1>13, <2>1
  <2>3. ~(behind > RemainingThreshold)
    BY <1>7, <2>2
  <2> HIDE DEF behind
  <2> QED
    BY <1>5, <1>16, <2>1, <2>3, Zenon DEF P
<1>19. /\ history' \in [Monitored -> RingType] /\ history'[n] = OneNode!AppendData(ring, data)
       /\ \A m \in Monitored : m # n => history'[m] = history[m]
  BY <1>3, <1>7, <1>14
<1>20. /\ Remembers(history'[n], w.answers) /\ Ordered(w.answers)
       /\ \A i \in 1..Len(w.answers) : w.answers[i].time <= now
       /\ OneNode!Stuck(w.answers) \/ w.missed => ~c
       /\ OneNode!Steady(w.answers) /\ ~w.missed => c
  BY <1>11, <1>13, <1>15, <1>17, <1>18, <1>19, Zenon
<1> HIDE DEF w
<1> QED
  BY <1>1, <1>2, <1>3, <1>6, <1>15, <1>19, <1>20, OneStore

\* __web3_errors marks the node, whatever it answered before.
LEMMA OneCheckFails ==
  ASSUME OneInv, OneNode!CheckFails
  PROVE  OneInv'
<1>1. OneTypes /\ mpc = "pass" /\ todo # <<>>
  BY DEF OneInv, OneNode!CheckFails
<1>2. PICK n \in Monitored : n = Head(todo)
  BY <1>1, MonitorFacts
<1> DEFINE w == [seen[n] EXCEPT !.missed = TRUE]
<1>3. /\ OneNode!Store(n, FALSE, w)
      /\ UNCHANGED <<now, blockTime, height, primary, up, history, mpc, passStart>>
  BY <1>2, Zenon DEF OneNode!CheckFails, OneNode!chainVars
<1>4. /\ history \in [Monitored -> RingType]
      /\ seen \in [Monitored -> [answers : Seq(Answer), missed : BOOLEAN]]
  BY <1>1, MonitorFacts
<1>5. /\ w \in [answers : Seq(Answer), missed : BOOLEAN]
      /\ w.answers = seen[n].answers /\ w.missed = TRUE
  BY <1>4
<1>6. /\ Remembers(history[n], seen[n].answers) /\ Ordered(seen[n].answers)
      /\ \A i \in 1..Len(seen[n].answers) : seen[n].answers[i].time <= now
  BY DEF OneInv, AnswersInTime
<1> HIDE DEF w
<1>7. /\ Remembers(history'[n], w.answers) /\ Ordered(w.answers)
      /\ \A i \in 1..Len(w.answers) : w.answers[i].time <= now
  BY <1>3, <1>5, <1>6, Zenon
<1> QED
  BY <1>1, <1>2, <1>3, <1>4, <1>5, <1>7, OneStore

\* The monitor starts without any answer.
LEMMA OneInitially ==
  ASSUME OneNode!Init
  PROVE  OneInv
<1>1. /\ now = StartTime /\ passStart = now /\ faults = 0 /\ mpc = "boot" /\ todo = <<>>
      /\ blockTime = [b \in 1..StartTime |-> b] /\ height = [n \in Monitored |-> StartTime]
      /\ up = [n \in Monitored |-> TRUE] /\ primary \in Monitored
      /\ node = [n \in Monitored |-> [present |-> FALSE, priority |-> 0, synced |-> FALSE]]
      /\ history = [n \in Monitored |-> OneNode!Ring([time |-> now, number |-> 0])]
      /\ seen = [n \in Monitored |-> OneNode!Unseen]
      /\ request = [pc |-> "idle", counter |-> 0, endpoint |-> primary, retryAt |-> 0, steady |-> {}]
  BY DEF OneNode!Init
<1>2. /\ StartTime \in Nat /\ StartTime <= MonitorTime /\ MonitorTime \in Nat
      /\ MonitorFaults \in Nat /\ Period \in Nat \ {0} /\ RetryCount \in Nat
  BY MonitorBounds
<1>3. blockTime \in Seq(1..MonitorTime) /\ Len(blockTime) = StartTime
  BY <1>1, <1>2
<1>4. [time |-> now, number |-> 0] \in OneNode!Data
  BY <1>1, <1>2 DEF OneNode!Data
<1>5. OneNode!Ring([time |-> now, number |-> 0])
          \in [slot : [0..Period - 1 -> OneNode!Data], next : 0..Period - 1]
  BY <1>2, <1>4 DEF OneNode!Ring
<1>6. history \in [Monitored -> [slot : [0..Period - 1 -> OneNode!Data], next : 0..Period - 1]]
  BY <1>1, <1>5
<1>7. /\ node \in [Monitored -> [present : BOOLEAN, priority : {0, 1}, synced : BOOLEAN]]
      /\ up \in [Monitored -> BOOLEAN] /\ request \in IdleRequest
      /\ \A n \in Monitored : height[n] \in 0..Len(blockTime)
  BY <1>1, <1>2, <1>3 DEF IdleRequest
<1>8. OneNode!Unseen \in [answers : Seq(Answer), missed : BOOLEAN]
  BY DEF OneNode!Unseen
<1>9. seen \in [Monitored -> [answers : Seq(Answer), missed : BOOLEAN]]
  BY <1>1, <1>8
<1>10. todo \in Seq(Monitored) /\ Len(todo) = 0
  BY <1>1
<1>11. now \in StartTime..MonitorTime /\ passStart \in StartTime..now
       /\ faults \in 0..MonitorFaults /\ request.counter \in 0..RetryCount + 1 /\ request.pc = "idle"
  BY <1>1, <1>2
<1>12. OneNode!TypeOK
  BY <1>1, <1>3, <1>6, <1>7, <1>10, <1>11 DEF OneNode!TypeOK
<1>13. OneTypes
  BY <1>1, <1>2, <1>3, <1>7, <1>9, <1>10, <1>12 DEF OneTypes
<1>14. PassInTime
  BY <1>1, <1>2 DEF PassInTime
<1>15. ASSUME NEW n \in Monitored
       PROVE  /\ Remembers(history[n], seen[n].answers) /\ Ordered(seen[n].answers)
              /\ AnswersInTime(n) /\ Judged(n) /\ seen[n] = OneNode!Unseen
  <2>1. seen[n] = OneNode!Unseen
    BY <1>1
  <2>2. seen[n].answers = <<>> /\ seen[n].missed = FALSE
    BY <2>1 DEF OneNode!Unseen
  <2>3. Len(seen[n].answers) = 0
    BY <2>2
  <2>4. Remembers(history[n], seen[n].answers) /\ Ordered(seen[n].answers) /\ AnswersInTime(n)
    BY <1>2, <2>3 DEF Remembers, Ordered, AnswersInTime
  <2>5. ~OneNode!Full(seen[n].answers)
    BY <1>2, <2>3 DEF OneNode!Full
  <2>6. Judged(n)
    BY <2>2, <2>5 DEF Judged, OneNode!Stuck, OneNode!Steady
  <2> QED
    BY <2>1, <2>4, <2>6
<1> QED
  BY <1>13, <1>14, <1>15 DEF OneInv

\* For any number of nodes, any length of the history and any speed: a node that answers with
\* one block number again and again, or not at all, is marked, and one that grows fast enough
\* is not.  A speed of zero would make every node fast enough.
THEOREM NodeStatusAlwaysRight ==
  ASSUME BlocksPerSec > 0, Speed > 0
  PROVE  ServicesSpec => []NodeStatusRight
<1> DEFINE Inv == which = "one" => OneInv
<1>1. ServicesInit => Inv
  BY OneInitially DEF ServicesInit, MonitorInit, CacheInit, ListsInit, MailInit, EthInit
<1>2. Inv /\ [ServicesNext]_serviceVars => Inv'
  <2> SUFFICES ASSUME Inv, [ServicesNext]_serviceVars, which' = "one" PROVE OneInv'
    OBVIOUS
  <2>1. CASE ServicesNext
    <3>1. which = "one" /\ OneNode!MonitorNext
      BY <2>1 DEF ServicesNext, MonitorStep, CacheStep, ListsStep, MailStep, EthStep
    <3>2. OneInv
      BY <3>1
    <3> QED
      BY <3>1, <3>2, OneTick, OneFault, OneInitialSetup, OneCheckNode, OneCheckFails, OnePasses,
         OneRestart DEF OneNode!MonitorNext
  <2>2. CASE UNCHANGED serviceVars
    <3>1. /\ UNCHANGED <<now, blockTime, height, up, primary, node, history, mpc, todo,
                         passStart, seen, request, faults>>
          /\ which' = which
      BY <2>2 DEF serviceVars, vars, chainVars, monitorVars
    <3>2. OneInv
      BY <3>1
    <3>3. OneTypes' /\ PassInTime'
      BY <3>1, <3>2 DEF OneInv, OneTypes, OneNode!TypeOK, PassInTime
    <3>4. \A n \in Monitored : AnswersInTime(n)'
      BY <3>1, <3>2 DEF OneInv, AnswersInTime, Left
    <3> QED
      BY <3>1, <3>2, <3>3, <3>4, QuietSteps
  <2> QED
    BY <2>1, <2>2
<1>3. Inv => NodeStatusRight
  <2> SUFFICES ASSUME OneInv PROVE OneNode!TypeOK /\ OneNode!StallDetected /\ OneNode!SteadyNodeServed
    BY DEF NodeStatusRight
  <2> QED
    BY DEF OneInv, OneTypes, Judged, OneNode!StallDetected, OneNode!SteadyNodeServed
<1> QED
  BY <1>1, <1>2, <1>3, PTL DEF ServicesSpec
=============================================================================
