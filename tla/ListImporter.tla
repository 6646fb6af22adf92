----------------------------- MODULE ListImporter -----------------------------
(***************************************************************************)
(* The three processes that replace a table by a published list:           *)
(* batch/indexer_Company_List.py, indexer_PublicInfo_TokenList.py and      *)
(* indexer_PublicInfo_PublicAccountList.py.  A process remembers the       *)
(* digest of the last list it got, and skips a list it knows.              *)
(*                                                                         *)
(* A list is a sequence of items; an item has a key (the primary key of    *)
(* the table), a content, and a form: "ok", "invalid" (the schema rejects  *)
(* it), "partial" (a required field is empty) or "alien" (not even an      *)
(* object).                                                                *)
(***************************************************************************)
EXTENDS Integers, Sequences, SequencesExt

CONSTANTS Document,     \* lists that may be published
          MaxPublished, \* bound on publications
          MaxFailures   \* bound on failures

Assumption ==
    /\ \A d \in Document : d \in Seq(ToSet(d))
    /\ {MaxPublished, MaxFailures} \subseteq Nat

VARIABLES
    kind,       \* "company", "token" or "account"
    published,  \* the list behind the URL
    digest,     \* digest the process remembers, a list stands for its digest
    session,    \* the table as the open session sees it, with the items left
    table,      \* the committed table: content of each key
    publications, failures,
    spoiled     \* history: the update for the remembered digest failed

vars == <<kind, published, digest, session, table, publications, failures, spoiled>>

NoList == <<[key |-> "none", content |-> 0, form |-> "none"]>>
Closed == [open |-> FALSE]
Key == {i.key : i \in UNION {ToSet(d) : d \in Document}}
Empty == [k \in Key |-> 0]

\* What becomes of an item: "sink", "skip" or "raise".
CompanyItem(i) == IF i.form = "ok" THEN "sink" ELSE "skip"
TokenItem(i) == IF i.form \in {"ok", "partial"} THEN "sink" ELSE "skip"
AccountItem(i) ==
    IF i.form = "alien" THEN "raise" ELSE IF i.form = "ok" THEN "sink" ELSE "skip"

Treatment(i) ==
    CASE kind = "company" -> CompanyItem(i)
      [] kind = "token" -> TokenItem(i)
      [] kind = "account" -> AccountItem(i)

\* __sink_on_...: merge, a later item of the same key replaces an earlier one.
Sink(rows, i) == [rows EXCEPT ![i.key] = i.content]

Init ==
    /\ kind \in {"company", "token", "account"}
    /\ published \in Document
    /\ digest = NoList /\ session = Closed /\ table = Empty
    /\ publications = 0 /\ failures = 0 /\ spoiled = FALSE

Publish ==
    /\ publications < MaxPublished
    /\ published' \in Document /\ published' # published
    /\ publications' = publications + 1
    /\ UNCHANGED <<kind, digest, session, table, failures, spoiled>>

\* The list is got; one that is not known is remembered and all rows are deleted.
Get ==
    /\ session = Closed /\ published # digest
    /\ digest' = published
    /\ session' = [open |-> TRUE, rows |-> Empty, left |-> published]
    /\ spoiled' = FALSE
    /\ UNCHANGED <<kind, published, table, publications, failures>>

\* One item of the list.
InsertItem ==
    /\ session.open /\ session.left # <<>>
    /\ Treatment(Head(session.left)) # "raise"
    /\ LET i == Head(session.left) IN
       session' = [open |-> TRUE,
                   rows |-> IF Treatment(i) = "sink" THEN Sink(session.rows, i)
                                                     ELSE session.rows,
                   left |-> Tail(session.left)]
    /\ UNCHANGED <<kind, published, digest, table, publications, failures, spoiled>>

Commit ==
    /\ session.open /\ session.left = <<>>
    /\ table' = session.rows
    /\ session' = Closed
    /\ UNCHANGED <<kind, published, digest, publications, failures, spoiled>>

\* Mutant: the session is not rolled back but committed as it is.
CommitAnyway ==
    /\ session' = Closed
    /\ table' = session.rows
    /\ spoiled' = TRUE
    /\ UNCHANGED <<kind, published, digest, publications>>

RollBack ==
    /\ session' = Closed
    /\ spoiled' = TRUE
    /\ UNCHANGED <<kind, published, digest, table, publications>>

\* An item that is not an object raises; the database may fail at any time.
UpdateFails ==
    /\ session.open
    /\ \/ /\ session.left # <<>> /\ Treatment(Head(session.left)) = "raise"
          /\ UNCHANGED failures
       \/ failures < MaxFailures /\ failures' = failures + 1
    /\ RollBack

\* Mutant: the digest outlives the process.
RestartKeeping ==
    /\ failures < MaxFailures /\ failures' = failures + 1
    /\ session' = Closed /\ spoiled' = FALSE
    /\ UNCHANGED <<kind, published, digest, table, publications>>

\* The process is started again and knows no digest.
Restart ==
    /\ failures < MaxFailures /\ failures' = failures + 1
    /\ digest' = NoList
    /\ session' = Closed /\ spoiled' = FALSE
    /\ UNCHANGED <<kind, published, table, publications>>

Import == Get \/ InsertItem \/ Commit \/ UpdateFails

Next == Publish \/ Import \/ Restart

Spec == Init /\ [][Next]_vars

\* The process runs on.
FairSpec == Spec /\ WF_vars(Import)

------------------------------------------------------------------------------
(* Properties. *)

TypeOK ==
    /\ kind \in {"company", "token", "account"}
    /\ published \in Document /\ digest \in Document \union {NoList}
    /\ table \in [Key -> {0} \union {i.content : i \in UNION {ToSet(d) : d \in Document}}]
    /\ publications \in 0..MaxPublished /\ failures \in 0..MaxFailures
    /\ spoiled \in BOOLEAN

\* The last usable item of each key in a list.
Image(d) ==
    [k \in Key |->
        LET S == {n \in DOMAIN d : d[n].key = k /\ Treatment(d[n]) = "sink"}
        IN IF S = {} THEN 0 ELSE d[CHOOSE n \in S : \A m \in S : m <= n].content]

\* Whoever reads the table sees one whole list, never a mixture or a part of one,
\* although an update deletes all rows first and may fail at any item.
TableIsOneList == table = Empty \/ \E d \in Document : table = Image(d)

\* The table is behind the remembered digest only after a failed update, or while an
\* update is going on.
BehindOnlyIfSpoiled ==
    (digest # NoList /\ ~session.open /\ ~spoiled) => table = Image(digest)

\* A list that can be read and stays is in the table in the end, unless its update
\* failed: then it has to be published anew or the process restarted.
ListImported ==
    \A d \in Document :
        (published = d) ~> (published # d \/ table = Image(d) \/ spoiled)
==============================================================================
