---------------------------- MODULE Notifications ----------------------------
(***************************************************************************)
(* What the three notification processes batch/processor_Notifications_*.py *)
(* have in common with the notification API: watchers turn events of       *)
(* contracts into rows of the table of notifications, and the users read,  *)
(* flag and delete these rows at any time.                                 *)
(*                                                                         *)
(* A watcher keeps, for each contract, the number of the last block read.  *)
(* Rows and number are committed together, contract by contract.           *)
(***************************************************************************)
EXTENDS Chain, SequencesExt

CONSTANTS Address,      \* addresses of users
          Contract,     \* addresses that hold code, beside the tokens
          TemplateOf,   \* template of each token contract
          Groups,       \* the sets of types of watchers looked at together
          ChunkSize,    \* blocks per call of get_logs, 1,000,000 in the code
          MaxFailures   \* bound on exceptions

\* What is assumed of them and of the watchers of a process.
NotificationsAssumption(watchers) ==
    /\ ChunkSize \in Nat \ {0} /\ MaxFailures \in Nat
    /\ \A e \in Event : {e.from, e.to, e.account, e.buy, e.sell}
                         \subseteq Address \union Token \union Contract
    /\ \A types \in Groups : types \subseteq {w.type : w \in watchers}

VARIABLES
    notes,     \* table Notification, committed
    number,    \* NotificationBlockNumber of each watcher and contract, -1: no row
    running,   \* the watchers looked at
    todo,      \* contracts each watcher has left in its pass
    latest,    \* latest_block_number of its pass
    failures,
    first,     \* history: the first block a watcher is to report of a contract
    gone       \* history: ids of the notifications users deleted

noteVars == <<chainVars, notes, number, running, todo, latest, failures, first, gone>>

WatcherType == {w.type : w \in running}
Source == Token \union Contract

\* Mutant: both sides of an agreement have one id.
NotificationIdOfEvent(r, w) == <<r, 0>>

\* _gen_notification_id: block, transaction and log index identify the event.
NotificationId(r, w) == <<r, w.option>>

\* The events of w at contract c in the blocks from..to, answered by a node with h blocks.
Entries(w, c, from, to, h) ==
    {r \in Block \X Event :
        /\ r[1] \in from..to
        /\ r[1] <= h
        /\ r[1] <= Len(chain)
        /\ r[2] \in chain[r[1]]
        /\ r[2].at = c
        /\ r[2].kind = w.event}

\* Whether the watcher makes a notification of an event: events of contracts sending
\* tokens are skipped, and events of tokens a node with h blocks does not know.
Reported(w, e, h) ==
    /\ w.fromPeople => e.from \notin Source
    /\ w.registeredOnly => RegisteredAt(e.token, h) /\ TemplateOf[e.token] \in w.templates

\* The user a notification is for; "nobody" stands for an address of None.
Whom(e, w) == IF w.whom = "nobody" THEN "nobody" ELSE e[w.whom]

Note(w, r) == [id |-> NotificationId(r, w), type |-> w.type, address |-> Whom(r[2], w),
               read |-> FALSE, deleted |-> FALSE]

\* db_session.merge: a row of this id keeps what the users set.
Merge(table, new) ==
    {n \in table : \A m \in new : m.id # n.id}
      \union {m \in new : \A n \in table : m.id # n.id}
      \union {[p[1] EXCEPT !.type = p[2].type, !.address = p[2].address] :
                 p \in {q \in table \X new : q[1].id = q[2].id}}

\* __get_synchronized_block_number.
SynchronizedNumber(w, c, upto) ==
    IF number[<<w.type, c>>] # -1 THEN number[<<w.type, c>>]
    ELSE IF w.skipPast THEN upto - 1 ELSE -1

\* Mutant: the number of the block before is stored.
SetSynchronizedNumberBefore(w, c, b) == [number EXCEPT ![<<w.type, c>>] = b - 1]

\* __set_synchronized_block_number.
SetSynchronizedNumber(w, c, b) == [number EXCEPT ![<<w.type, c>>] = b]

LastOfRange(from, upto) == IF upto - from >= ChunkSize THEN from + ChunkSize - 1 ELSE upto

------------------------------------------------------------------------------
(* The loop of a watcher. *)

\* Some of the watchers of the process: they share nothing but the table.
NotificationsInit(watchers) ==
    /\ ChainInit
    /\ notes = {} /\ gone = {}
    /\ \E types \in Groups : running = {w \in watchers : w.type \in types}
    /\ number = [wc \in WatcherType \X Source |-> -1]
    /\ first = [wc \in WatcherType \X Source |-> 0]
    /\ todo = [w \in WatcherType |-> <<>>]
    /\ latest = [w \in WatcherType |-> 0]
    /\ failures = 0

\* The contracts of the pass and the newest block are read.
Begin(w, contracts) ==
    /\ w \in running /\ todo[w.type] = <<>> /\ contracts # <<>>
    /\ \E h \in {head[n] : n \in Node} : latest' = [latest EXCEPT ![w.type] = h]
    /\ todo' = [todo EXCEPT ![w.type] = contracts]
    /\ UNCHANGED <<chainVars, notes, number, running, failures, first, gone>>

\* The first contract that has no new block ends the pass.
UpToDate(w) ==
    /\ todo[w.type] # <<>>
    /\ SynchronizedNumber(w, Head(todo[w.type]), latest[w.type]) + 1 > latest[w.type]
    /\ todo' = [todo EXCEPT ![w.type] = <<>>]
    /\ UNCHANGED <<chainVars, notes, number, running, latest, failures, first, gone>>

\* Notifications of the next range of the first contract, and the number with them.
\* One node answers get_logs, another one may answer the questions about the events.
WatchContract(w) ==
    /\ todo[w.type] # <<>>
    /\ LET c == Head(todo[w.type])
           from == SynchronizedNumber(w, c, latest[w.type]) + 1
           to == LastOfRange(from, latest[w.type])
       IN /\ from <= latest[w.type]
          /\ \E h, g \in {head[n] : n \in Node} :
                notes' = Merge(notes, {Note(w, r) :
                             r \in {x \in Entries(w, c, from, to, h) : Reported(w, x[2], g)}})
          /\ number' = SetSynchronizedNumber(w, c, to)
          /\ first' = [first EXCEPT ![<<w.type, c>>] =
                          IF w.skipPast /\ number[<<w.type, c>>] = -1 THEN latest[w.type] ELSE @]
    /\ todo' = [todo EXCEPT ![w.type] = Tail(@)]
    /\ UNCHANGED <<chainVars, running, latest, failures, gone>>

\* get_logs raises: the contract is left for the next pass.
LogsFail(w) ==
    /\ todo[w.type] # <<>> /\ failures < MaxFailures
    /\ SynchronizedNumber(w, Head(todo[w.type]), latest[w.type]) + 1 <= latest[w.type]
    /\ todo' = [todo EXCEPT ![w.type] = Tail(@)]
    /\ failures' = failures + 1
    /\ UNCHANGED <<chainVars, notes, number, running, latest, first, gone>>

\* Any other exception, or the end of the process: what is not committed is lost.
EndPass(w) ==
    /\ todo[w.type] # <<>> /\ failures < MaxFailures
    /\ todo' = [todo EXCEPT ![w.type] = <<>>]
    /\ failures' = failures + 1
    /\ UNCHANGED <<chainVars, notes, number, running, latest, first, gone>>

------------------------------------------------------------------------------
(* The notification API. *)

apiVars == <<chainVars, number, running, todo, latest, failures, first>>

ReadAll ==
    /\ \E a \in Address, flag \in BOOLEAN :
          notes' = {IF n.address = a THEN [n EXCEPT !.read = flag] ELSE n : n \in notes}
    /\ UNCHANGED <<apiVars, gone>>

Update ==
    /\ \E n \in notes, r, d \in BOOLEAN :
          notes' = (notes \ {n}) \union {[n EXCEPT !.read = r, !.deleted = d]}
    /\ UNCHANGED <<apiVars, gone>>

Delete ==
    /\ \E n \in notes : notes' = notes \ {n} /\ gone' = gone \union {n.id}
    /\ UNCHANGED apiVars

\* The notifications of a user of one type, deleted ones included.
ListAllNotifications(a, type) == {n \in notes : n.address = a /\ n.type = type}

Api == ReadAll \/ Update \/ Delete

NotificationsFrame == UNCHANGED <<notes, number, running, todo, latest, failures, first, gone>>

------------------------------------------------------------------------------
(* Properties. *)

NotificationsTypeOK ==
    /\ ChainTypeOK
    /\ \A n \in notes : /\ n.id \in (Block \X Event) \X (0..2)
                        /\ n.address \in Address \union Source \union {"nobody"}
                        /\ {n.read, n.deleted} \subseteq BOOLEAN
    /\ \A x, y \in notes : x.id = y.id => x = y
    /\ number \in [WatcherType \X Source -> -1..MaxBlock]
    /\ WatcherType \in Groups
    /\ \A w \in running : latest[w.type] \in BlockNumber /\ ToSet(todo[w.type]) \subseteq Source
    /\ failures \in 0..MaxFailures

\* With nodes that do not lag, a user finds every event up to the block number of a
\* watcher among the notifications, also when two watchers report the same event.  Where
\* the token must be known, it was at the block of the event.
EveryEventNotified ==
    \A w \in running, c \in Source :
        \A r \in Entries(w, c, first[<<w.type, c>>], number[<<w.type, c>>], Len(chain)) :
            (Reported(w, r[2], r[1]) /\ NotificationId(r, w) \notin gone) =>
                \E n \in ListAllNotifications(Whom(r[2], w), w.type) : n.id = NotificationId(r, w)

\* Nobody is told of what happened before a watcher that skips the past began, of
\* events of contracts, or of events that did not happen.
NothingElseNotified ==
    \A n \in notes : \E w \in running :
        /\ n.type = w.type
        /\ \E c \in Source :
              \E r \in Entries(w, c, first[<<w.type, c>>], number[<<w.type, c>>], Len(chain)) :
                 /\ n.id = NotificationId(r, w)
                 /\ w.fromPeople => r[2].from \notin Source
                 /\ w.registeredOnly => RegisteredAt(r[2].token, Len(chain))

\* What a user decided about a notification stands: a deleted one never comes back,
\* whichever nodes answer and however often a pass is repeated.
DeletedStaysDeleted == \A n \in notes : n.id \notin gone
==============================================================================
