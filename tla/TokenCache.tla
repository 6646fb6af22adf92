------------------------------ MODULE TokenCache ------------------------------
(***************************************************************************)
(* The details of a token kept in the database (app/model/blockchain/      *)
(* token.py) and everyone who writes them: the two refreshers              *)
(* batch/indexer_Token_Detail*.py, the admin API, and the watcher of an    *)
(* attribute in batch/processor_Notifications_Token.py, which reads a      *)
(* token as the API does and commits what it had to fetch.                 *)
(*                                                                         *)
(* One token.  Its columns follow a source each, the contract or the       *)
(* listing.  No process locks the row, so each works on what it read       *)
(* before.  An exception rolls a process back to what it began with, which *)
(* is the same as not having begun.                                        *)
(***************************************************************************)
EXTENDS Integers, FiniteSets, Sequences

CONSTANTS Template,     \* templates of tokens
          Groups,       \* the sets of processes that run together
          TTL,          \* TOKEN_CACHE_TTL
          ShortTTL,     \* TOKEN_SHORT_TERM_CACHE_TTL
          MaxTime,      \* bound on the clock
          MaxDelay,     \* bound on the time from a fetch to the commit of it
          MaxChanges    \* bound on changes of the sources and deletions

\* The columns of a row this module follows.
Column == {"transferable", "max_holding_quantity"}
NoRow == [value |-> [c \in Column |-> 0], created |-> -1, short |-> -1]
Idle == [step |-> "idle"]
Value == 0..2
Process == {"detail", "short", "watch", "admin"}

Assumption ==
    /\ Template \subseteq {"IbetStraightBond", "IbetShare", "IbetMembership", "IbetCoupon"}
    /\ \A group \in Groups : group \subseteq Process
    /\ TTL \in Nat /\ ShortTTL \in Nat
    /\ MaxTime \in Nat /\ MaxDelay \in Nat /\ MaxChanges \in Nat

VARIABLES
    template,   \* token_template
    running,    \* processes that run
    source,     \* present value of each column at its source
    held,       \* history: when each value of a column was last the present one
    now,        \* the clock
    onList,     \* the token is in the table Listing
    row,        \* IDX*Token, committed
    job,        \* what each process has read and is going to write
    stored,     \* NotificationAttributeValue of the attribute "transferable"
    told,       \* attribute_change notifications, oldest first
    changes     \* changes of the sources and deletions so far

vars == <<template, running, source, held, now, onList, row, job, stored, told, changes>>

------------------------------------------------------------------------------
(* The columns of the four classes. *)

CommonShortTerm == {"owner_address", "company_name", "rsa_publickey", "total_supply",
                    "status", "transferable", "memo"}

\* fetch_expiry_short of each class.
BondShortTerm == CommonShortTerm \union
    {"is_offering", "transfer_approval_required", "is_redeemed",
     "require_personal_info_registered"}
ShareShortTerm == CommonShortTerm \union
    {"is_offering", "transfer_approval_required", "principal_value", "is_canceled",
     "dividend_information", "require_personal_info_registered"}
MembershipShortTerm == CommonShortTerm \union {"initial_offering_status"}
CouponShortTerm == CommonShortTerm \union {"initial_offering_status"}

CommonDetail == {"name", "symbol", "tradable_exchange", "contact_information",
                 "privacy_policy", "max_holding_quantity", "max_sell_amount"}

\* fetch of each class.
BondDetail == BondShortTerm \union CommonDetail \union
    {"personal_info_address", "face_value", "face_value_currency", "interest_rate",
     "interest_payment_date", "interest_payment_currency", "redemption_date",
     "redemption_value", "redemption_value_currency", "base_fx_rate", "return_date",
     "return_amount", "purpose"}
ShareDetail == ShareShortTerm \union CommonDetail \union
    {"personal_info_address", "issue_price", "cancellation_date"}
MembershipDetail == MembershipShortTerm \union CommonDetail \union
    {"details", "return_details", "expiration_date", "image_url"}
CouponDetail == CouponShortTerm \union CommonDetail \union
    {"details", "return_details", "expiration_date", "image_url"}

ShortTermOf == [IbetStraightBond |-> BondShortTerm, IbetShare |-> ShareShortTerm,
                IbetMembership |-> MembershipShortTerm, IbetCoupon |-> CouponShortTerm]
DetailOf == [IbetStraightBond |-> BondDetail, IbetShare |-> ShareDetail,
             IbetMembership |-> MembershipDetail, IbetCoupon |-> CouponDetail]

ShortTerm == ShortTermOf[template] \intersect Column
Detail == DetailOf[template] \intersect Column

\* A token that is not listed has no quantities.
Present(c) == IF c = "max_holding_quantity" /\ ~onList THEN 0 ELSE source[c]
Fetched(C) == [c \in C |-> Present(c)]

\* from_model and fetch_expiry_short: the columns of a row, the short-term ones anew.
Refreshed(r) == [c \in Column |-> IF c \in ShortTerm THEN Present(c) ELSE r.value[c]]

\* What the flush of a merged row does to a row: an UPDATE of the columns that differ
\* from those the session had loaded, an INSERT when there is no row.
UpdateOf(r, loaded, value, created, short) ==
    [value |-> [c \in Column |-> IF value[c] # loaded[c] THEN value[c] ELSE r.value[c]],
     created |-> created, short |-> short]

------------------------------------------------------------------------------
(* The sources and the clock. *)

Working(p) == job[p].step # "idle"

TypeOK ==
    /\ template \in Template /\ running \in Groups
    /\ source \in [Column -> Value]
    /\ now \in 0..MaxTime
    /\ row.value \in [Column -> Value]
    /\ row.created \in -1..now /\ row.short \in -1..now
    /\ stored \in Value \union {-1}
    /\ changes \in 0..MaxChanges

Init ==
    /\ template \in Template /\ running \in Groups
    /\ source = [c \in Column |-> 1]
    /\ onList = FALSE
    /\ now = 0
    /\ held = [c \in Column |-> [v \in Value |-> IF v = Present(c) THEN 0 ELSE -1]]
    /\ row = NoRow
    /\ job = [p \in Process |-> Idle]
    /\ stored = -1
    /\ told = <<>>
    /\ changes = 0

\* A process in the middle of something holds the clock after MaxDelay.
Tick ==
    /\ now < MaxTime
    /\ \A p \in Process : Working(p) => now - job[p].since < MaxDelay
    /\ now' = now + 1
    /\ held' = [c \in Column |-> [held[c] EXCEPT ![Present(c)] = now + 1]]
    /\ UNCHANGED <<template, running, source, onList, row, job, stored, told, changes>>

Happens(c, value) == held' = [held EXCEPT ![c][value] = now]

\* A source takes another value, the one before included.
ChangeOf(C) ==
    /\ changes < MaxChanges
    /\ changes' = changes + 1
    /\ \E c \in C : /\ source' = [source EXCEPT ![c] = 3 - @]
                    /\ Happens(c, 3 - source[c])
    /\ UNCHANGED <<template, running, now, onList, row, job, stored, told>>

\* The issuer changes the token.
Change == ChangeOf({"transferable"})

Begin(p, what) == p \in running /\ job' = [job EXCEPT ![p] = what]
Finish(p) == job' = [job EXCEPT ![p] = Idle]

------------------------------------------------------------------------------
(* batch/indexer_Token_Detail.py *)

\* The token is listed when the pass begins; everything is fetched.
DetailFetch ==
    /\ ~Working("detail") /\ onList
    /\ Begin("detail", [step |-> "write", since |-> now, value |-> Fetched(Detail)])
    /\ UNCHANGED <<template, running, source, held, now, onList, row, stored, told, changes>>

\* merge reads the row again, or makes a new one.
DetailWrite ==
    /\ Working("detail")
    /\ row' = [value |-> job["detail"].value, created |-> job["detail"].since,
               short |-> job["detail"].since]
    /\ Finish("detail")
    /\ UNCHANGED <<template, running, source, held, now, onList, stored, told, changes>>

------------------------------------------------------------------------------
(* batch/indexer_Token_Detail_ShortTerm.py *)

\* The rows of the listed tokens are loaded at the start of a pass.
ShortStart ==
    /\ ~Working("short") /\ onList /\ row # NoRow
    /\ Begin("short", [step |-> "fetch", since |-> now, loaded |-> row])
    /\ UNCHANGED <<template, running, source, held, now, onList, row, stored, told, changes>>

ShortFetch ==
    /\ Working("short") /\ job["short"].step = "fetch"
    /\ Begin("short", [step |-> "write", since |-> now, loaded |-> job["short"].loaded,
                       value |-> Refreshed(job["short"].loaded)])
    /\ UNCHANGED <<template, running, source, held, now, onList, row, stored, told, changes>>

\* A row deleted meanwhile: StaleDataError, nothing is written.
ShortWrite ==
    /\ Working("short") /\ job["short"].step = "write"
    /\ row' = IF row = NoRow THEN NoRow
              ELSE UpdateOf(row, job["short"].loaded.value, job["short"].value,
                            row.created, job["short"].since)
    /\ Finish("short")
    /\ UNCHANGED <<template, running, source, held, now, onList, stored, told, changes>>

------------------------------------------------------------------------------
(* token_db_cache: a token as the API and the watcher of an attribute get it. *)

Alive(r) == r # NoRow /\ r.created + TTL >= now

\* Mutant: the short-term columns live as long as the others.
AliveShortLong(r) == r.short + TTL >= now

AliveShort(r) == r.short + ShortTTL >= now

\* The value get returns, and the row the session is going to write, if any.
Get == IF Alive(row) THEN IF AliveShort(row) THEN row.value ELSE Refreshed(row)
                     ELSE Fetched(Detail)

\* AttributeWatcher.loop: the stored value and the token are read.
WatchGet ==
    /\ ~Working("watch") /\ onList
    /\ Begin("watch", [step |-> "write", since |-> now, value |-> Get, loaded |-> row,
                       refresh |-> Alive(row) /\ ~AliveShort(row)])
    /\ UNCHANGED <<template, running, source, held, now, onList, row, stored, told, changes>>

Attribute == "transferable"

\* Mutant: the value is stored only the first time.
WatchCommitOnce ==
    /\ Working("watch")
    /\ LET w == job["watch"] IN
          /\ row' = IF w.refresh /\ row # NoRow
                    THEN UpdateOf(row, w.loaded.value, w.value, row.created, w.since) ELSE row
          /\ stored' = IF stored = -1 THEN w.value[Attribute] ELSE stored
          /\ told' = IF stored \notin {-1, w.value[Attribute]}
                     THEN Append(told, <<stored, w.value[Attribute]>>) ELSE told
    /\ Finish("watch")
    /\ UNCHANGED <<template, running, source, held, now, onList, changes>>

\* A change is told, the value stored and the refreshed row written, in one commit; a
\* row deleted meanwhile makes the commit fail.
WatchCommit ==
    /\ Working("watch")
    /\ LET w == job["watch"] IN
          IF w.refresh /\ row = NoRow THEN UNCHANGED <<stored, told, row>>
          ELSE /\ row' = IF w.refresh THEN UpdateOf(row, w.loaded.value, w.value,
                                                    row.created, w.since)
                                      ELSE row
               /\ stored' = w.value[Attribute]
               /\ told' = IF stored \notin {-1, w.value[Attribute]}
                          THEN Append(told, <<stored, w.value[Attribute]>>) ELSE told
    /\ Finish("watch")
    /\ UNCHANGED <<template, running, source, held, now, onList, changes>>

------------------------------------------------------------------------------
(* app/api/routers/admin.py *)

\* register_admin_token: a token that is not listed is read from the cache, where a
\* row may have been left, or from the chain with the new listing.
RegisterStart ==
    /\ ~Working("admin") /\ ~onList
    /\ Begin("admin", [step |-> "write", since |-> now, loaded |-> row, cached |-> Alive(row),
                       value |-> IF Alive(row) THEN Get ELSE source])
    /\ UNCHANGED <<template, running, source, held, now, onList, row, stored, told, changes>>

\* The listing, the row and the position of the issuer are committed together; a row
\* that exists keeps the time it was created.
RegisterCommit ==
    /\ Working("admin")
    /\ onList' = TRUE
    /\ LET a == job["admin"]
           loaded == IF a.cached THEN a.loaded ELSE row
       IN row' = IF row = NoRow THEN [value |-> a.value, created |-> now, short |-> a.since]
                 ELSE UpdateOf(row, loaded.value, a.value, row.created, a.since)
    /\ Happens("max_holding_quantity", source["max_holding_quantity"])
    /\ Finish("admin")
    /\ UNCHANGED <<template, running, source, now, stored, told, changes>>

\* update_token: the row is left to the refreshers.
UpdateToken == onList /\ ChangeOf({"max_holding_quantity"})

DeleteToken ==
    /\ onList /\ changes < MaxChanges
    /\ onList' = FALSE
    /\ row' = NoRow
    /\ Happens("max_holding_quantity", 0)
    /\ changes' = changes + 1
    /\ UNCHANGED <<template, running, source, now, job, stored, told>>

TokenDetailStep == DetailFetch \/ DetailWrite
ShortTermStep == ShortStart \/ ShortFetch \/ ShortWrite
AttributeStep == WatchGet \/ WatchCommit
AdminStep == RegisterStart \/ RegisterCommit \/ UpdateToken \/ DeleteToken

Next == Tick \/ Change \/ TokenDetailStep \/ ShortTermStep \/ AttributeStep
        \/ AdminStep

Spec == Init /\ [][Next]_vars

------------------------------------------------------------------------------
(* Properties. *)

HeldSince(c, value, t) == held[c][value] >= t

\* However the writers interleave, the long-term columns of a row held at its time of
\* creation or since, and the short-term ones hardly earlier than their stamp says: but for
\* two passes, because a refresher that finds what it loaded only renews the stamp, although
\* another one may have written older values meanwhile, and but for one ShortTTL, because a
\* registration that finds a row with valid columns renews their stamp without reading them
\* (which happens once to a row).
RowNotOlderThanStamps ==
    row # NoRow =>
        \A c \in Column :
            HeldSince(c, row.value[c],
                      IF c \in ShortTerm THEN row.short - ShortTTL - 2 * MaxDelay ELSE row.created)

\* Whoever reads a listed token gets no short-term column that is older than two TTL, for
\* the same reason, and the two passes.
ServedIsFresh ==
    onList => \A c \in ShortTerm : HeldSince(c, Get[c], now - 2 * ShortTTL - 2 * MaxDelay)

\* The notifications of an attribute are a chain: each starts from the value the one
\* before it ended with, and the last one ends with the stored value.
ToldInOrder ==
    \A i \in DOMAIN told :
        /\ told[i][1] # told[i][2]
        /\ told[i][2] = IF i = Len(told) THEN stored ELSE told[i + 1][1]
===============================================================================
