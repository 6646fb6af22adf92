------------------------------- MODULE Services -------------------------------
(* The services around the ledgers, each on its own: one of them, which, is chosen in *)
(* the initial state and runs alone.  Variables of the same name are shared, those a  *)
(* service does not have stay 0.                                                      *)
EXTENDS NodeMonitor

CONSTANTS Monitored, Period, Speed, Blocks, MonitorTime, MonitorFaults,  \* of NodeMonitor alone
          Document, MaxPublished,           \* of ListImporter
          CacheInstance, CacheTime, TTL, ShortTTL, MaxDelay, MaxChanges,    \* of TokenCache
          Message, Chat, Barred,            \* of MailQueue
          Request, Raw, NoWait, ListedToken, Executable, MaxSwitches,   \* of TransactionApi
          NodeFaults,                       \* its bound on faults
          MaxFailures                       \* bound on failures of importers and senders

VARIABLES which,
          template, running, source, held, onList, row, job, stored, told, changes,
          kind, published, digest, session, table, publications, spoiled,
          posted, queue, batch, current, tried, failures, sent,
          pool, mined, suspended, switches, step, index, result, barred, doubted

monitorOnly == <<blockTime, height, up, primary, node, monitorVars, request>>
cacheOnly == <<template, running, source, held, onList, row, job, stored, told, changes>>
listOnly == <<kind, published, digest, session, table, publications, spoiled>>
mailOnly == <<posted, queue, batch, current, tried>>
poolOnly == <<pool, mined, suspended, switches, step, index, result, barred, doubted>>

NoMonitor == /\ blockTime = 0 /\ height = 0 /\ up = 0 /\ primary = 0 /\ node = 0
             /\ history = 0 /\ mpc = 0 /\ todo = 0 /\ passStart = 0 /\ seen = 0 /\ request = 0
NoCache == /\ template = 0 /\ running = 0 /\ source = 0 /\ held = 0 /\ onList = 0
           /\ row = 0 /\ job = 0 /\ stored = 0 /\ told = 0 /\ changes = 0
NoLists == /\ kind = 0 /\ published = 0 /\ digest = 0 /\ session = 0 /\ table = 0
           /\ publications = 0 /\ spoiled = 0
NoMail == posted = 0 /\ queue = 0 /\ batch = 0 /\ current = 0 /\ tried = 0
NoPool == /\ pool = 0 /\ mined = 0 /\ suspended = 0 /\ switches = 0 /\ step = 0 /\ index = 0
          /\ result = 0 /\ barred = 0 /\ doubted = 0

------------------------------------------------------------------------------
(* A monitor alone, and another one with a client. *)

OneNode == INSTANCE NodeMonitor WITH
    Endpoint <- Monitored, CalcPeriod <- Period, SpeedThreshold <- Speed, Growth <- Blocks,
    MaxTime <- MonitorTime, MaxFaults <- MonitorFaults

ASSUME MonitorAssumption == OneNode!Assumption
ASSUME FailOverAssumption == Assumption

MonitorInit == /\ \/ which = "one" /\ OneNode!Init
                  \/ which = "two" /\ Init
               /\ NoCache /\ NoLists /\ NoMail /\ NoPool /\ failures = 0 /\ sent = 0

MonitorStep ==
    /\ \/ which = "one" /\ OneNode!MonitorNext
       \/ which = "two" /\ (MonitorNext \/ Client)
    /\ UNCHANGED <<cacheOnly, listOnly, mailOnly, poolOnly, failures, sent>>

\* The monitor alone: a node that answers with the same block number again and
\* again, or does not answer, is marked, and there is no false alarm.
NodeStatusRight ==
    which = "one" => OneNode!TypeOK /\ OneNode!StallDetected /\ OneNode!SteadyNodeServed

\* UnavailableOnlyAfterFaults for the client: the retries outlast the
\* time until a lost node is marked.
OutageSurvived == which = "two" => UnavailableOnlyAfterFaults

------------------------------------------------------------------------------
(* The processes that write a token's row, a group of them for a token of a template. *)

Cache == INSTANCE TokenCache WITH
    Template <- {c.template : c \in CacheInstance},
    Groups <- {c.processes : c \in CacheInstance},
    MaxTime <- CacheTime

ASSUME CacheAssumption == Cache!Assumption

CacheInit == /\ which = "cache" /\ Cache!Init
             /\ \E c \in CacheInstance : running = c.processes /\ template = c.template
             /\ NoMonitor /\ faults = 0 /\ NoLists /\ NoMail /\ NoPool /\ failures = 0 /\ sent = 0
CacheStep == /\ which = "cache" /\ Cache!Next
             /\ UNCHANGED <<monitorOnly, faults, listOnly, mailOnly, poolOnly, failures, sent>>

\* A row is hardly older than its time stamps say, whoever of the writers overtook whom, and
\* what is served is not older than twice the short time limit and two passes.
CacheIsFresh ==
    which = "cache" => Cache!TypeOK /\ Cache!RowNotOlderThanStamps /\ Cache!ServedIsFresh

\* Each change of an attribute is told once, in order.
ToldInOrder == which = "cache" => Cache!ToldInOrder

------------------------------------------------------------------------------
(* The importers of published lists. *)

Lists == INSTANCE ListImporter

ASSUME ListAssumption == Lists!Assumption

ListsInit == /\ which = "lists" /\ Lists!Init
             /\ NoMonitor /\ now = 0 /\ faults = 0 /\ NoCache /\ NoMail /\ NoPool /\ sent = 0
ListsStep == /\ which = "lists" /\ Lists!Next
             /\ UNCHANGED <<monitorOnly, now, faults, cacheOnly, mailOnly, poolOnly, sent>>

\* The table shows one published list, never a mixture, and an older one than the digest
\* stands for only after a failed update.
TableIsOneList ==
    which = "lists" => Lists!TypeOK /\ Lists!TableIsOneList /\ Lists!BehindOnlyIfSpoiled

------------------------------------------------------------------------------
(* The queues of mails and chat messages. *)

Mails == INSTANCE MailQueue

ASSUME MailAssumption == Mails!Assumption

MailInit == /\ which = "mail" /\ Mails!Init
            /\ NoMonitor /\ now = 0 /\ faults = 0 /\ NoCache /\ NoLists /\ NoPool
MailStep == /\ which = "mail" /\ Mails!Next
            /\ UNCHANGED <<monitorOnly, now, faults, cacheOnly, listOnly, poolOnly>>

\* A message leaves the queue sent, tried in vain or barred, and is sent twice only when its
\* sender stopped in between.
MessagesSentOnce == which = "mail" => Mails!TypeOK /\ Mails!NoMessageLost /\ Mails!NoNeedlessCopies

------------------------------------------------------------------------------
(* Requests that send transactions. *)

Eth == INSTANCE TransactionApi WITH MaxFaults <- NodeFaults

ASSUME EthAssumption == Eth!Assumption

EthInit == /\ which = "eth" /\ Eth!Init
           /\ NoMonitor /\ now = 0 /\ NoCache /\ NoLists /\ NoMail /\ failures = 0
EthStep == /\ which = "eth" /\ Eth!Next
           /\ UNCHANGED <<monitorOnly, now, cacheOnly, listOnly, mailOnly, failures>>

\* A token that is suspended all the time gets no transaction.
SuspendedSendsNothing == which = "eth" => Eth!TypeOK /\ Eth!SuspendedSendsNothing

\* An answer says what happened to its transaction; one that says it failed is wrong only
\* when the transaction was stuck behind a gap or the node failed after it had taken it.
AnswersAreTrue == which = "eth" => Eth!AnswersAreTrue /\ Eth!FailureExplained

------------------------------------------------------------------------------
ServicesInit == MonitorInit \/ CacheInit \/ ListsInit \/ MailInit \/ EthInit
ServicesNext == /\ MonitorStep \/ CacheStep \/ ListsStep \/ MailStep \/ EthStep
          /\ UNCHANGED which

serviceVars == <<which, vars, cacheOnly, listOnly, mailOnly, poolOnly, failures, sent>>
ServicesSpec == ServicesInit /\ [][ServicesNext]_serviceVars
==============================================================================
