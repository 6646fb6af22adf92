------------------------------- MODULE MailQueue -------------------------------
(***************************************************************************)
(* The outgoing queues: the API (app/api/routers/messaging.py) stores      *)
(* mails and chat messages in a table, batch/processor_Send_Mail.py and    *)
(* batch/processor_Send_Chat_Webhook.py read the table, send one by one    *)
(* and delete each row whatever became of it.                              *)
(***************************************************************************)
EXTENDS Integers, FiniteSets

CONSTANTS Message,      \* mails and chat messages
          Chat,         \* those of them that are chat messages
          Barred,       \* mails to domains or addresses that are not allowed
          MaxFailures   \* bound on failures of any kind

Assumption ==
    Chat \subseteq Message /\ Barred \subseteq Message \ Chat /\ MaxFailures \in Nat

VARIABLES
    posted,     \* messages the API has accepted
    queue,      \* the two tables
    batch,      \* rows read by the sender of each table and not done yet
    current,    \* the row each sender is working on, and how far it is
    sent,       \* how often each message was handed over to the outside
    tried,      \* history: messages whose sending failed
    failures

vars == <<posted, queue, batch, current, sent, tried, failures>>

Sender == {"mail", "chat"}
TableOf(s) == IF s = "chat" THEN Chat ELSE Message \ Chat
NoRow == [step |-> "none"]

Init ==
    /\ posted = {} /\ queue = {}
    /\ batch = [s \in Sender |-> {}] /\ current = [s \in Sender |-> NoRow]
    /\ sent = [m \in Message |-> 0]
    /\ tried = {} /\ failures = 0

\* One request stores a mail for each addressee in one commit.
SendMail ==
    /\ \E M \in (SUBSET (TableOf("mail") \ posted)) \ {{}} :
          posted' = posted \union M /\ queue' = queue \union M
    /\ UNCHANGED <<batch, current, sent, tried, failures>>

SendChatWebhook ==
    /\ \E m \in Chat \ posted : posted' = posted \union {m} /\ queue' = queue \union {m}
    /\ UNCHANGED <<batch, current, sent, tried, failures>>

\* process: the whole table is read.
ReadTable(s) ==
    /\ batch[s] = {} /\ current[s] = NoRow
    /\ queue \intersect TableOf(s) # {}
    /\ batch' = [batch EXCEPT ![s] = queue \intersect TableOf(s)]
    /\ UNCHANGED <<posted, queue, current, sent, tried, failures>>

Done(s, m, how) ==
    /\ batch' = [batch EXCEPT ![s] = @ \ {m}]
    /\ current' = [current EXCEPT ![s] = [step |-> "delete", message |-> m, then |-> how]]

\* Mutant: a mail that may not be sent stays.
SkipKeeping(s) ==
    /\ current[s] = NoRow
    /\ \E m \in batch[s] \intersect Barred : batch' = [batch EXCEPT ![s] = @ \ {m}]
    /\ UNCHANGED <<posted, queue, current, sent, tried, failures>>

\* A mail that may not be sent is deleted unsent.
Skip(s) ==
    /\ current[s] = NoRow
    /\ \E m \in batch[s] \intersect Barred : Done(s, m, "next")
    /\ UNCHANGED <<posted, queue, sent, tried, failures>>

Send(s) ==
    /\ current[s] = NoRow
    /\ \E m \in batch[s] \ Barred : Done(s, m, "next") /\ sent' = [sent EXCEPT ![m] = @ + 1]
    /\ UNCHANGED <<posted, queue, tried, failures>>

\* A failure the sender knows is logged; any other one of a mail ends the pass, but only
\* after the row was deleted.
SendFails(s) ==
    /\ current[s] = NoRow /\ failures < MaxFailures
    /\ \E m \in batch[s] \ Barred, how \in IF s = "mail" THEN {"next", "end"} ELSE {"next"} :
          Done(s, m, how) /\ tried' = tried \union {m}
    /\ failures' = failures + 1
    /\ UNCHANGED <<posted, queue, sent>>

\* Mutant: the rows of a failed batch are deleted with it.
DeleteBatch(s) ==
    /\ current[s] # NoRow
    /\ queue' = queue \ ({current[s].message}
                            \union (IF current[s].then = "end" THEN batch[s] ELSE {}))
    /\ current' = [current EXCEPT ![s] = NoRow]
    /\ batch' = [batch EXCEPT ![s] = IF current[s].then = "end" THEN {} ELSE @]
    /\ UNCHANGED <<posted, sent, tried, failures>>

\* finally: the row is deleted and the deletion committed.
Delete(s) ==
    /\ current[s] # NoRow
    /\ queue' = queue \ {current[s].message}
    /\ current' = [current EXCEPT ![s] = NoRow]
    /\ batch' = [batch EXCEPT ![s] = IF current[s].then = "end" THEN {} ELSE @]
    /\ UNCHANGED <<posted, sent, tried, failures>>

\* The commit fails or the process ends, before or after a message went out.
Stop(s) ==
    /\ batch[s] # {} \/ current[s] # NoRow
    /\ failures < MaxFailures
    /\ batch' = [batch EXCEPT ![s] = {}]
    /\ current' = [current EXCEPT ![s] = NoRow]
    /\ failures' = failures + 1
    /\ UNCHANGED <<posted, queue, sent, tried>>

Process(s) == ReadTable(s) \/ Skip(s) \/ Send(s) \/ SendFails(s) \/ Delete(s)

Next == SendMail \/ SendChatWebhook \/ \E s \in Sender : Process(s) \/ Stop(s)

Spec == Init /\ [][Next]_vars

\* The processes run on.
FairSpec == Spec /\ \A s \in Sender : WF_vars(Process(s))

------------------------------------------------------------------------------
(* Properties. *)

TypeOK ==
    /\ queue \subseteq posted /\ posted \subseteq Message
    /\ batch \in [Sender -> SUBSET Message]
    /\ sent \in [Message -> 0..MaxFailures + 1]
    /\ failures \in 0..MaxFailures

\* A message leaves the queue only when it was sent, may not be sent, or could not be
\* sent itself: the trouble of another message or of the process does not lose it.
NoMessageLost ==
    \A m \in posted \ queue : sent[m] > 0 \/ m \in Barred \/ m \in tried

\* A message goes out twice only after a stop of its sender between sending and deleting.
NoNeedlessCopies ==
    /\ \A m \in Message : sent[m] <= 1 + failures
    /\ failures = 0 => \A m \in queue : sent[m] = 0 \/ \E s \in Sender :
                                            current[s] # NoRow /\ current[s].message = m
    /\ \A m \in Barred : sent[m] = 0

\* Every message is done with in the end.
QueueDrained == \A m \in Message : (m \in queue) ~> (m \notin queue)
==============================================================================
