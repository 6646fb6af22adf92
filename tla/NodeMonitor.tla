----------------------------- MODULE NodeMonitor -----------------------------
(***************************************************************************)
(* batch/processor_Block_Sync_Status.py and the fail-over providers of     *)
(* app/utils/web3_utils.py.                                                *)
(*                                                                         *)
(* The monitor checks every node once per interval: does it answer, is it  *)
(* synchronized with its peers, did its block number grow fast enough      *)
(* since CalcPeriod checks ago?  The verdict goes to the table Node.  A    *)
(* request is sent to the synchronized node of the best priority; when it  *)
(* fails, the client waits and chooses anew.                               *)
(*                                                                         *)
(* Time is discrete.  A check with its commit and an attempt of a client   *)
(* are instantaneous: a node that is down refuses the connection at once.  *)
(* A pass over all nodes may take up to PassTime.                          *)
(***************************************************************************)
EXTENDS Integers, Sequences, SequencesExt

CONSTANTS Endpoint,           \* nodes, the primary and the standby ones
          CalcPeriod,         \* BLOCK_SYNC_STATUS_CALC_PERIOD
          RemainingThreshold, \* BLOCK_SYNC_REMAINING_THRESHOLD
          SpeedThreshold,     \* BLOCK_GENERATION_SPEED_THRESHOLD, in percent
          BlocksPerSec,       \* EXPECTED_BLOCKS_PER_SEC
          Interval,           \* BLOCK_SYNC_STATUS_SLEEP_INTERVAL
          RetryCount,         \* WEB3_REQUEST_RETRY_COUNT
          WaitTime,           \* WEB3_REQUEST_WAIT_TIME
          PassTime,           \* bound on the duration of a monitor pass
          StartTime,          \* clock at the start: the chain is that old
          Growth,             \* numbers of blocks a time unit can bring
          MaxTime,            \* bound on the clock
          MaxFaults           \* bound on outages (2 each), database errors, restarts

\* A pass is over before the next one is due.
Assumption ==
    /\ {CalcPeriod, Interval} \subseteq Nat \ {0}
    /\ {RemainingThreshold, SpeedThreshold, BlocksPerSec, RetryCount, WaitTime,
        PassTime, StartTime, MaxTime, MaxFaults} \subseteq Nat
    /\ PassTime < Interval /\ StartTime <= MaxTime
    /\ Growth \subseteq {0, 1}
    /\ IsFiniteSet(Endpoint) /\ Endpoint # {}

VARIABLES
    now,        \* the clock
    blockTime,  \* blockTime[b]: when block b was made, its timestamp
    height,     \* newest block of each node
    up,         \* whether each node answers
    primary,    \* WEB3_HTTP_PROVIDER, the others are standby nodes
    node,       \* table Node, one optional row per endpoint
    history,    \* RingBuffer of each endpoint
    mpc,        \* the monitor: boot, pass or sleep
    todo,       \* endpoints left in this pass
    passStart,  \* start_time of main()
    seen,       \* history variable: the last answers of each endpoint
    request,    \* the client
    faults      \* attempts the faults so far may spoil: an outage 2, a pass
                \* lost to a database error or a restart 1

chainVars == <<now, blockTime, height, primary>>
monitorVars == <<history, mpc, todo, passStart, seen>>
vars == <<chainVars, up, node, monitorVars, request, faults>>

------------------------------------------------------------------------------
Data == [time : 0..MaxTime, number : 0..MaxTime]

\* RingBuffer: the next slot is the one overwritten by the next append, and
\* hence the oldest one.
Ring(data) == [slot |-> [i \in 0..CalcPeriod - 1 |-> data], next |-> 0]

AppendData(ring, data) ==
    [slot |-> [ring.slot EXCEPT ![ring.next] = data],
     next |-> (ring.next + 1) % CalcPeriod]

PeekOldest(ring) == ring.slot[ring.next]

\* Fewer blocks than the percentage of the theoretical number.
Slow(old, data) ==
    100 * (data.number - old.number)
        < (data.time - old.time) * BlocksPerSec * SpeedThreshold

NewRow(n, synced) ==
    [present |-> TRUE, priority |-> IF n = primary THEN 0 ELSE 1, synced |-> synced]

\* Mutant: an existing row is left as it is.
SinkOnNodeOnce(n, synced) ==
    IF node[n].present THEN node[n] ELSE NewRow(n, synced)

\* __sink_on_node: an existing row keeps its priority.
SinkOnNode(n, synced) ==
    IF node[n].present THEN [node[n] EXCEPT !.synced = synced] ELSE NewRow(n, synced)

Unseen == [answers |-> <<>>, missed |-> FALSE]

TypeOK ==
    /\ now \in StartTime..MaxTime
    /\ blockTime \in Seq(1..MaxTime)
    /\ \A n \in Endpoint : height[n] \in 0..Len(blockTime)
    /\ up \in [Endpoint -> BOOLEAN]
    /\ primary \in Endpoint
    /\ node \in [Endpoint -> [present : BOOLEAN, priority : {0, 1}, synced : BOOLEAN]]
    /\ history \in [Endpoint -> [slot : [0..CalcPeriod - 1 -> Data],
                                 next : 0..CalcPeriod - 1]]
    /\ mpc \in {"boot", "pass", "sleep"}
    /\ todo \in Seq(Endpoint)
    /\ passStart \in StartTime..now
    /\ request.pc \in {"idle", "choose", "send", "wait", "served", "failed",
                       "unavailable"}
    /\ request.counter \in 0..RetryCount + 1
    /\ faults \in 0..MaxFaults

\* An empty table, a chain that made one block per time unit so far.
Init ==
    /\ now = StartTime
    /\ blockTime = [b \in 1..StartTime |-> b]
    /\ height = [n \in Endpoint |-> StartTime]
    /\ up = [n \in Endpoint |-> TRUE]
    /\ primary \in Endpoint
    /\ node = [n \in Endpoint |->
                  [present |-> FALSE, priority |-> 0, synced |-> FALSE]]
    /\ history = [n \in Endpoint |-> Ring([time |-> now, number |-> 0])]
    /\ mpc = "boot"
    /\ todo = <<>>
    /\ passStart = now
    /\ seen = [n \in Endpoint |-> Unseen]
    /\ request = [pc |-> "idle", counter |-> 0, endpoint |-> primary,
                  retryAt |-> 0, steady |-> {}]
    /\ faults = 0

------------------------------------------------------------------------------
(* The clock and the nodes. *)

\* Nothing that is due now may be left behind.
NothingDue ==
    /\ mpc # "boot"
    /\ now < passStart + IF mpc = "sleep" THEN Interval ELSE PassTime
    /\ request.pc \notin {"choose", "send"}
    /\ request.pc = "wait" => now < request.retryAt

\* Time passes; the chain makes a block or not, a node that answers is at the
\* newest block or stays where it is.
Tick ==
    /\ now < MaxTime
    /\ NothingDue
    /\ now' = now + 1
    /\ \E blocks \in Growth : blockTime' = blockTime \o [i \in 1..blocks |-> now']
    /\ \E stuck \in SUBSET Endpoint :
          height' = [n \in Endpoint |->
                        IF n \in stuck \/ ~up[n] THEN height[n] ELSE Len(blockTime')]
    /\ UNCHANGED <<primary, up, node, monitorVars, request, faults>>

Fault(cost) == faults + cost <= MaxFaults /\ faults' = faults + cost

\* The nodes of S are not steady for the rest of the request.
Unsteady(S) == request' = [request EXCEPT !.steady = @ \ S]

GoDown(n) ==
    /\ up[n]
    /\ Fault(2)
    /\ up' = [up EXCEPT ![n] = FALSE]
    /\ Unsteady({n})
    /\ UNCHANGED <<chainVars, node, monitorVars>>

ComeUp(n) ==
    /\ ~up[n]
    /\ up' = [up EXCEPT ![n] = TRUE]
    /\ UNCHANGED <<chainVars, node, monitorVars, request, faults>>

------------------------------------------------------------------------------
(* The monitor. *)

\* The order of node_info: the primary endpoint, then the others.
Orders == {s \in SetToSeqs(Endpoint) : s[1] = primary}

\* __set_node_info: the history starts with an older block of the node; a node
\* that does not answer starts with block number 0.
InitialData(n) ==
    LET b == IF height[n] > CalcPeriod THEN height[n] - CalcPeriod ELSE 0
    IN  IF ~up[n] THEN [time |-> now, number |-> 0]
        ELSE [time |-> IF b = 0 THEN 0 ELSE blockTime[b], number |-> b]

\* initial_setup, one transaction, and the start of the first pass.  All rows
\* are of configured endpoints, so __delete_old_node deletes none.
InitialSetup ==
    /\ mpc = "boot"
    /\ history' = [n \in Endpoint |-> Ring(InitialData(n))]
    /\ node' = [n \in Endpoint |-> IF up[n] THEN node[n] ELSE SinkOnNode(n, FALSE)]
    /\ Unsteady({n \in Endpoint : ~up[n]})
    /\ todo' \in Orders
    /\ passStart' = now
    /\ mpc' = "pass"
    /\ UNCHANGED <<chainVars, up, seen, faults>>

\* The newest answers, room left for one more: one more than the ring keeps.
Recent(s) == IF Len(s) > CalcPeriod THEN Tail(s) ELSE s

\* The row of the endpoint is written and committed, or the database fails: the
\* exception ends the pass, except in __web3_errors, where it is swallowed.
\* What was seen of the node then did not reach the table.
Store(n, synced, witnessed) ==
    \/ /\ node' = [node EXCEPT ![n] = SinkOnNode(n, synced)]
       /\ IF synced THEN UNCHANGED request ELSE Unsteady({n})
       /\ seen' = [seen EXCEPT ![n] = witnessed]
       /\ todo' = Tail(todo)
       /\ UNCHANGED faults
    \/ /\ Fault(1)
       /\ todo' \in {<<>>} \union IF up[n] THEN {} ELSE {Tail(todo)}
       /\ seen' = [seen EXCEPT ![n] = Unseen]
       /\ UNCHANGED <<node, request>>

\* __process: eth_syncing may report a distance to the peers, whose newest
\* block is that of the chain.
CheckNode ==
    /\ mpc = "pass" /\ todo # <<>>
    /\ LET n == Head(todo)
           data == [time |-> now, number |-> height[n]]
           behind == Len(blockTime) - height[n]
           answer == [time |-> now, number |-> height[n], behind |-> behind]
       IN  /\ up[n]
           /\ history' = [history EXCEPT ![n] = AppendData(@, data)]
           /\ \E syncing \in BOOLEAN :
                 Store(n, /\ ~(syncing /\ behind > RemainingThreshold)
                          /\ ~Slow(PeekOldest(history[n]), data),
                       [answers |-> Append(Recent(seen[n].answers), answer),
                        missed |-> FALSE])
    /\ UNCHANGED <<chainVars, up, mpc, passStart>>

\* __web3_errors: the failed call came before the history is touched.
CheckFails ==
    /\ mpc = "pass" /\ todo # <<>>
    /\ ~up[Head(todo)]
    /\ Store(Head(todo), FALSE, [seen[Head(todo)] EXCEPT !.missed = TRUE])
    /\ UNCHANGED <<chainVars, up, history, mpc, passStart>>

EndOfPass ==
    /\ mpc = "pass" /\ todo = <<>>
    /\ mpc' = "sleep"
    /\ UNCHANGED <<chainVars, up, node, history, todo, passStart, seen, request, faults>>

\* asyncio.sleep is over: passes start one interval apart.
StartPass ==
    /\ mpc = "sleep"
    /\ now >= passStart + Interval
    /\ todo' \in Orders
    /\ passStart' = now
    /\ mpc' = "pass"
    /\ UNCHANGED <<chainVars, up, node, history, seen, request, faults>>

\* The process is started again: the histories are lost, the table is kept.
Restart ==
    /\ mpc # "boot"
    /\ Fault(1)
    /\ mpc' = "boot"
    /\ todo' = <<>>
    /\ seen' = [n \in Endpoint |-> Unseen]
    /\ UNCHANGED <<chainVars, up, node, history, passStart, request>>

------------------------------------------------------------------------------
(* The client: make_request of the fail-over providers. *)

Synced == {n \in Endpoint : node[n].present /\ node[n].synced}

StartRequest ==
    /\ request.pc = "idle"
    /\ request' = [request EXCEPT !.pc = "choose", !.steady = {n \in Synced : up[n]}]

\* Without any row, the monitor never ran: the primary node, without retries.
ChooseDefault ==
    /\ request.pc = "choose"
    /\ \A n \in Endpoint : ~node[n].present
    /\ request' = [request EXCEPT !.endpoint = primary,
                      !.pc = IF up[primary] THEN "served" ELSE "failed"]

\* Another attempt after a wait, unless this was the last one.
Retry ==
    request' = [request EXCEPT !.counter = @ + 1,
                   !.retryAt = now + WaitTime,
                   !.pc = IF request.counter + 1 <= RetryCount
                          THEN "wait" ELSE "unavailable"]

\* Mutant: the nodes that are not synchronized are candidates, too.
BestOfAll ==
    {n \in Endpoint : /\ node[n].present
                      /\ \A m \in Endpoint :
                            node[m].present => node[n].priority <= node[m].priority}

\* order_by(Node.priority): the order of the ids within a priority is that of
\* insertion, which is any.
BestNodes ==
    {n \in Synced : \A m \in Synced : node[n].priority <= node[m].priority}

ChooseNode ==
    /\ request.pc = "choose"
    /\ \E n \in Endpoint : node[n].present
    /\ \/ BestNodes = {} /\ Retry
       \/ \E n \in BestNodes : request' = [request EXCEPT !.endpoint = n, !.pc = "send"]

Send ==
    /\ request.pc = "send"
    /\ IF up[request.endpoint] THEN request' = [request EXCEPT !.pc = "served"]
                               ELSE Retry

WakeUp ==
    /\ request.pc = "wait"
    /\ now >= request.retryAt
    /\ request' = [request EXCEPT !.pc = "choose"]

Client ==
    /\ StartRequest \/ ChooseDefault \/ ChooseNode \/ Send \/ WakeUp
    /\ UNCHANGED <<chainVars, up, node, monitorVars, faults>>

------------------------------------------------------------------------------
MonitorNext ==
    \/ Tick
    \/ \E n \in Endpoint : GoDown(n) \/ ComeUp(n)
    \/ InitialSetup \/ CheckNode \/ CheckFails \/ EndOfPass \/ StartPass \/ Restart

\* The monitor alone, and with a client.
MonitorSpec == Init /\ [][MonitorNext]_vars
Spec == Init /\ [][MonitorNext \/ Client]_vars

------------------------------------------------------------------------------
Full(s) == Len(s) = CalcPeriod + 1

Stuck(s) == Full(s) /\ \A i \in DOMAIN s : s[i].number = s[1].number

Steady(s) ==
    /\ Full(s)
    /\ \A i \in 1..CalcPeriod : ~Slow(s[i], s[i + 1])
    /\ s[CalcPeriod + 1].behind <= RemainingThreshold

\* A node that answered CalcPeriod + 1 checks in a row with the same block
\* number is marked as not synchronized, even if it was unreachable in between,
\* and so is one whose last check failed: the ring buffer of __process loses no
\* answer younger than CalcPeriod checks.
StallDetected ==
    \A n \in Endpoint :
        Stuck(seen[n].answers) \/ seen[n].missed => ~node[n].synced

\* No false alarm: a node that grew fast enough between every two of its last
\* answers, and is not behind, is marked as synchronized by __process.
SteadyNodeServed ==
    \A n \in Endpoint :
        Steady(seen[n].answers) /\ ~seen[n].missed => node[n].synced

\* make_request gives up ("Block synchronization is down") only if no node
\* stayed up and synchronized all the time, or if the faults can spoil all the
\* RetryCount + 1 attempts: the retries, a monitor interval apart, outlast the
\* time until the monitor has marked a lost node, even if it misses one pass.
UnavailableOnlyAfterFaults ==
    request.pc = "unavailable" => request.steady = {} \/ faults > RetryCount
==============================================================================
