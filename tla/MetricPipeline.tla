--------------------------- MODULE MetricPipeline ---------------------------
(***************************************************************************)
(* The way of the metrics of one client: the peer controller hands batches *)
(* to the composer, which sends them on the channel of the connection it   *)
(* was given last; the connection task gets a client under the mutex that  *)
(* it shares with the registering task, offers a new channel and streams   *)
(* it to the server; a task of the server for each stream queues metric by *)
(* metric, and metric_processor stores them (client_manager.rs,            *)
(* server_manager.rs).  A batch is its number, a metric its batch and its  *)
(* kind; the metrics of one neighbour stand for those of all.              *)
(***************************************************************************)
EXTENDS Integers, Sequences, FiniteSets, SequencesExt

CONSTANTS
  MaxBatches, Kinds,  \* as in MetricStore
  MeasCap,            \* capacity of the controller's channel of batches (10)
  WireCap,            \* bound: batches on a connection
  QueueCap,           \* capacity of the server's queue of metrics (128)
  MaxFaults           \* bound: failures of connections, of calls and of the server

ASSUME BoundAssumption ==
  /\ MaxBatches \in Nat /\ Kinds \in Nat \ {0} /\ MaxFaults \in Nat
  /\ MeasCap \in Nat \ {0} /\ WireCap \in Nat \ {0} /\ QueueCap \in Nat \ {0}

\* Every fault costs at most one connection.
Conns == 1..MaxFaults + 1
NoTask == <<0, 0>>

VARIABLES
  made,     \* how many batches the controller has made
  meas,     \* the channel from the controller to the composer
  cpc,      \* the composer: "first", "recv", "swap" or "send"
  hand,     \* the batch in its hand, while in "swap" or "send"
  sender,   \* the connection whose channel it sends on
  offered,  \* the channel of senders from the connection task to the composer
  lpc,      \* the connection task: "lock", "get", "offer", "call" or "read"
  conn,     \* the connection it made last
  rpc,      \* the registering task: "lock", "get" or "follow"
  reach,    \* the server can be reached
  link,     \* link[c]: "none", "made", "up", "cut" or "gone" (its receiver dropped)
  chan,     \* chan[c]: the channel of metric messages
  wire,     \* wire[c]: what was sent on the connection and not yet read
  task,     \* task[c]: the metric that the server's task of c queues next, or NoTask
  answers,  \* answers[c]: the channel of answers
  queue,    \* ServerController's queue of metrics
  store,    \* ServerController.metrics: the batch of each kind
  faults,   \* failures so far
  lost,     \* history: the batches that connections have lost metrics of
  overlap   \* history: the server has worked for two connections at once

clientVars == <<made, meas, cpc, hand, sender, offered>>
loopVars == <<lpc, conn, rpc, reach>>
linkVars == <<link, chan, wire>>
serverVars == <<task, answers, queue, store>>
history == <<lost, overlap>>
vars == <<clientVars, loopVars, linkVars, serverVars, faults, history>>

Broken(c) == link[c] \in {"cut", "gone"}
Numbers(s) == ToSet(s)

----------------------------------------------------------------------------
(* The composer. *)

\* work() sends the aggregate; it waits while the channel is full.
MakeBatch ==
  /\ made < MaxBatches /\ Len(meas) < MeasCap
  /\ made' = made + 1
  /\ meas' = Append(meas, made + 1)
  /\ UNCHANGED <<cpc, hand, sender, offered, loopVars, linkVars, serverVars, faults, history>>

\* rx.recv(), for the first sender and in place of a closed one.
TakeSender ==
  /\ cpc \in {"first", "swap"} /\ offered # <<>>
  /\ sender' = Head(offered)
  /\ offered' = Tail(offered)
  /\ cpc' = IF cpc = "first" THEN "recv" ELSE "send"
  /\ UNCHANGED <<made, meas, hand, loopVars, linkVars, serverVars, faults, history>>

\* Mutant of TakeBatch: without the test of is_closed().
TakeBatchUntested ==
  /\ cpc = "recv" /\ meas # <<>>
  /\ hand' = Head(meas)
  /\ meas' = Tail(meas)
  /\ cpc' = "send"
  /\ UNCHANGED <<made, sender, offered, loopVars, linkVars, serverVars, faults, history>>

\* meas_rx.recv() and the test of is_closed().
TakeBatch ==
  /\ cpc = "recv" /\ meas # <<>>
  /\ hand' = Head(meas)
  /\ meas' = Tail(meas)
  /\ cpc' = IF link[sender] = "gone" THEN "swap" ELSE "send"
  /\ UNCHANGED <<made, sender, offered, loopVars, linkVars, serverVars, faults, history>>

\* Mutant of SendBatch: a batch that could not be sent goes back to the channel.
SendBatchRequeued ==
  /\ cpc = "send"
  /\ IF link[sender] = "gone"
     THEN meas' = Append(meas, hand) /\ UNCHANGED chan
     ELSE /\ chan[sender] = <<>> /\ chan' = [chan EXCEPT ![sender] = <<hand>>]
          /\ UNCHANGED meas
  /\ cpc' = "recv"
  /\ hand' = 0
  /\ UNCHANGED <<made, sender, offered, loopVars, link, wire, serverVars, faults, history>>

\* sender.send() waits for room, and fails, unnoticed, on a channel that is closed:
\* also on the one just taken, which is not tested again.
SendBatch ==
  /\ cpc = "send"
  /\ \/ /\ link[sender] # "gone" /\ chan[sender] = <<>>
        /\ chan' = [chan EXCEPT ![sender] = <<hand>>]
        /\ UNCHANGED lost
     \/ /\ link[sender] = "gone"
        /\ lost' = lost \cup {hand}
        /\ UNCHANGED chan
  /\ cpc' = "recv"
  /\ hand' = 0
  /\ UNCHANGED <<made, meas, sender, offered, loopVars, link, wire, serverVars, faults, overlap>>

----------------------------------------------------------------------------
(* The connection task and the registering task. *)

Locked == lpc = "get" \/ rpc = "get"

LockForMetrics ==
  /\ lpc = "lock" /\ ~Locked
  /\ lpc' = "get"
  /\ UNCHANGED <<clientVars, conn, rpc, reach, linkVars, serverVars, faults, history>>

\* get_client() returns once a ping succeeds on the client of before or on a new one;
\* until then it keeps the mutex.
GetForMetrics ==
  /\ lpc = "get" /\ reach
  /\ lpc' = "offer"
  /\ conn' = conn + 1
  /\ link' = [link EXCEPT ![conn + 1] = "made"]
  /\ UNCHANGED <<clientVars, rpc, reach, chan, wire, serverVars, faults, history>>

\* tx.send(metric_tx), on a channel that holds one sender.
Offer ==
  /\ lpc = "offer" /\ offered = <<>>
  /\ offered' = <<conn>>
  /\ lpc' = "call"
  /\ UNCHANGED <<made, meas, cpc, hand, sender, conn, rpc, reach, linkVars, serverVars, faults, history>>

\* metrics() is answered ...
CallAnswered ==
  /\ lpc = "call" /\ reach
  /\ lpc' = "read"
  /\ link' = [link EXCEPT ![conn] = "up"]
  /\ UNCHANGED <<clientVars, conn, rpc, reach, chan, wire, serverVars, faults, history>>

\* ... or fails, and with it the receiver of the channel is dropped.
CallFails ==
  /\ lpc = "call" /\ faults < MaxFaults
  /\ faults' = faults + 1
  /\ lpc' = "lock"
  /\ link' = [link EXCEPT ![conn] = "gone"]
  /\ chan' = [chan EXCEPT ![conn] = <<>>]
  /\ lost' = lost \cup Numbers(chan[conn])
  /\ UNCHANGED <<clientVars, conn, rpc, reach, wire, serverVars, overlap>>

ReadAnswer ==
  /\ lpc = "read" /\ answers[conn] > 0
  /\ answers' = [answers EXCEPT ![conn] = @ - 1]
  /\ UNCHANGED <<clientVars, loopVars, linkVars, task, queue, store, faults, history>>

\* The response stream ends: from the start, with a new client.
ResponsesEnd ==
  /\ lpc = "read" /\ Broken(conn)
  /\ lpc' = "lock"
  /\ UNCHANGED <<clientVars, conn, rpc, reach, linkVars, serverVars, faults, history>>

LockForRegister ==
  /\ rpc = "lock" /\ ~Locked
  /\ rpc' = "get"
  /\ UNCHANGED <<clientVars, lpc, conn, reach, linkVars, serverVars, faults, history>>

GetForRegister ==
  /\ rpc = "get" /\ reach
  /\ rpc' = "follow"
  /\ UNCHANGED <<clientVars, lpc, conn, reach, linkVars, serverVars, faults, history>>

\* The registration is rejected, or its stream of updates ends.
RegisterAgain ==
  /\ rpc = "follow"
  /\ rpc' = "lock"
  /\ UNCHANGED <<clientVars, lpc, conn, reach, linkVars, serverVars, faults, history>>

----------------------------------------------------------------------------
(* The connection, as tonic keeps it (external). *)

Transmit(c) ==
  /\ link[c] = "up" /\ chan[c] # <<>> /\ Len(wire[c]) < WireCap
  /\ wire' = [wire EXCEPT ![c] = Append(@, Head(chan[c]))]
  /\ chan' = [chan EXCEPT ![c] = Tail(@)]
  /\ UNCHANGED <<clientVars, loopVars, link, serverVars, faults, history>>

Break(c) ==
  /\ link[c] = "up" /\ faults < MaxFaults
  /\ faults' = faults + 1
  /\ link' = [link EXCEPT ![c] = "cut"]
  /\ UNCHANGED <<clientVars, loopVars, chan, wire, serverVars, history>>

\* The request of a broken connection is dropped, and with it the receiver of its
\* channel; the response stream may end before or after that.
DropRequest(c) ==
  /\ link[c] = "cut"
  /\ link' = [link EXCEPT ![c] = "gone"]
  /\ chan' = [chan EXCEPT ![c] = <<>>]
  /\ lost' = lost \cup Numbers(chan[c])
  /\ UNCHANGED <<clientVars, loopVars, wire, serverVars, faults, overlap>>

\* The server's stream of a broken connection ends before it has given everything.
DropStream(c) ==
  /\ Broken(c) /\ wire[c] # <<>>
  /\ wire' = [wire EXCEPT ![c] = <<>>]
  /\ lost' = lost \cup Numbers(wire[c])
  /\ UNCHANGED <<clientVars, loopVars, link, chan, serverVars, faults, overlap>>

\* New connections and pings succeed only while the server can be reached.
Reach ==
  /\ reach' = ~reach
  /\ UNCHANGED <<clientVars, lpc, conn, rpc, linkVars, serverVars, faults, history>>

----------------------------------------------------------------------------
(* The server. *)

\* metric_stream.next() of the task of c.  Another connection may have a task as well.
ReadMessage(c) ==
  /\ task[c] = NoTask /\ wire[c] # <<>>
  /\ task' = [task EXCEPT ![c] = <<Head(wire[c]), 1>>]
  /\ wire' = [wire EXCEPT ![c] = Tail(@)]
  /\ overlap' = (overlap \/ \E d \in Conns \ {c} : wire[d] # <<>> \/ task[d] # NoTask)
  /\ UNCHANGED <<clientVars, loopVars, link, chan, answers, queue, store, faults, lost>>

\* Mutants of QueueMetric: the queue is not bounded; a metric that finds the queue full
\* is dropped (try_send); a metric is sent again while the connection is broken.
QueueMetricUnbounded(c) ==
  /\ task[c] # NoTask /\ task[c][2] <= Kinds
  /\ queue' = Append(queue, task[c])
  /\ task' = [task EXCEPT ![c] = <<@[1], @[2] + 1>>]
  /\ UNCHANGED <<clientVars, loopVars, linkVars, answers, store, faults, history>>

QueueMetricDropped(c) ==
  /\ task[c] # NoTask /\ task[c][2] <= Kinds
  /\ queue' = IF Len(queue) < QueueCap THEN Append(queue, task[c]) ELSE queue
  /\ task' = [task EXCEPT ![c] = <<@[1], @[2] + 1>>]
  /\ UNCHANGED <<clientVars, loopVars, linkVars, answers, store, faults, history>>

QueueMetricRepeated(c) ==
  /\ task[c] # NoTask /\ task[c][2] <= Kinds /\ Len(queue) < QueueCap
  /\ queue' = Append(queue, task[c])
  /\ task' = IF Broken(c) THEN task ELSE [task EXCEPT ![c] = <<@[1], @[2] + 1>>]
  /\ UNCHANGED <<clientVars, loopVars, linkVars, answers, store, faults, history>>

\* metric_tx.send() waits while the queue is full.
QueueMetric(c) ==
  /\ task[c] # NoTask /\ task[c][2] <= Kinds /\ Len(queue) < QueueCap
  /\ queue' = Append(queue, task[c])
  /\ task' = [task EXCEPT ![c] = <<@[1], @[2] + 1>>]
  /\ UNCHANGED <<clientVars, loopVars, linkVars, answers, store, faults, history>>

\* Mutant of Answer: the task of a broken connection waits for its answer to be read.
AnswerWaiting(c) ==
  /\ task[c] # NoTask /\ task[c][2] > Kinds
  /\ answers[c] = 0 /\ answers' = [answers EXCEPT ![c] = 1]
  /\ task' = [task EXCEPT ![c] = NoTask]
  /\ UNCHANGED <<clientVars, loopVars, linkVars, queue, store, faults, history>>

\* An answer for each message; it waits while the one before has not been read.
Answer(c) ==
  /\ task[c] # NoTask /\ task[c][2] > Kinds
  /\ \/ Broken(c) /\ UNCHANGED answers
     \/ answers[c] = 0 /\ answers' = [answers EXCEPT ![c] = 1]
  /\ task' = [task EXCEPT ![c] = NoTask]
  /\ UNCHANGED <<clientVars, loopVars, linkVars, queue, store, faults, history>>

\* metric_processor: one metric at a time, each under the lock of its own.
StoreMetric ==
  /\ queue # <<>>
  /\ store' = [store EXCEPT ![Head(queue)[2]] = Head(queue)[1]]
  /\ queue' = Tail(queue)
  /\ UNCHANGED <<clientVars, loopVars, linkVars, task, answers, faults, history>>

\* The server stops and starts again, with nothing of what it had.
ServerRestart ==
  /\ faults < MaxFaults
  /\ faults' = faults + 1
  /\ link' = [c \in Conns |-> IF link[c] = "up" THEN "cut" ELSE link[c]]
  /\ wire' = [c \in Conns |-> <<>>]
  /\ task' = [c \in Conns |-> NoTask]
  /\ answers' = [c \in Conns |-> 0]
  /\ queue' = <<>>
  /\ store' = [k \in 1..Kinds |-> 0]
  /\ lost' = lost \cup UNION {Numbers(wire[c]) : c \in Conns}
  /\ UNCHANGED <<clientVars, loopVars, chan, overlap>>

----------------------------------------------------------------------------
Init ==
  /\ made = 0 /\ meas = <<>> /\ cpc = "first" /\ hand = 0 /\ sender = 0 /\ offered = <<>>
  /\ lpc = "lock" /\ conn = 0 /\ rpc = "lock" /\ reach = TRUE
  /\ link = [c \in Conns |-> "none"]
  /\ chan = [c \in Conns |-> <<>>] /\ wire = [c \in Conns |-> <<>>]
  /\ task = [c \in Conns |-> NoTask] /\ answers = [c \in Conns |-> 0]
  /\ queue = <<>> /\ store = [k \in 1..Kinds |-> 0]
  /\ faults = 0 /\ lost = {} /\ overlap = FALSE

Composer == MakeBatch \/ TakeSender \/ TakeBatch \/ SendBatch
Loops ==
  \/ LockForMetrics \/ GetForMetrics \/ Offer \/ CallAnswered \/ CallFails
  \/ ReadAnswer \/ ResponsesEnd \/ LockForRegister \/ GetForRegister \/ RegisterAgain
Network ==
  \/ Reach
  \/ \E c \in Conns : Transmit(c) \/ Break(c) \/ DropRequest(c) \/ DropStream(c)
Server ==
  \/ StoreMetric \/ ServerRestart
  \/ \E c \in Conns : ReadMessage(c) \/ QueueMetric(c) \/ Answer(c)

Next == Composer \/ Loops \/ Network \/ Server

Spec == Init /\ [][Next]_vars

\* Every task that can go on does so; tokio's mutex serves those that wait in turn.
Fairness ==
  /\ WF_vars(TakeSender) /\ WF_vars(TakeBatch) /\ WF_vars(SendBatch)
  /\ SF_vars(LockForMetrics) /\ WF_vars(GetForMetrics) /\ WF_vars(GetForRegister)
  /\ WF_vars(Offer) /\ WF_vars(CallAnswered) /\ WF_vars(ReadAnswer) /\ WF_vars(ResponsesEnd)
  /\ \A c \in Conns :
       /\ WF_vars(Transmit(c)) /\ WF_vars(DropRequest(c))
       /\ WF_vars(ReadMessage(c)) /\ WF_vars(QueueMetric(c)) /\ WF_vars(Answer(c))
  /\ WF_vars(StoreMetric)

FairSpec == Spec /\ Fairness

----------------------------------------------------------------------------
(* Properties. *)

\* The types, part by part: the composer, the loops of the client, the connections and
\* the server.
ClientTypeOK ==
  /\ made \in 0..MaxBatches
  /\ meas \in Seq(1..MaxBatches) /\ Len(meas) <= MeasCap
  /\ cpc \in {"first", "recv", "swap", "send"}
  /\ hand \in IF cpc \in {"swap", "send"} THEN 1..MaxBatches ELSE {0}
  /\ sender \in IF cpc = "first" THEN {0} ELSE Conns
  /\ offered \in Seq(Conns) /\ Len(offered) <= 1

LoopTypeOK ==
  /\ lpc \in {"lock", "get", "offer", "call", "read"}
  /\ conn \in 0..MaxFaults + 1 /\ (lpc \in {"offer", "call", "read"} => conn \in Conns)
  /\ rpc \in {"lock", "get", "follow"} /\ reach \in BOOLEAN

LinkTypeOK ==
  /\ link \in [Conns -> {"none", "made", "up", "cut", "gone"}]
  /\ chan \in [Conns -> Seq(1..MaxBatches)] /\ \A c \in Conns : Len(chan[c]) <= 1
  /\ wire \in [Conns -> Seq(1..MaxBatches)] /\ \A c \in Conns : Len(wire[c]) <= WireCap

ServerTypeOK ==
  /\ task \in [Conns -> {NoTask} \cup ((1..MaxBatches) \X (1..Kinds + 1))]
  /\ answers \in [Conns -> 0..1]
  /\ queue \in Seq((1..MaxBatches) \X (1..Kinds)) /\ Len(queue) <= QueueCap
  /\ store \in [1..Kinds -> 0..MaxBatches]

\* The types of the variables, and the capacities of the channels.
TypeOK ==
  /\ ClientTypeOK /\ LoopTypeOK /\ LinkTypeOK /\ ServerTypeOK
  /\ faults \in 0..MaxFaults /\ lost \subseteq 1..MaxBatches /\ overlap \in BOOLEAN

\* The metrics of a batch become visible one by one (the lock is released after each),
\* but as long as the server works for one connection of the client at a time, a reader
\* of the map sees metrics of two batches at most, the later one's first.
TornBetweenTwo ==
  ~overlap => \A k \in 1..Kinds :
    /\ store[k] \in {store[1], store[Kinds]}
    /\ \A j \in 1..k : store[j] >= store[k]

\* ... and no metric of the map is ever replaced by an older one.
NeverOlder ==
  [][~overlap' => \/ store' = [k \in 1..Kinds |-> 0]
                  \/ \A k \in 1..Kinds : store'[k] >= store[k]]_vars

\* A connection that ends costs what it held, what its channel held, and the one batch
\* that the composer had in its hand; the test of is_closed() sees to all that follow.
LossBounded ==
  Cardinality(lost) <= Cardinality({c \in Conns : Broken(c)}) * (WireCap + 2)

\* The metrics that have been made, and neither lost nor stored.
InPipe ==
  LET rest(c) == {<<task[c][1], k>> : k \in IF task[c] = NoTask THEN {} ELSE task[c][2]..Kinds}
      batches == Numbers(meas) \cup ({hand} \ {0})
                 \cup UNION {Numbers(chan[c]) \cup Numbers(wire[c]) : c \in Conns}
  IN  (batches \X (1..Kinds)) \cup ToSet(queue) \cup UNION {rest(c) : c \in Conns}

Promise == INSTANCE MetricStore WITH pending <- InPipe

\* The way of the metrics, with its connections, tasks and failures, does what MetricStore
\* says: a metric is stored at most once, and never before it was made.
StoredAtMostOnce == Promise!Spec

\* No two tasks wait for each other for ever, the mutex of the client included: when the
\* server can be reached at last, every batch leaves the pipe (there are MaxBatches at
\* most), and the controller is not held up for good.
PipeDrains == <>[]reach => <>[](InPipe = {})
=============================================================================
