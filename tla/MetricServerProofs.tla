------------------------- MODULE MetricServerProofs -------------------------
(***************************************************************************)
(* What the server makes of the metrics of a client, for any number of     *)
(* batches, kinds, failures and any capacities of the channels: the order  *)
(* in which it stores them while it works for one connection at a time,    *)
(* and how many batches the connections that break may lose.               *)
(***************************************************************************)
EXTENDS MetricPipelineProofs

----------------------------------------------------------------------------
(* The order of the metrics at the server. *)

\* The metric m was stored last: those of its batch up to it, and of one before after it.
StoreAt(m) ==
  /\ \A j \in 1..m[2] : store[j] = m[1]
  /\ \E p \in 0..m[1] : \A j \in m[2] + 1..Kinds : store[j] = p

\* y comes after x, and nothing in between.
Follows(x, y) ==
  \/ y[1] = x[1] /\ y[2] = x[2] + 1
  \/ y[1] > x[1] /\ x[2] = Kinds /\ y[2] = 1

\* The metric queued last, if m was stored last.
Newest(m) == IF queue = <<>> THEN m ELSE queue[Len(queue)]

\* m was stored last, and the metrics of the queue follow it one after the other.
InLine(m) ==
  /\ StoreAt(m)
  /\ queue # <<>> => Follows(m, queue[1])
  /\ \A i \in 1..Len(queue) : i < Len(queue) => Follows(queue[i], queue[i + 1])

\* What the server may still read.
Way(c) == Numbers(wire[c]) \cup (IF Broken(c) THEN {} ELSE Numbers(chan[c]))
Coming == Held \cup UNION {Way(c) : c \in Conns}

\* A metric that is stored, or one of the empty map.
Metric == (0..MaxBatches) \X (1..Kinds)

\* One task works at a time, on the batch before all that are coming.
OneTask ==
  /\ \A c, d \in Conns : task[c] # NoTask /\ task[d] # NoTask => c = d
  /\ \A c \in Conns : task[c] # NoTask => \A y \in Coming : task[c][1] < y

\* The metrics are stored and queued one after the other, m being the one stored last.
Line(m) ==
  /\ m[1] <= made /\ InLine(m)
  /\ \A y \in Coming : Newest(m)[1] < y
  /\ \A c \in Conns : task[c] # NoTask => Follows(Newest(m), task[c])
  /\ (\A c \in Conns : task[c] = NoTask) => Newest(m)[2] = Kinds

\* All this as long as the server has not worked for two connections at once.
OneByOne == ~overlap => OneTask /\ \E m \in Metric : Line(m)

----------------------------------------------------------------------------
(* What is coming. *)

\* What is coming is upstream of the server.
LEMMA ComingUpstream ==
  ASSUME PlaceInv
  PROVE  /\ Coming \subseteq Upstream /\ \A y \in Coming : y \in Nat \ {0}
<1>1. Coming \subseteq Upstream
  <2>1. \A c \in Conns : Way(c) \subseteq Sent(c)
    BY DEF Way, Sent
  <2> QED
    BY <2>1 DEF Coming, Upstream
<1>2. ASSUME NEW y \in Coming PROVE y \in Nat \ {0}
  <2>1. meas \in Seq(1..MaxBatches) /\ hand \in Nat
    BY Typed DEF PlaceInv
  <2>2. Numbers(meas) \subseteq 1..MaxBatches
    BY <2>1, NatSeq
  <2>3. \A c \in Conns : Numbers(wire[c]) \subseteq 1..MaxBatches /\ Numbers(chan[c]) \subseteq 1..MaxBatches
    BY Typed, NatSeq DEF PlaceInv
  <2>4. 1..MaxBatches \subseteq Nat \ {0}
    BY BoundAssumption
  <2>5. CASE y \in Held
    BY <2>1, <2>2, <2>4, <2>5 DEF Held
  <2>6. CASE \E c \in Conns : y \in Way(c)
    BY <2>3, <2>4, <2>6 DEF Way
  <2> QED
    BY <1>2, <2>5, <2>6 DEF Coming
<1> QED
  BY <1>1, <1>2

\* A step that puts nothing on its way and mends no connection.
LEMMA ComingLess ==
  ASSUME Held' \subseteq Held,
         \A c \in Conns : /\ Numbers(wire'[c]) \subseteq Numbers(wire[c])
                          /\ Numbers(chan'[c]) \subseteq Numbers(chan[c])
                          /\ Broken(c) => Broken(c)'
  PROVE  Coming' \subseteq Coming
<1>1. \A c \in Conns : Way(c)' \subseteq Way(c)
  BY DEF Way
<1> QED
  BY <1>1 DEF Coming

\* A broken connection stays broken.
LEMMA BrokenStays ==
  ASSUME PlaceInv, [Next]_vars, NEW c \in Conns, Broken(c)
  PROVE  Broken(c)'
<1> USE DEF PlaceInv, LinkInv, TypeOK
<1>1. link \in [Conns -> {"none", "made", "up", "cut", "gone"}]
  BY DEF LinkTypeOK
<1>2. link[c] \in {"cut", "gone"}
  BY DEF Broken
<1>3. CASE link' = link
  BY <1>2, <1>3 DEF Broken
<1>4. CASE GetForMetrics
  <2>1. conn + 1 \in Conns => link[conn + 1] = "none"
    BY Typed DEF Linked, Conns
  <2>2. link' = [link EXCEPT ![conn + 1] = "made"]
    BY <1>4 DEF GetForMetrics
  <2>3. c # conn + 1
    BY <1>2, <2>1
  <2> QED
    BY <1>1, <1>2, <2>2, <2>3 DEF Broken
<1>5. CASE CallAnswered
  <2>1. link[conn] = "made" /\ link' = [link EXCEPT ![conn] = "up"]
    BY <1>5 DEF CallAnswered, Linked
  <2> QED
    BY <1>1, <1>2, <2>1 DEF Broken
<1>6. CASE CallFails
  <2>1. link' = [link EXCEPT ![conn] = "gone"]
    BY <1>6 DEF CallFails
  <2> QED
    BY <1>1, <1>2, <2>1 DEF Broken
<1>7. CASE \E d \in Conns : Break(d) \/ DropRequest(d)
  <2>1. PICK d \in Conns : Break(d) \/ DropRequest(d)
    BY <1>7
  <2>2. link' = [link EXCEPT ![d] = "cut"] \/ link' = [link EXCEPT ![d] = "gone"]
    BY <2>1 DEF Break, DropRequest
  <2> QED
    BY <1>1, <1>2, <2>2 DEF Broken
<1>8. CASE ServerRestart
  <2>1. link' = [d \in Conns |-> IF link[d] = "up" THEN "cut" ELSE link[d]]
    BY <1>8 DEF ServerRestart
  <2> QED
    BY <1>2, <2>1 DEF Broken
<1>9. [Next]_vars => \/ link' = link \/ GetForMetrics \/ CallAnswered \/ CallFails
                     \/ (\E d \in Conns : Break(d) \/ DropRequest(d)) \/ ServerRestart
  BY DEF Next, Composer, Loops, Network, Server, MakeBatch, TakeSender, TakeBatch, SendBatch,
         LockForMetrics, Offer, ReadAnswer, ResponsesEnd, LockForRegister, GetForRegister,
         RegisterAgain, Reach, Transmit, DropStream, StoreMetric, ReadMessage, QueueMetric, Answer,
         vars, linkVars
<1> QED
  BY <1>3, <1>4, <1>5, <1>6, <1>7, <1>8, <1>9

\* Only a new batch is new to what is coming.
LEMMA ComingStep ==
  ASSUME PlaceInv, [Next]_vars
  PROVE  /\ Coming' \subseteq Coming \cup {made + 1}
         /\ made' = made => Coming' \subseteq Coming
<1> USE DEF PlaceInv, LinkInv, TypeOK
<1>1. \A c \in Conns : Broken(c) => Broken(c)'
  BY BrokenStays
<1>2. CASE MakeBatch
  <2>1. made' = made + 1 /\ UNCHANGED <<link, wire, chan>> /\ Held' = Held \cup {made + 1}
    <3>1. meas' = Append(meas, made + 1) /\ UNCHANGED <<hand, link, wire, chan>> /\ made' = made + 1
      BY <1>2 DEF MakeBatch, linkVars
    <3>2. Numbers(meas') = Numbers(meas) \cup {made + 1}
      <4>1. made + 1 \in Nat /\ meas \in Seq(Nat)
        BY Typed
      <4> QED
        BY <3>1, <4>1, MembersAppend DEF Numbers
    <3> QED
      BY <3>1, <3>2 DEF Held
  <2>2. Coming' = Coming \cup {made + 1}
    <3>1. \A c \in Conns : Way(c)' = Way(c)
      BY <2>1 DEF Way, Broken
    <3> QED
      BY <2>1, <3>1 DEF Coming
  <2>3. made' # made
    BY <2>1, Typed
  <2> QED
    BY <2>2, <2>3
<1>3. CASE TakeBatch
  <2>1. Held' = Held /\ UNCHANGED <<link, wire, chan>>
    BY <1>3, TakeBatchOrdered DEF TakeBatch, linkVars
  <2> QED
    BY <2>1, ComingLess DEF Broken
<1>4. CASE SendBatch
  <2>1. /\ UNCHANGED <<sender, meas, link, wire>> /\ hand' = 0 /\ sender \in Conns
        /\ hand \in Nat \ {0}
    BY <1>4, BoundAssumption DEF SendBatch, ClientTypeOK
  <2>2. hand \in Held /\ Held' \subseteq Held
    BY <2>1 DEF Held
  <2>3. \A c \in Conns : Numbers(chan'[c]) \subseteq Numbers(chan[c]) \cup {hand}
    <3>1. PICK s : s = <<hand>>
      OBVIOUS
    <3>2. Numbers(s) = {hand}
      BY <2>1, <3>1, MembersOne DEF Numbers
    <3>3. chan' = chan \/ chan' = [chan EXCEPT ![sender] = s]
      BY <1>4, <3>1 DEF SendBatch
    <3>4. \A c \in Conns : chan'[c] \in {chan[c], s}
      BY <2>1, <3>3 DEF LinkTypeOK
    <3> QED
      BY <3>2, <3>4
  <2>4. Coming' \subseteq Coming
    <3>1. \A c \in Conns : Way(c)' \subseteq Way(c) \cup {hand}
      BY <1>1, <2>1, <2>3 DEF Way
    <3> QED
      BY <2>2, <3>1 DEF Coming
  <2> QED
    BY <2>4
<1>5. CASE \E c \in Conns : Transmit(c)
  <2>1. PICK c \in Conns : Transmit(c)
    BY <1>5
  <2>2. /\ \A d \in Conns : Sent(d)' = Sent(d)
        /\ UNCHANGED <<meas, hand, link>> /\ ~Broken(c)
    BY <2>1, TransmitOrdered DEF Transmit, clientVars, Broken
  <2>3. \A d \in Conns \ {c} : wire'[d] = wire[d] /\ chan'[d] = chan[d]
    BY <2>1 DEF Transmit, LinkTypeOK
  <2>4. Held' = Held
    BY <2>2 DEF Held
  <2>5. \A d \in Conns : Way(d)' \subseteq Way(d)
    <3>1. Way(c) = Sent(c) /\ Way(c)' \subseteq Sent(c)'
      BY <2>2 DEF Way, Sent
    <3>2. ASSUME NEW d \in Conns \ {c} PROVE Way(d)' \subseteq Way(d)
      BY <1>1, <2>3 DEF Way
    <3> QED
      BY <2>2, <3>1, <3>2
  <2> QED
    BY <2>4, <2>5 DEF Coming
<1>6. CASE CallFails \/ ServerRestart \/ \E c \in Conns : DropRequest(c) \/ DropStream(c) \/ ReadMessage(c)
  <2>1. Held' = Held
    BY <1>6 DEF CallFails, ServerRestart, DropRequest, DropStream, ReadMessage, clientVars, Held
  <2>2. ASSUME NEW d \in Conns
        PROVE Numbers(wire'[d]) \subseteq Numbers(wire[d]) /\ Numbers(chan'[d]) \subseteq Numbers(chan[d])
    <3>1. CASE chan'[d] \in {chan[d], <<>>} /\ wire'[d] \in {wire[d], <<>>}
      BY <3>1, MembersEmpty DEF Numbers
    <3>2. CASE wire[d] # <<>> /\ wire'[d] = Tail(wire[d]) /\ chan'[d] = chan[d]
      BY <3>2, Typed, MembersHead DEF Numbers
    <3>3. CASE CallFails
      BY <3>1, <3>3 DEF CallFails, LinkTypeOK, LoopTypeOK
    <3>4. CASE ServerRestart
      BY <3>1, <3>4 DEF ServerRestart
    <3>5. CASE \E c \in Conns : DropRequest(c)
      BY <3>1, <3>5 DEF DropRequest, LinkTypeOK
    <3>6. CASE \E c \in Conns : DropStream(c)
      BY <3>1, <3>6 DEF DropStream, LinkTypeOK
    <3>7. CASE \E c \in Conns : ReadMessage(c)
      BY <3>1, <3>2, <3>7 DEF ReadMessage, LinkTypeOK
    <3> QED
      BY <1>6, <3>3, <3>4, <3>5, <3>6, <3>7
  <2> QED
    BY <1>1, <2>1, <2>2, ComingLess
<1>7. CASE UNCHANGED <<meas, hand, wire, chan>>
  <2>1. Held' = Held
    BY <1>7 DEF Held
  <2> QED
    BY <1>1, <1>7, <2>1, ComingLess
<1>8. [Next]_vars => \/ MakeBatch \/ TakeBatch \/ SendBatch \/ (\E c \in Conns : Transmit(c))
                     \/ CallFails \/ ServerRestart
                     \/ (\E c \in Conns : DropRequest(c) \/ DropStream(c) \/ ReadMessage(c))
                     \/ UNCHANGED <<meas, hand, wire, chan>>
  BY DEF Next, Composer, Loops, Network, Server, TakeSender,
         LockForMetrics, GetForMetrics, Offer, CallAnswered, ReadAnswer, ResponsesEnd,
         LockForRegister, GetForRegister, RegisterAgain, Reach, Break, StoreMetric,
         QueueMetric, Answer, vars, clientVars, linkVars
<1> QED
  BY <1>2, <1>3, <1>4, <1>5, <1>6, <1>7, <1>8

----------------------------------------------------------------------------
(* One task at a time. *)

\* What is known of the server between two metrics.
ServerInv == PlaceInv /\ OneByOne

\* The metric queued last is one that was made.
LEMMA NewestQueued ==
  ASSUME PlaceInv, queue # <<>>, NEW m
  PROVE  Newest(m)[1] \in Nat /\ Newest(m)[1] <= made
<1>1. Len(queue) \in 1..Len(queue)
  BY TypedServer, MembersHead DEF PlaceInv
<1>2. PICK q : q = queue[Len(queue)]
  OBVIOUS
<1>3. q \in ToSet(queue)
  BY <1>1, <1>2, TypedServer, Members DEF PlaceInv
<1>4. q[1] \in Nat /\ q[1] <= made
  BY <1>3, TypedServer DEF PlaceInv, OnePlace
<1> QED
  BY <1>2, <1>4 DEF Newest

\* ... or the one stored last.
LEMMA NewestTyped ==
  ASSUME PlaceInv, NEW m \in Metric
  PROVE  Newest(m)[1] \in Nat
<1>1. m[1] \in Nat
  BY BoundAssumption DEF Metric
<1>2. CASE queue = <<>>
  BY <1>1, <1>2 DEF Newest
<1>3. CASE queue # <<>>
  BY <1>3, NewestQueued
<1> QED
  BY <1>2, <1>3

\* ... and so is its kind.
LEMMA NewestKind ==
  ASSUME PlaceInv, NEW m \in Metric
  PROVE  Newest(m)[2] \in Nat
<1>1. m[2] \in Nat
  BY BoundAssumption DEF Metric
<1>2. CASE queue = <<>>
  BY <1>1, <1>2 DEF Newest
<1>3. CASE queue # <<>>
  <2>1. Len(queue) \in 1..Len(queue)
    BY <1>3, TypedServer, MembersHead DEF PlaceInv
  <2>2. PICK q : q = queue[Len(queue)]
    OBVIOUS
  <2>3. q \in ToSet(queue)
    BY <2>1, <2>2, TypedServer, Members DEF PlaceInv
  <2> QED
    BY <1>3, <2>2, <2>3, TypedServer DEF PlaceInv, Newest
<1> QED
  BY <1>2, <1>3

\* A step that does not touch the server.
LEMMA OneByOneKept ==
  ASSUME ServerInv, [Next]_vars, UNCHANGED <<task, queue, store>>, overlap' = overlap
  PROVE  OneByOne'
<1>1. SUFFICES ASSUME ~overlap', OneTask, NEW m \in Metric, Line(m)
               PROVE  OneTask' /\ Line(m)'
  BY DEF ServerInv, OneByOne
<1>2. made \in Nat /\ (made' = made \/ made' = made + 1)
  <2>1. made' = made \/ made' = made + 1
    BY DEF Next, Composer, Loops, Network, Server, MakeBatch, TakeSender, TakeBatch, SendBatch,
         LockForMetrics, GetForMetrics, Offer, CallAnswered, CallFails, ReadAnswer, ResponsesEnd,
         LockForRegister, GetForRegister, RegisterAgain, Reach, Transmit, Break, DropRequest,
         DropStream, StoreMetric, ServerRestart, ReadMessage, QueueMetric, Answer, vars, clientVars
  <2> QED
    BY <2>1, Typed DEF ServerInv, PlaceInv
<1>3. \A y \in Coming' : y \in Coming \/ y = made + 1
  BY ComingStep DEF ServerInv
<1>4. OneTask'
  <2>1. ASSUME NEW c \in Conns, task[c] # NoTask, NEW y \in Coming' PROVE task[c][1] < y
    <3>1. task[c][1] \in Nat /\ task[c][1] <= made
      BY <2>1, TypedServer DEF ServerInv, PlaceInv, OnePlace
    <3> QED
      BY <1>1, <1>2, <1>3, <2>1, <3>1 DEF OneTask
  <2> QED
    BY <1>1, <2>1 DEF OneTask
<1>5. InLine(m)' /\ Newest(m)' = Newest(m)
  BY <1>1 DEF Line, InLine, StoreAt, Newest
<1>6. m[1] \in Nat /\ m[1] <= made
  BY <1>1 DEF Metric, Line
<1>7. Newest(m)[1] \in Nat /\ Newest(m)[1] <= made
  <2>1. CASE queue = <<>>
    BY <1>6, <2>1 DEF Newest
  <2>2. CASE queue # <<>>
    BY <2>2, NewestQueued DEF ServerInv
  <2> QED
    BY <2>1, <2>2
<1>8. \A y \in Coming' : Newest(m)[1] < y
  BY <1>1, <1>2, <1>3, <1>7 DEF Line
<1> QED
  BY <1>1, <1>2, <1>4, <1>5, <1>6, <1>8 DEF Line

\* What is coming on a connection other than the one that is read, none but the last of
\* which is whole, comes later.
LEMMA ReadMessageComing ==
  ASSUME PlaceInv, NEW c \in Conns, ReadMessage(c), \A d \in Conns \ {c} : wire[d] = <<>>
  PROVE  \A y \in Coming' : task'[c][1] < y
<1> USE DEF PlaceInv, LinkInv
<1>1. PICK h : h = task'[c][1]
  OBVIOUS
<1>2. h \in Sent(c) /\ \A y \in Sent(c)' \cup Held : h < y
  <2>1. wire[c] # <<>> /\ wire[c] \in Seq(Nat) /\ task'[c] = <<Head(wire[c]), 1>>
    BY Typed DEF ReadMessage, TypeOK, ServerTypeOK
  <2>2. PICK n \in Nat : n = Head(wire[c])
    BY <2>1, MembersHead
  <2>3. h \in Numbers(wire[c])
    BY <1>1, <2>1, <2>2, MembersHead DEF Numbers
  <2> QED
    BY <1>1, <2>3, ReadMessageOrdered DEF Sent
<1>3. UNCHANGED <<link, chan, meas, hand>> /\ \A d \in Conns \ {c} : wire'[d] = wire[d]
  BY DEF ReadMessage, clientVars, TypeOK, LinkTypeOK
<1>4. Held' = Held /\ Way(c)' \subseteq Sent(c)'
  BY <1>3 DEF Held, Way, Sent
<1>5. ASSUME NEW d \in Conns \ {c}, NEW y \in Way(d)' PROVE h < y
  <2>1. Way(d)' = IF Broken(d) THEN {} ELSE Numbers(chan[d])
    BY <1>3, MembersEmpty DEF Way, Broken, Numbers
  <2>2. ~Broken(d) /\ y \in Numbers(chan[d])
    BY <1>5, <2>1
  <2>3. chan[d] # <<>> /\ wire[c] # <<>>
    BY <2>2, MembersEmpty DEF Numbers, ReadMessage
  <2>4. d <= sender /\ c <= sender
    <3>1. c \in Nat /\ d \in Nat /\ sender \in Nat
      BY Typed
    <3>2. ~(d > sender) /\ ~(c > sender)
      BY <2>3 DEF Handed
    <3> QED
      BY <3>1, <3>2
  <2>5. sender <= conn
    <3>1. Len(offered) \in Nat /\ sender \in Nat /\ conn \in Nat
      BY Typed DEF TypeOK, ClientTypeOK
    <3>2. PICK e \in 0..1 : e = IF lpc = "offer" THEN 1 ELSE 0
      OBVIOUS
    <3> QED
      BY <3>1, <3>2 DEF Handed
  <2>6. ~(d < conn)
    BY <2>2 DEF Linked
  <2>7. c < d
    BY <2>4, <2>5, <2>6, Typed
  <2>8. y \in Sent(d)
    BY <2>2 DEF Sent
  <2> QED
    BY <1>2, <2>7, <2>8 DEF Ordered
<1>6. ASSUME NEW y \in Coming' PROVE h < y
  <2>1. y \in Held' \/ \E d \in Conns : y \in Way(d)'
    BY <1>6 DEF Coming
  <2> QED
    BY <1>2, <1>4, <1>5, <2>1
<1> QED
  BY <1>1, <1>6

\* A task reads its next batch while no other has one.
LEMMA ReadMessageOne ==
  ASSUME ServerInv, NEW c \in Conns, ReadMessage(c)
  PROVE  OneByOne'
<1>1. SUFFICES ASSUME ~overlap' PROVE OneTask' /\ \E m \in Metric : Line(m)'
  BY DEF OneByOne
<1>2. ~overlap /\ \A d \in Conns \ {c} : wire[d] = <<>> /\ task[d] = NoTask
  BY <1>1 DEF ReadMessage
<1>3. OneTask /\ \E m \in Metric : Line(m)
  BY <1>2 DEF ServerInv, OneByOne
<1>4. PICK m \in Metric : Line(m)
  BY <1>3
<1>5. /\ task[c] = NoTask /\ UNCHANGED <<made, queue, store>>
      /\ \A d \in Conns \ {c} : task'[d] = NoTask
  BY <1>2 DEF ReadMessage, clientVars, ServerInv, PlaceInv, LinkInv, TypeOK, ServerTypeOK
<1>6. PICK h : h = Head(wire[c])
  OBVIOUS
<1>7. task'[c] = <<h, 1>> /\ wire[c] # <<>>
  BY <1>6 DEF ReadMessage, ServerInv, PlaceInv, LinkInv, TypeOK, ServerTypeOK
<1>8. h \in Coming /\ h \in Nat
  <2>1. h \in Nat /\ h \in Numbers(wire[c])
    BY <1>6, <1>7, Typed, MembersHead DEF Numbers, ServerInv, PlaceInv
  <2> QED
    BY <2>1 DEF Coming, Way
<1>9. \A y \in Coming' : h < y
  BY <1>2, <1>7, ReadMessageComing DEF ServerInv
<1>10. task'[c] # NoTask
  <2>1. h # 0
    BY <1>8, ComingUpstream DEF ServerInv
  <2> QED
    BY <1>7, <2>1 DEF NoTask
<1>11. OneTask'
  BY <1>5, <1>7, <1>9 DEF OneTask
<1>12. Newest(m)' = Newest(m) /\ InLine(m)'
  BY <1>4, <1>5 DEF Line, InLine, StoreAt, Newest
<1>13. Newest(m)[1] < h /\ Newest(m)[2] = Kinds
  BY <1>2, <1>4, <1>5, <1>8 DEF Line
<1>14. Newest(m)[1] \in Nat
  BY <1>4, NewestTyped DEF ServerInv
<1>15. \A y \in Coming' : Newest(m)[1] < y
  <2>1. \A y \in Coming' : y \in Coming
    <3>1. made' = made /\ [Next]_vars
      BY <1>5 DEF Next, Server
    <3> QED
      BY <3>1, ComingStep DEF ServerInv
  <2> QED
    BY <1>4, <2>1 DEF Line
<1>16. Follows(Newest(m), task'[c])
  BY <1>7, <1>8, <1>13, <1>14 DEF Follows
<1>17. Line(m)'
  <2>1. m[1] <= made'
    BY <1>4, <1>5 DEF Line
  <2>2. \A d \in Conns : task'[d] # NoTask => Follows(Newest(m), task'[d])
    BY <1>5, <1>16
  <2> QED
    BY <1>10, <1>12, <1>15, <2>1, <2>2 DEF Line
<1> QED
  BY <1>4, <1>11, <1>17

\* The task queues its metric after the one queued last.
LEMMA QueueMetricOne ==
  ASSUME ServerInv, NEW c \in Conns, QueueMetric(c)
  PROVE  OneByOne'
<1>1. SUFFICES ASSUME ~overlap' PROVE OneTask' /\ \E m \in Metric : Line(m)'
  BY DEF OneByOne
<1>2. UNCHANGED <<made, meas, hand, link, wire, chan, store, overlap>>
  BY DEF QueueMetric, clientVars, linkVars, history
<1>3. OneTask /\ \E m \in Metric : Line(m)
  BY <1>1, <1>2 DEF ServerInv, OneByOne
<1>4. PICK m \in Metric : Line(m)
  BY <1>3
<1>5. PICK b \in 1..MaxBatches, k \in 1..Kinds : task[c] = <<b, k>> /\ task[c] # NoTask
  <2>1. task[c] # NoTask /\ task[c][2] <= Kinds
    BY DEF QueueMetric
  <2> QED
    BY <2>1, TypedServer DEF ServerInv, PlaceInv
<1>6. PICK t \in (1..MaxBatches) \X (1..Kinds) : t = <<b, k>> /\ t[1] = b /\ t[2] = k
  <2>1. <<b, k>> \in (1..MaxBatches) \X (1..Kinds)
    OBVIOUS
  <2>2. <<b, k>>[1] = b /\ <<b, k>>[2] = k
    OBVIOUS
  <2> QED
    BY <2>1, <2>2
<1>7. /\ task'[c] = <<b, k + 1>> /\ task'[c] # NoTask
      /\ \A d \in Conns \ {c} : task'[d] = task[d] /\ task[d] = NoTask
  <2>1. \A d \in Conns \ {c} : task[d] = NoTask
    BY <1>3, <1>5 DEF OneTask
  <2> QED
    BY <1>5, <2>1 DEF QueueMetric, NoTask, ServerInv, PlaceInv, LinkInv, TypeOK, ServerTypeOK
<1>8. Coming' = Coming
  <2>1. \A d \in Conns : Way(d)' = Way(d)
    BY <1>2 DEF Way, Broken
  <2> QED
    BY <1>2, <2>1 DEF Coming, Held
<1>9. \A y \in Coming : b < y
  BY <1>3, <1>5 DEF OneTask
<1>10. OneTask'
  <2>1. task'[c][1] = b
    BY <1>7
  <2> QED
    BY <1>7, <1>8, <1>9, <2>1 DEF OneTask
<1>11. PICK Q : Q = (1..MaxBatches) \X (1..Kinds)
  OBVIOUS
<1>12. queue \in Seq(Q) /\ t \in Q /\ queue' = Append(queue, t)
  BY <1>5, <1>6, <1>11, TypedServer DEF QueueMetric, ServerInv, PlaceInv
<1>13. /\ queue' # <<>> /\ Len(queue) \in Nat /\ Len(queue') = Len(queue) + 1
       /\ queue'[Len(queue) + 1] = t
       /\ \A i \in 1..Len(queue) : queue'[i] = queue[i]
  BY <1>12, MembersAppend, Members
<1>14. Newest(m)' = t
  BY <1>13 DEF Newest
<1>15. Follows(Newest(m), t)
  BY <1>4, <1>5, <1>6 DEF Line
<1>16. InLine(m)'
  <2>1. InLine(m)
    BY <1>4 DEF Line
  <2>2. StoreAt(m)'
    BY <1>2, <2>1 DEF InLine, StoreAt
  <2>3. CASE queue = <<>>
    <3>1. Len(queue) = 0
      BY <2>3, MembersEmpty
    <3>2. queue'[1] = t /\ Len(queue') = 1
      BY <1>13, <3>1
    <3>3. Newest(m) = m
      BY <2>3 DEF Newest
    <3> QED
      BY <1>15, <2>2, <3>2, <3>3 DEF InLine
  <2>4. CASE queue # <<>>
    <3>1. Len(queue) \in Nat \ {0} /\ Newest(m) = queue[Len(queue)]
      BY <1>12, <2>4, MembersHead DEF Newest
    <3>2. Follows(m, queue'[1])
      BY <1>13, <2>1, <2>4, <3>1 DEF InLine
    <3>3. ASSUME NEW i \in 1..Len(queue'), i < Len(queue') PROVE Follows(queue'[i], queue'[i + 1])
      <4>1. CASE i = Len(queue)
        BY <1>13, <1>15, <3>1, <4>1
      <4>2. CASE i # Len(queue)
        <5>1. i \in 1..Len(queue) /\ i < Len(queue) /\ i + 1 \in 1..Len(queue)
          BY <1>13, <3>3, <4>2
        <5> QED
          BY <1>13, <2>1, <5>1 DEF InLine
      <4> QED
        BY <4>1, <4>2
    <3> QED
      BY <2>2, <3>2, <3>3 DEF InLine
  <2> QED
    BY <2>3, <2>4
<1>17. Follows(t, task'[c])
  BY <1>6, <1>7 DEF Follows
<1>18. Line(m)'
  <2>1. m[1] <= made'
    BY <1>2, <1>4 DEF Line
  <2>2. \A y \in Coming' : Newest(m)'[1] < y
    BY <1>6, <1>8, <1>9, <1>14
  <2>3. \A d \in Conns : task'[d] # NoTask => Follows(Newest(m)', task'[d])
    BY <1>7, <1>14, <1>17
  <2> QED
    BY <1>7, <1>16, <2>1, <2>2, <2>3 DEF Line
<1> QED
  BY <1>10, <1>18

\* A task that has queued its last metric has done with its batch.
LEMMA AnswerOne ==
  ASSUME ServerInv, NEW c \in Conns, Answer(c)
  PROVE  OneByOne'
<1>1. SUFFICES ASSUME ~overlap' PROVE OneTask' /\ \E m \in Metric : Line(m)'
  BY DEF OneByOne
<1>2. UNCHANGED <<made, meas, hand, link, wire, chan, queue, store, overlap>>
  BY DEF Answer, clientVars, linkVars, history
<1>3. OneTask /\ \E m \in Metric : Line(m)
  BY <1>1, <1>2 DEF ServerInv, OneByOne
<1>4. PICK m \in Metric : Line(m)
  BY <1>3
<1>5. \A d \in Conns : task'[d] = NoTask
  <2>1. \A d \in Conns \ {c} : task[d] = NoTask
    BY <1>3 DEF OneTask, Answer
  <2> QED
    BY <2>1 DEF Answer, ServerInv, PlaceInv, LinkInv, TypeOK, ServerTypeOK
<1>6. Coming' = Coming
  <2>1. \A d \in Conns : Way(d)' = Way(d)
    BY <1>2 DEF Way, Broken
  <2> QED
    BY <1>2, <2>1 DEF Coming, Held
<1>7. Newest(m)[2] = Kinds
  <2>1. task[c][2] = Kinds + 1 /\ Kinds \in Nat \ {0} /\ task[c] # NoTask
    BY TypedServer DEF Answer, ServerInv, PlaceInv
  <2>2. Follows(Newest(m), task[c])
    BY <1>4, <2>1 DEF Line
  <2>3. Newest(m)[2] \in Nat
    BY <1>4, NewestKind DEF ServerInv
  <2> QED
    BY <2>1, <2>2, <2>3 DEF Follows
<1>8. InLine(m)' /\ Newest(m)' = Newest(m)
  BY <1>2, <1>4 DEF Line, InLine, StoreAt, Newest
<1> QED
  BY <1>2, <1>4, <1>5, <1>6, <1>7, <1>8 DEF Line, OneTask

\* The metric stored is the one stored last from then on; no newer one is replaced.
LEMMA StoreMetricOne ==
  ASSUME ServerInv, StoreMetric
  PROVE  /\ OneByOne'
         /\ ~overlap' => \A k \in 1..Kinds : store'[k] >= store[k]
<1>1. SUFFICES ASSUME ~overlap'
               PROVE  /\ OneTask' /\ \E m \in Metric : Line(m)'
                      /\ \A k \in 1..Kinds : store'[k] >= store[k]
  BY DEF OneByOne
<1>2. UNCHANGED <<made, meas, hand, link, wire, chan, task, overlap>>
  BY DEF StoreMetric, clientVars, linkVars, history
<1>3. OneTask /\ \E m \in Metric : Line(m)
  BY <1>1, <1>2 DEF ServerInv, OneByOne
<1>4. PICK m \in Metric : Line(m)
  BY <1>3
<1>5. PICK h : h = Head(queue)
  OBVIOUS
<1>6. PICK Q : Q = (1..MaxBatches) \X (1..Kinds)
  OBVIOUS
<1>7. /\ queue \in Seq(Q) /\ queue # <<>> /\ queue' = Tail(queue)
      /\ Kinds \in Nat \ {0} /\ MaxBatches \in Nat
  BY <1>6, TypedServer, BoundAssumption DEF StoreMetric, ServerInv, PlaceInv
<1>8. /\ h \in Q /\ h = queue[1] /\ Len(queue) \in Nat \ {0} /\ queue' \in Seq(Q)
      /\ Len(queue') = Len(queue) - 1 /\ \A i \in 1..Len(queue') : queue'[i] = queue[i + 1]
  BY <1>5, <1>7, MembersHead
<1>9. h[1] \in 1..MaxBatches /\ h[2] \in 1..Kinds /\ m[1] \in Nat /\ m[2] \in 1..Kinds
  BY <1>4, <1>6, <1>7, <1>8 DEF Metric
<1>10. /\ Follows(m, h) /\ StoreAt(m)
       /\ \A i \in 1..Len(queue) : i < Len(queue) => Follows(queue[i], queue[i + 1])
  BY <1>4, <1>7, <1>8 DEF Line, InLine
<1>11. PICK p \in 0..m[1] : \A j \in m[2] + 1..Kinds : store[j] = p
  BY <1>10 DEF StoreAt
<1>12. \A j \in 1..m[2] : store[j] = m[1]
  BY <1>10 DEF StoreAt
<1>13. /\ \A j \in 1..Kinds : store'[j] = IF j = h[2] THEN h[1] ELSE store[j]
       /\ \A j \in 1..Kinds : store[j] \in Nat
  <2>1. store \in [1..Kinds -> 0..MaxBatches]
    BY DEF ServerInv, PlaceInv, LinkInv, TypeOK, ServerTypeOK
  <2>2. store' = [store EXCEPT ![h[2]] = h[1]]
    BY <1>5 DEF StoreMetric
  <2> QED
    BY <1>7, <2>1, <2>2
<1>14. StoreAt(h)' /\ \A k \in 1..Kinds : store'[k] >= store[k]
  <2>1. CASE h[1] = m[1] /\ h[2] = m[2] + 1
    <3>1. \A j \in 1..h[2] : store'[j] = h[1]
      <4> TAKE j \in 1..h[2]
      <4>1. j \in 1..Kinds /\ (j = h[2] \/ j \in 1..m[2])
        <5>1. h[2] \in Nat /\ m[2] \in Nat /\ h[2] <= Kinds /\ Kinds \in Nat
          BY <1>7, <1>9
        <5>2. PICK a \in Nat, b \in Nat : a = h[2] /\ b = m[2] /\ a = b + 1 /\ a <= Kinds
          BY <2>1, <5>1
        <5>3. j \in 1..a
          BY <5>2
        <5> QED
          BY <5>1, <5>2, <5>3
      <4>2. store'[j] = IF j = h[2] THEN h[1] ELSE store[j]
        BY <1>13, <4>1
      <4> QED
        BY <1>12, <2>1, <4>1, <4>2
    <3>2. \A j \in h[2] + 1..Kinds : store'[j] = p
      BY <1>9, <1>11, <1>13, <2>1
    <3>3. store[h[2]] = p
      BY <1>9, <1>11, <2>1
    <3>4. \A k \in 1..Kinds : store'[k] >= store[k]
      BY <1>9, <1>11, <1>13, <2>1, <3>3
    <3> QED
      BY <1>11, <2>1, <3>1, <3>2, <3>4 DEF StoreAt
  <2>2. CASE h[1] > m[1] /\ m[2] = Kinds /\ h[2] = 1
    <3>1. \A j \in 1..h[2] : store'[j] = h[1]
      BY <1>7, <1>13, <2>2
    <3>2. \A j \in h[2] + 1..Kinds : store'[j] = m[1]
      BY <1>7, <1>12, <1>13, <2>2
    <3>3. \A k \in 1..Kinds : store'[k] >= store[k]
      BY <1>7, <1>9, <1>12, <1>13, <2>2
    <3>4. m[1] \in 0..h[1]
      BY <1>9, <2>2
    <3> QED
      BY <3>1, <3>2, <3>3, <3>4 DEF StoreAt
  <2> QED
    BY <1>10, <2>1, <2>2 DEF Follows
<1>15. InLine(h)'
  <2>1. queue' # <<>> => Follows(h, queue'[1])
    <3> HAVE queue' # <<>>
    <3>1. Len(queue') \in Nat \ {0}
      BY <1>8, MembersHead
    <3>2. 1 \in 1..Len(queue') /\ 1 \in 1..Len(queue) /\ 1 < Len(queue)
      BY <1>8, <3>1
    <3>3. queue'[1] = queue[1 + 1] /\ Follows(queue[1], queue[1 + 1])
      BY <1>8, <1>10, <3>2
    <3> QED
      BY <1>8, <3>3
  <2>2. ASSUME NEW i \in 1..Len(queue'), i < Len(queue') PROVE Follows(queue'[i], queue'[i + 1])
    <3>1. i + 1 \in 1..Len(queue) /\ i + 1 < Len(queue) /\ i + 1 \in 1..Len(queue')
      BY <1>8, <2>2
    <3>2. queue'[i] = queue[i + 1] /\ queue'[i + 1] = queue[i + 1 + 1]
      BY <1>8, <3>1
    <3> QED
      BY <1>10, <3>1, <3>2
  <2> QED
    BY <1>14, <2>1, <2>2 DEF InLine
<1>16. Newest(h)' = Newest(m)
  <2>1. Newest(m) = queue[Len(queue)]
    BY <1>7 DEF Newest
  <2>2. CASE queue' = <<>>
    <3>1. Len(queue) = 1
      BY <1>8, <2>2, MembersEmpty
    <3> QED
      BY <1>8, <2>1, <2>2, <3>1 DEF Newest
  <2>3. CASE queue' # <<>>
    <3>1. Len(queue') \in 1..Len(queue')
      BY <1>8, <2>3, MembersHead
    <3>2. queue'[Len(queue')] = queue[Len(queue') + 1] /\ Len(queue') + 1 = Len(queue)
      BY <1>8, <3>1
    <3> QED
      BY <2>1, <2>3, <3>2 DEF Newest
  <2> QED
    BY <2>2, <2>3
<1>17. h \in Metric /\ h[1] <= made
  <2>1. h \in ToSet(queue)
    BY <1>5, <1>7, MembersHead
  <2>2. h[1] <= made
    BY <2>1 DEF ServerInv, PlaceInv, OnePlace
  <2> QED
    BY <1>6, <1>7, <1>8, <2>2 DEF Metric
<1>18. Coming' = Coming
  <2>1. \A d \in Conns : Way(d)' = Way(d)
    BY <1>2 DEF Way, Broken
  <2> QED
    BY <1>2, <2>1 DEF Coming, Held
<1>19. OneTask'
  BY <1>2, <1>3, <1>18 DEF OneTask
<1>20. Line(h)'
  BY <1>2, <1>4, <1>15, <1>16, <1>17, <1>18 DEF Line
<1> QED
  BY <1>14, <1>17, <1>19, <1>20

\* A server that starts again is before the first batch.
LEMMA RestartOne ==
  ASSUME ServerInv, ServerRestart
  PROVE  OneByOne'
<1>1. PICK m \in Metric : m[1] = 0 /\ m[2] = Kinds
  <2>1. <<0, Kinds>> \in Metric
    BY BoundAssumption DEF Metric
  <2> QED
    BY <2>1
<1>2. /\ queue' = <<>> /\ store' = [k \in 1..Kinds |-> 0] /\ UNCHANGED made
      /\ \A c \in Conns : task'[c] = NoTask
  BY DEF ServerRestart, clientVars
<1>3. \A y \in Coming' : y \in Nat \ {0}
  <2>1. Coming' \subseteq Coming
    BY <1>2, ComingStep DEF ServerInv, Next, Server
  <2> QED
    BY <2>1, ComingUpstream DEF ServerInv
<1>4. InLine(m)'
  <2>1. Len(queue') = 0
    BY <1>2, MembersEmpty
  <2>2. StoreAt(m)'
    <3>1. Kinds \in Nat \ {0}
      BY BoundAssumption
    <3>2. \A j \in 1..m[2] : store'[j] = m[1]
      BY <1>1, <1>2
    <3>3. \A j \in m[2] + 1..Kinds : store'[j] = 0
      BY <1>1, <3>1
    <3>4. 0 \in 0..m[1]
      BY <1>1
    <3> QED
      BY <3>2, <3>3, <3>4 DEF StoreAt
  <2> QED
    BY <1>2, <2>1, <2>2 DEF InLine
<1>5. Newest(m)' = m
  BY <1>2 DEF Newest
<1>6. m[1] <= made'
  BY <1>1, <1>2, Typed DEF ServerInv, PlaceInv
<1>7. \A y \in Coming' : Newest(m)'[1] < y
  BY <1>1, <1>3, <1>5
<1>8. Line(m)'
  BY <1>1, <1>2, <1>4, <1>5, <1>6, <1>7 DEF Line
<1>9. OneTask'
  BY <1>2 DEF OneTask
<1> QED
  BY <1>8, <1>9 DEF OneByOne

\* At the start there is nothing.
LEMMA ServerInit ==
  ASSUME Init
  PROVE  ServerInv
<1>1. PlaceInv
  BY PlaceInit
<1>2. PICK m \in Metric : m[1] = 0 /\ m[2] = Kinds
  <2>1. <<0, Kinds>> \in Metric
    BY BoundAssumption DEF Metric
  <2> QED
    BY <2>1
<1>3. /\ queue = <<>> /\ store = [k \in 1..Kinds |-> 0] /\ made = 0
      /\ \A c \in Conns : task[c] = NoTask
  BY DEF Init
<1>4. InLine(m)
  <2>1. Len(queue) = 0
    BY <1>3, MembersEmpty
  <2>2. StoreAt(m)
    <3>1. Kinds \in Nat \ {0}
      BY BoundAssumption
    <3>2. \A j \in 1..m[2] : store[j] = m[1]
      BY <1>2, <1>3
    <3>3. \A j \in m[2] + 1..Kinds : store[j] = 0
      BY <1>2, <3>1
    <3>4. 0 \in 0..m[1]
      BY <1>2
    <3> QED
      BY <3>2, <3>3, <3>4 DEF StoreAt
  <2> QED
    BY <1>3, <2>1, <2>2 DEF InLine
<1>5. Newest(m) = m
  BY <1>3 DEF Newest
<1>6. \A y \in Coming : Newest(m)[1] < y
  BY <1>1, <1>2, <1>5, ComingUpstream
<1>7. Line(m)
  BY <1>2, <1>3, <1>4, <1>5, <1>6 DEF Line
<1>8. OneTask
  BY <1>3 DEF OneTask
<1> QED
  BY <1>1, <1>7, <1>8 DEF OneByOne, ServerInv

\* Every step keeps the metrics in line.
LEMMA ServerStep ==
  ASSUME ServerInv, [Next]_vars
  PROVE  ServerInv'
<1>1. PlaceInv'
  BY PlaceStep DEF ServerInv
<1>2. UNCHANGED <<task, queue, store, overlap>> => OneByOne'
  BY OneByOneKept
<1>3. StoreMetric \/ ServerRestart => OneByOne'
  BY StoreMetricOne, RestartOne
<1>4. (\E c \in Conns : ReadMessage(c) \/ QueueMetric(c) \/ Answer(c)) => OneByOne'
  BY ReadMessageOne, QueueMetricOne, AnswerOne
<1>5. \/ UNCHANGED <<task, queue, store, overlap>>
      \/ StoreMetric \/ ServerRestart
      \/ \E c \in Conns : ReadMessage(c) \/ QueueMetric(c) \/ Answer(c)
  BY DEF Next, Composer, Loops, Network, Server, MakeBatch, TakeSender, TakeBatch, SendBatch,
         LockForMetrics, GetForMetrics, Offer, CallAnswered, CallFails, ReadAnswer, ResponsesEnd,
         LockForRegister, GetForRegister, RegisterAgain, Reach, Transmit, Break, DropRequest,
         DropStream, vars, serverVars, history
<1>6. OneByOne'
  BY <1>2, <1>3, <1>4, <1>5
<1> QED
  BY <1>1, <1>6 DEF ServerInv

\* The invariant of the server: one task at a time, and the metrics in line.
THEOREM ServerInvariant == Spec => []ServerInv
<1>1. Init => ServerInv
  BY ServerInit
<1>2. ServerInv /\ [Next]_vars => ServerInv'
  BY ServerStep
<1> QED
  BY <1>1, <1>2, PTL DEF Spec

\* The metrics of a batch become visible one by one, but as long as the server works for one
\* connection of the client at a time, a reader of the map sees metrics of two batches at
\* most, the later one's first.
THEOREM ServerTearsInOrder == Spec => []TornBetweenTwo
<1>1. ServerInv => TornBetweenTwo
  <2> SUFFICES ASSUME ServerInv, ~overlap, NEW k \in 1..Kinds
               PROVE  /\ store[k] \in {store[1], store[Kinds]}
                      /\ \A j \in 1..k : store[j] >= store[k]
    BY DEF TornBetweenTwo
  <2>1. PICK m \in Metric : Line(m)
    BY DEF ServerInv, OneByOne
  <2>2. Kinds \in Nat \ {0} /\ m[1] \in Nat /\ m[2] \in 1..Kinds
    BY <2>1, BoundAssumption DEF Metric
  <2>3. StoreAt(m)
    BY <2>1 DEF Line, InLine
  <2>4. PICK p \in 0..m[1] : \A j \in m[2] + 1..Kinds : store[j] = p
    BY <2>3 DEF StoreAt
  <2>5. \A j \in 1..Kinds : store[j] = IF j <= m[2] THEN m[1] ELSE p
    BY <2>2, <2>3, <2>4 DEF StoreAt
  <2>6. store[1] = m[1]
    BY <2>2, <2>5
  <2>7. store[Kinds] = IF m[2] = Kinds THEN m[1] ELSE p
    BY <2>2, <2>5
  <2>8. store[k] \in {store[1], store[Kinds]}
    BY <2>2, <2>5, <2>6, <2>7
  <2>9. ASSUME NEW j \in 1..k PROVE store[j] >= store[k]
    <3>1. j \in 1..Kinds /\ j <= k
      BY <2>2
    <3> QED
      BY <2>2, <2>4, <2>5, <3>1
  <2> QED
    BY <2>8, <2>9
<1> QED
  BY <1>1, ServerInvariant, PTL

\* No metric of the map is replaced by an older one, unless the server works for two
\* connections of the client at once.
THEOREM ServerNeverGoesBack == Spec => NeverOlder
<1>1. ServerInv /\ [Next]_vars =>
        [~overlap' => \/ store' = [k \in 1..Kinds |-> 0]
                      \/ \A k \in 1..Kinds : store'[k] >= store[k]]_vars
  <2> SUFFICES ASSUME ServerInv, [Next]_vars, ~overlap'
               PROVE  \/ store' = [k \in 1..Kinds |-> 0]
                      \/ \A k \in 1..Kinds : store'[k] >= store[k]
    OBVIOUS
  <2>1. CASE StoreMetric
    BY <2>1, StoreMetricOne
  <2>2. CASE ServerRestart
    BY <2>2 DEF ServerRestart
  <2>3. CASE UNCHANGED store
    <3>1. \A k \in 1..Kinds : store[k] \in Nat
      BY BoundAssumption DEF ServerInv, PlaceInv, LinkInv, TypeOK, ServerTypeOK
    <3> QED
      BY <2>3, <3>1
  <2>4. StoreMetric \/ ServerRestart \/ UNCHANGED store
    BY DEF Next, Composer, Loops, Network, Server, MakeBatch, TakeSender, TakeBatch, SendBatch,
         LockForMetrics, GetForMetrics, Offer, CallAnswered, CallFails, ReadAnswer, ResponsesEnd,
         LockForRegister, GetForRegister, RegisterAgain, Reach, Transmit, Break, DropRequest,
         DropStream, ReadMessage, QueueMetric, Answer, vars, serverVars
  <2> QED
    BY <2>1, <2>2, <2>3, <2>4
<1> QED
  BY <1>1, ServerInvariant, PTL DEF Spec, NeverOlder

----------------------------------------------------------------------------
(* What may be lost. *)

\* The batches that broken connections have lost or may lose yet: what they have, and what
\* the composer is about to give to one.
Risk(c) == IF Broken(c) THEN Sent(c) ELSE {}
InHand == IF cpc = "send" /\ Broken(sender) THEN {hand} ELSE {}
AtRisk == lost \cup InHand \cup UNION {Risk(c) : c \in Conns}

\* How many more the composer may give to its connection.
Room == (IF chan[sender] = <<>> THEN 1 ELSE 0) + (IF cpc = "send" THEN 0 ELSE 1)

\* ... once that is cut.
Slots == IF sender \in Conns /\ link[sender] = "cut" THEN Room ELSE 0

\* The broken connections that the composer has had.
Spent == IF sender = 0 \/ Broken(sender) THEN sender ELSE sender - 1

\* Every connection spent costs what it held, what its channel held, and one more.
RiskBounded == Cardinality(AtRisk) + Slots <= Spent * (WireCap + 2)

\* The invariant of the losses.
LossInv == PlaceInv /\ RiskBounded

----------------------------------------------------------------------------
(* Numbers of batches. *)

\* A sequence has at most as many members as its length says.
LEMMA CardNumbers ==
  ASSUME NEW S, NEW s \in Seq(S)
  PROVE  IsFiniteSet(Numbers(s)) /\ Cardinality(Numbers(s)) \in Nat /\ Cardinality(Numbers(s)) <= Len(s)
<1>1. Len(s) \in Nat /\ Numbers(s) = {s[i] : i \in 1..Len(s)}
  BY Members DEF Numbers
<1>2. PICK f : f = [i \in 1..Len(s) |-> s[i]]
  OBVIOUS
<1>3. f \in Surjection(1..Len(s), Numbers(s))
  BY <1>1, <1>2 DEF Surjection
<1>4. IsFiniteSet(1..Len(s)) /\ Cardinality(1..Len(s)) = Len(s)
  BY <1>1, FS_Interval
<1>5. IsFiniteSet(Numbers(s)) /\ Cardinality(Numbers(s)) <= Len(s)
  BY <1>3, <1>4, FS_Surjection
<1> QED
  BY <1>5, FS_CardinalityType

\* The union of two sets has at most as many members as both together.
LEMMA CardUnion ==
  ASSUME NEW S, IsFiniteSet(S), NEW T, IsFiniteSet(T)
  PROVE  /\ IsFiniteSet(S \cup T) /\ Cardinality(S \cup T) \in Nat
         /\ Cardinality(S) \in Nat /\ Cardinality(T) \in Nat
         /\ Cardinality(S \cup T) <= Cardinality(S) + Cardinality(T)
<1>1. IsFiniteSet(S \cup T) /\ IsFiniteSet(S \cap T)
  BY FS_Union, FS_Intersection
<1>2. Cardinality(S \cup T) = Cardinality(S) + Cardinality(T) - Cardinality(S \cap T)
  BY FS_Union
<1>3. /\ Cardinality(S \cup T) \in Nat /\ Cardinality(S) \in Nat /\ Cardinality(T) \in Nat
      /\ Cardinality(S \cap T) \in Nat
  BY <1>1, FS_CardinalityType
<1> QED
  BY <1>1, <1>2, <1>3

\* A finite part of a set.
LEMMA CardPart ==
  ASSUME NEW T, IsFiniteSet(T), NEW S, S \subseteq T
  PROVE  /\ IsFiniteSet(S) /\ Cardinality(S) \in Nat /\ Cardinality(T) \in Nat
         /\ Cardinality(S) <= Cardinality(T)
BY FS_Subset, FS_CardinalityType

\* More connections, more losses.
LEMMA MoreTimes ==
  ASSUME NEW a \in Nat, NEW b \in Nat, a <= b, NEW w \in Nat
  PROVE  a * w <= b * w /\ (a + 1) * w = a * w + w /\ a * w \in Nat /\ b * w \in Nat
<1>1. PICK d \in Nat : b = a + d
  <2>1. b - a \in Nat /\ b = a + (b - a)
    OBVIOUS
  <2> QED
    BY <2>1
<1>2. b * w = a * w + d * w
  BY <1>1
<1>3. a * w \in Nat /\ d * w \in Nat /\ b * w \in Nat
  OBVIOUS
<1>4. (a + 1) * w = a * w + w
  OBVIOUS
<1> QED
  BY <1>2, <1>3, <1>4

\* The types of what the bound is made of.
LEMMA TypedRisk ==
  ASSUME PlaceInv
  PROVE  /\ AtRisk \subseteq 1..MaxBatches
         /\ IsFiniteSet(AtRisk) /\ Cardinality(AtRisk) \in Nat
         /\ Slots \in 0..2 /\ Spent \in Nat /\ Room \in 0..2 /\ WireCap \in Nat /\ sender \in Nat
<1> USE DEF PlaceInv, LinkInv, TypeOK
<1>1. AtRisk \subseteq 1..MaxBatches
  <2>1. \A c \in Conns : Sent(c) \subseteq 1..MaxBatches
    BY Typed, NatSeq DEF Sent
  <2>2. InHand \subseteq 1..MaxBatches
    BY DEF InHand, ClientTypeOK
  <2>3. \A c \in Conns : Risk(c) \subseteq 1..MaxBatches
    BY <2>1 DEF Risk
  <2>4. lost \subseteq 1..MaxBatches
    OBVIOUS
  <2> QED
    BY <2>2, <2>3, <2>4 DEF AtRisk
<1>2. IsFiniteSet(1..MaxBatches)
  BY BoundAssumption, FS_Interval
<1>3. IsFiniteSet(AtRisk) /\ Cardinality(AtRisk) \in Nat
  BY <1>1, <1>2, CardPart
<1>4. Room \in 0..2
  BY DEF Room
<1>5. Slots \in 0..2
  BY <1>4 DEF Slots
<1>6. sender \in Nat
  BY Typed
<1>7. Spent \in Nat
  BY <1>6 DEF Spent
<1> QED
  BY <1>1, <1>3, <1>4, <1>5, <1>6, <1>7, BoundAssumption

\* ... which hold in every state,
LEMMA TypedRiskAlways == PlaceInv => Cardinality(AtRisk) \in Nat /\ Slots \in 0..2
BY TypedRisk

\* ... and after a step.
LEMMA TypedRiskNext == PlaceInv' => (Cardinality(AtRisk) \in Nat /\ Slots \in 0..2)'
BY TypedRiskAlways, PTL

\* A step that puts no more at risk than the room that it takes.
LEMMA RiskSame ==
  ASSUME LossInv, PlaceInv', Spent' = Spent, NEW X, IsFiniteSet(X), AtRisk' \subseteq AtRisk \cup X,
         Cardinality(X) + Slots' <= Slots
  PROVE  RiskBounded'
<1>1. PICK w \in Nat : w = Spent * (WireCap + 2)
  BY TypedRisk, MoreTimes DEF LossInv
<1>2. Cardinality(AtRisk) + Slots <= w /\ Spent' * (WireCap + 2) = w
  BY <1>1 DEF LossInv, RiskBounded
<1>3. IsFiniteSet(AtRisk) /\ Cardinality(AtRisk) \in Nat /\ Slots \in 0..2
  BY TypedRisk DEF LossInv
<1>4. Cardinality(AtRisk') \in Nat /\ Slots' \in 0..2
  BY TypedRiskNext
<1>5. /\ IsFiniteSet(AtRisk \cup X) /\ Cardinality(AtRisk \cup X) <= Cardinality(AtRisk) + Cardinality(X)
      /\ Cardinality(X) \in Nat /\ Cardinality(AtRisk \cup X) \in Nat
  BY <1>3, CardUnion
<1>6. Cardinality(AtRisk') <= Cardinality(AtRisk \cup X)
  BY <1>5, CardPart
<1>7. Cardinality(AtRisk') + Slots' <= w
  BY <1>2, <1>3, <1>4, <1>5, <1>6
<1> QED
  BY <1>2, <1>7 DEF RiskBounded

\* A step that spends one more connection.
LEMMA RiskMore ==
  ASSUME LossInv, PlaceInv', Spent' = Spent + 1, NEW X, IsFiniteSet(X),
         AtRisk' \subseteq AtRisk \cup X, Cardinality(X) + Slots' <= WireCap + 2
  PROVE  RiskBounded'
<1>1. PICK w \in Nat : w = Spent * (WireCap + 2)
  BY TypedRisk, MoreTimes DEF LossInv
<1>2. Cardinality(AtRisk) + Slots <= w /\ Spent' * (WireCap + 2) = w + (WireCap + 2)
  <2>1. (Spent + 1) * (WireCap + 2) = Spent * (WireCap + 2) + (WireCap + 2)
    BY TypedRisk, MoreTimes DEF LossInv
  <2> QED
    BY <1>1, <2>1 DEF LossInv, RiskBounded
<1>3. IsFiniteSet(AtRisk) /\ Cardinality(AtRisk) \in Nat /\ Slots \in 0..2 /\ WireCap \in Nat
  BY TypedRisk DEF LossInv
<1>4. Cardinality(AtRisk') \in Nat /\ Slots' \in 0..2
  BY TypedRiskNext
<1>5. /\ IsFiniteSet(AtRisk \cup X) /\ Cardinality(AtRisk \cup X) <= Cardinality(AtRisk) + Cardinality(X)
      /\ Cardinality(X) \in Nat /\ Cardinality(AtRisk \cup X) \in Nat
  BY <1>3, CardUnion
<1>6. Cardinality(AtRisk') <= Cardinality(AtRisk \cup X)
  BY <1>5, CardPart
<1>7. Cardinality(AtRisk') + Slots' <= w + (WireCap + 2)
  BY <1>2, <1>3, <1>4, <1>5, <1>6
<1> QED
  BY <1>2, <1>7 DEF RiskBounded

\* What the composer's connection has and may still get, when it breaks.
LEMMA BreakRisk ==
  ASSUME PlaceInv, sender \in Conns
  PROVE  LET X == Sent(sender) \cup (IF cpc = "send" THEN {hand} ELSE {})
         IN  IsFiniteSet(X) /\ Cardinality(X) + Room <= WireCap + 2
<1> PICK H, W, C : /\ H = IF cpc = "send" THEN {hand} ELSE {}
                   /\ W = Numbers(wire[sender]) /\ C = Numbers(chan[sender])
  OBVIOUS
<1>1. wire[sender] \in Seq(Nat) /\ chan[sender] \in Seq(Nat)
  BY Typed DEF PlaceInv
<1>2. Len(wire[sender]) <= WireCap /\ Len(chan[sender]) <= 1 /\ WireCap \in Nat
  BY BoundAssumption DEF PlaceInv, LinkInv, TypeOK, LinkTypeOK
<1>3. IsFiniteSet(W) /\ Cardinality(W) \in Nat /\ Cardinality(W) <= WireCap
  <2>1. Len(wire[sender]) \in Nat
    BY <1>1, Members
  <2> QED
    BY <1>1, <1>2, <2>1, CardNumbers
<1>4. /\ IsFiniteSet(C) /\ Cardinality(C) \in Nat
      /\ Cardinality(C) + (IF chan[sender] = <<>> THEN 1 ELSE 0) <= 1
  <2>1. Len(chan[sender]) \in Nat
    BY <1>1, Members
  <2>2. CASE chan[sender] = <<>>
    <3>1. C = {}
      BY <2>2, MembersEmpty DEF Numbers
    <3>2. IsFiniteSet(C) /\ Cardinality(C) = 0
      BY <3>1, FS_EmptySet
    <3> QED
      BY <2>2, <3>2
  <2>3. CASE chan[sender] # <<>>
    BY <1>1, <1>2, <2>1, <2>3, CardNumbers
  <2> QED
    BY <2>2, <2>3
<1>5. /\ IsFiniteSet(H) /\ Cardinality(H) \in Nat
      /\ Cardinality(H) + (IF cpc = "send" THEN 0 ELSE 1) <= 1
  <2>1. CASE cpc = "send"
    <3>1. H = {hand}
      BY <2>1
    <3>2. IsFiniteSet(H) /\ Cardinality(H) = 1
      BY <3>1, FS_Singleton
    <3> QED
      BY <2>1, <3>2
  <2>2. CASE cpc # "send"
    <3>1. H = {}
      BY <2>2
    <3>2. IsFiniteSet(H) /\ Cardinality(H) = 0
      BY <3>1, FS_EmptySet
    <3> QED
      BY <2>2, <3>2
  <2> QED
    BY <2>1, <2>2
<1>6. /\ IsFiniteSet(W \cup C) /\ Cardinality(W \cup C) \in Nat
      /\ Cardinality(W \cup C) <= Cardinality(W) + Cardinality(C)
  BY <1>3, <1>4, CardUnion
<1>7. /\ IsFiniteSet((W \cup C) \cup H) /\ Cardinality((W \cup C) \cup H) \in Nat
      /\ Cardinality((W \cup C) \cup H) <= Cardinality(W \cup C) + Cardinality(H)
  BY <1>5, <1>6, CardUnion
<1>8. PICK r \in 0..1, e \in 0..1 : /\ r = IF chan[sender] = <<>> THEN 1 ELSE 0
                                    /\ e = IF cpc = "send" THEN 0 ELSE 1
  OBVIOUS
<1>9. Cardinality((W \cup C) \cup H) + (r + e) <= WireCap + 2
  BY <1>2, <1>3, <1>4, <1>5, <1>6, <1>7, <1>8
<1>10. Room = r + e
  BY <1>8 DEF Room
<1>11. (W \cup C) \cup H = Sent(sender) \cup (IF cpc = "send" THEN {hand} ELSE {})
  BY DEF Sent
<1> QED
  BY <1>7, <1>9, <1>10, <1>11

----------------------------------------------------------------------------
(* The bound, step by step. *)

\* A step that puts nothing more at risk.
LEMMA RiskKept ==
  ASSUME LossInv, PlaceInv', Spent' = Spent, Slots' <= Slots, AtRisk' \subseteq AtRisk
  PROVE  RiskBounded'
<1>1. PICK X : X = {}
  OBVIOUS
<1>2. IsFiniteSet(X) /\ Cardinality(X) = 0
  BY <1>1, FS_EmptySet
<1>3. Slots \in 0..2 /\ Slots' \in 0..2
  BY TypedRisk, TypedRiskNext DEF LossInv
<1>4. PICK a, b, n : a = Slots /\ b = Slots' /\ n = Cardinality(X)
  OBVIOUS
<1>5. n = 0 /\ a \in 0..2 /\ b \in 0..2 /\ b <= a
  BY <1>2, <1>3, <1>4
<1>6. n + b <= a
  BY ONLY <1>5
<1>7. Cardinality(X) + Slots' <= Slots
  BY <1>4, <1>6
<1> QED
  BY <1>2, <1>7, RiskSame

\* The composer and its connection stay as they are.
LEMMA SenderAlone ==
  ASSUME PlaceInv, UNCHANGED <<cpc, hand, sender>>,
         sender \in Conns => /\ link'[sender] = link[sender]
                             /\ link[sender] = "cut" => chan'[sender] = chan[sender]
  PROVE  Slots' = Slots /\ Spent' = Spent /\ InHand' = InHand
<1>1. sender \in Conns \/ (sender = 0 /\ cpc = "first")
  BY DEF PlaceInv, LinkInv, TypeOK, ClientTypeOK
<1>2. CASE sender \in Conns
  <2>1. link'[sender] = link[sender]
    BY <1>2
  <2>2. CASE link[sender] = "cut"
    <3>1. chan'[sender] = chan[sender]
      BY <1>2, <2>2
    <3> QED
      BY <2>1, <2>2, <3>1 DEF Slots, Room, Spent, InHand, Broken
  <2>3. CASE link[sender] # "cut"
    BY <2>1, <2>3 DEF Slots, Room, Spent, InHand, Broken
  <2> QED
    BY <2>2, <2>3
<1>3. CASE sender = 0 /\ cpc = "first"
  <2>1. 0 \notin Conns
    BY DEF Conns
  <2> QED
    BY <1>3, <2>1 DEF Slots, Spent, InHand
<1> QED
  BY <1>1, <1>2, <1>3

\* A step that leaves alone what is broken.
LEMMA RiskQuiet ==
  ASSUME LossInv, PlaceInv', UNCHANGED <<lost, cpc, hand, sender>>,
         \A c \in Conns : IF Broken(c)
                          THEN /\ link'[c] = link[c] /\ chan'[c] = chan[c]
                               /\ Numbers(wire'[c]) \subseteq Numbers(wire[c])
                          ELSE ~Broken(c)'
  PROVE  RiskBounded'
<1>1. \A c \in Conns : Risk(c)' \subseteq Risk(c)
  BY DEF Risk, Sent, Broken
<1>2. CASE sender \in Conns /\ Broken(sender)
  <2>1. link'[sender] = link[sender] /\ chan'[sender] = chan[sender]
    BY <1>2
  <2>2. Slots' = Slots /\ Spent' = Spent /\ InHand' = InHand
    BY <2>1, SenderAlone DEF LossInv
  <2>3. AtRisk' \subseteq AtRisk /\ Slots' <= Slots
    BY <1>1, <2>2, TypedRisk DEF AtRisk, LossInv
  <2> QED
    BY <2>2, <2>3, RiskKept
<1>3. CASE sender \in Conns /\ ~Broken(sender)
  <2>1. ~Broken(sender)'
    BY <1>3 DEF Broken
  <2>2. Slots' = Slots /\ Spent' = Spent /\ InHand' = InHand
    BY <1>3, <2>1 DEF Slots, Spent, InHand, Broken
  <2>3. AtRisk' \subseteq AtRisk /\ Slots' <= Slots
    BY <1>1, <2>2, TypedRisk DEF AtRisk, LossInv
  <2> QED
    BY <2>2, <2>3, RiskKept
<1>4. CASE sender \notin Conns
  <2>1. Slots' = Slots /\ Spent' = Spent /\ InHand' = InHand
    BY <1>4, SenderAlone DEF LossInv
  <2>2. AtRisk' \subseteq AtRisk /\ Slots' <= Slots
    BY <1>1, <2>1, TypedRisk DEF AtRisk, LossInv
  <2> QED
    BY <2>1, <2>2, RiskKept
<1> QED
  BY <1>2, <1>3, <1>4

\* The connection that can still break is the last one; the composer has had it, or it is
\* empty.
LEMMA LastConnection ==
  ASSUME PlaceInv, NEW c \in Conns, link[c] \in {"made", "up"}
  PROVE  c = conn /\ (c = sender \/ Sent(c) = {})
<1> USE DEF PlaceInv, LinkInv
<1>1. c \in Nat /\ conn \in Nat /\ sender \in Nat
  BY Typed
<1>2. ~Broken(c) /\ ~(c > conn) /\ ~(c < conn)
  <2>1. ~Broken(c) /\ link[c] # "none"
    BY DEF Broken
  <2> QED
    BY <2>1 DEF Linked
<1>3. sender <= conn
  <2>1. Len(offered) \in Nat
    BY DEF TypeOK, ClientTypeOK
  <2>2. PICK e \in 0..1 : e = IF lpc = "offer" THEN 1 ELSE 0
    OBVIOUS
  <2> QED
    BY <1>1, <2>1, <2>2 DEF Handed
<1>4. c > sender => Sent(c) = {}
  BY MembersEmpty DEF Handed, Sent, Numbers
<1> QED
  BY <1>1, <1>2, <1>3, <1>4

\* The composer takes a new connection, which may have broken already.
LEMMA TakeSenderRisk ==
  ASSUME LossInv, PlaceInv', TakeSender
  PROVE  RiskBounded'
<1> USE DEF LossInv, PlaceInv, LinkInv
<1>1. UNCHANGED <<lost, hand, link, chan, wire>>
  BY DEF TakeSender, linkVars, history
<1>2. sender' = sender + 1 /\ sender \in Nat /\ sender' \in Conns
  <2>1. offered = <<sender + 1>> /\ sender' = Head(offered)
    BY DEF TakeSender, Handed
  <2>2. sender' = sender + 1 /\ sender \in Nat
    BY <2>1, Typed
  <2>3. sender' # 0
    BY <2>2
  <2> QED
    BY <2>2, <2>3 DEF TypeOK, ClientTypeOK
<1>3. Spent = sender /\ Slots = 0 /\ cpc # "send" /\ InHand = {}
  <2>1. cpc \in {"first", "swap"}
    BY DEF TakeSender
  <2>2. CASE cpc = "first"
    <3>1. sender = 0 /\ 0 \notin Conns
      BY <2>2 DEF TypeOK, ClientTypeOK, Conns
    <3> QED
      BY <2>2, <3>1 DEF Spent, Slots, InHand
  <2>3. CASE cpc = "swap"
    <3>1. link[sender] = "gone"
      BY <2>3 DEF Handed
    <3> QED
      BY <2>3, <3>1 DEF Spent, Slots, InHand, Broken
  <2> QED
    BY <2>1, <2>2, <2>3
<1>4. AtRisk' \subseteq AtRisk \cup InHand'
  <2>1. \A c \in Conns : Risk(c)' = Risk(c)
    BY <1>1 DEF Risk, Sent, Broken
  <2> QED
    BY <1>1, <2>1 DEF AtRisk
<1>5. CASE ~(link[sender'] \in {"cut", "gone"})
  <2>1. InHand' = {} /\ Slots' = 0 /\ Spent' = sender' - 1
    <3>1. sender' # 0
      BY <1>2
    <3> QED
      BY <1>1, <1>5, <3>1 DEF InHand, Slots, Spent, Broken
  <2>2. Spent' = Spent /\ Slots' <= Slots /\ AtRisk' \subseteq AtRisk
    BY <1>2, <1>3, <1>4, <2>1
  <2> QED
    BY <2>2, RiskKept
<1>6. CASE link[sender'] \in {"cut", "gone"}
  <2>1. Spent' = Spent + 1
    BY <1>1, <1>2, <1>3, <1>6 DEF Spent, Broken
  <2>2. chan'[sender'] = <<>>
    BY <1>1, <1>2 DEF Handed
  <2>3. CASE cpc' = "send"
    <3>1. InHand' = {hand}
      BY <1>1, <1>6, <2>3 DEF InHand, Broken
    <3>2. Slots' <= 1 /\ Slots' \in Nat
      BY <2>2, <2>3 DEF Slots, Room
    <3>3. IsFiniteSet(InHand') /\ Cardinality(InHand') = 1
      BY <3>1, FS_Singleton
    <3>4. Cardinality(InHand') + Slots' <= WireCap + 2
      BY <3>2, <3>3, TypedRisk
    <3> QED
      BY <1>4, <2>1, <3>3, <3>4, RiskMore
  <2>4. CASE cpc' # "send"
    <3>1. InHand' = {}
      BY <2>4 DEF InHand
    <3>2. Slots' <= 2 /\ Slots' \in Nat
      BY <2>2, <2>4 DEF Slots, Room
    <3>3. IsFiniteSet(InHand') /\ Cardinality(InHand') = 0
      BY <3>1, FS_EmptySet
    <3>4. Cardinality(InHand') + Slots' <= WireCap + 2
      BY <3>2, <3>3, TypedRisk
    <3> QED
      BY <1>4, <2>1, <3>3, <3>4, RiskMore
  <2> QED
    BY <2>3, <2>4
<1> QED
  BY <1>5, <1>6

\* The composer takes a batch for a connection that is cut: one place less.
LEMMA TakeBatchRisk ==
  ASSUME LossInv, PlaceInv', TakeBatch
  PROVE  RiskBounded'
<1> USE DEF LossInv, PlaceInv, LinkInv
<1>1. /\ UNCHANGED <<lost, sender, link, chan, wire>> /\ cpc = "recv"
      /\ cpc' = IF link[sender] = "gone" THEN "swap" ELSE "send"
  BY DEF TakeBatch, linkVars, history
<1>2. InHand = {} /\ Spent' = Spent
  BY <1>1 DEF InHand, Spent, Broken
<1>3. AtRisk' \subseteq AtRisk \cup InHand'
  <2>1. \A c \in Conns : Risk(c)' = Risk(c)
    BY <1>1 DEF Risk, Sent, Broken
  <2> QED
    BY <1>1, <2>1 DEF AtRisk
<1>4. sender \in Conns
  BY <1>1 DEF TypeOK, ClientTypeOK
<1>5. CASE link[sender] = "cut"
  <2>1. cpc' = "send"
    BY <1>1, <1>5
  <2>2. InHand' = {hand'}
    BY <1>1, <1>5, <2>1 DEF InHand, Broken
  <2>3. Slots = Slots' + 1 /\ Slots' \in Nat
    <3>1. PICK r \in 0..1 : r = IF chan[sender] = <<>> THEN 1 ELSE 0
      OBVIOUS
    <3>2. Slots = r + 1
      BY <1>1, <1>4, <1>5, <3>1 DEF Slots, Room
    <3>3. Slots' = r + 0
      BY <1>1, <1>4, <1>5, <2>1, <3>1 DEF Slots, Room
    <3> QED
      BY <3>2, <3>3
  <2>4. IsFiniteSet(InHand') /\ Cardinality(InHand') = 1
    BY <2>2, FS_Singleton
  <2>5. Cardinality(InHand') + Slots' <= Slots
    <3>1. PICK a, b, n : a = Slots /\ b = Slots' /\ n = Cardinality(InHand')
      OBVIOUS
    <3>2. n = 1 /\ b \in Nat /\ a = b + 1
      BY <2>3, <2>4, <3>1
    <3>3. n + b <= a
      BY ONLY <3>2
    <3> QED
      BY <3>1, <3>3
  <2> QED
    BY <1>2, <1>3, <2>4, <2>5, RiskSame
<1>6. CASE link[sender] # "cut"
  <2>1. InHand' = {} /\ Slots = 0 /\ Slots' = 0
    BY <1>1, <1>6 DEF InHand, Slots, Broken
  <2>2. AtRisk' \subseteq AtRisk /\ Slots' <= Slots
    BY <1>3, <2>1
  <2> QED
    BY <1>2, <2>2, RiskKept
<1> QED
  BY <1>5, <1>6

\* What the composer sends on a broken connection was at risk in its hand.
LEMMA SendBatchRisk ==
  ASSUME LossInv, PlaceInv', SendBatch
  PROVE  RiskBounded'
<1> USE DEF LossInv, PlaceInv, LinkInv
<1>1. UNCHANGED <<sender, link, wire>> /\ cpc = "send" /\ cpc' = "recv"
  BY DEF SendBatch
<1>2. sender \in Conns /\ hand \in Nat
  BY <1>1, Typed DEF TypeOK, ClientTypeOK
<1>3. Spent' = Spent /\ InHand' = {}
  BY <1>1 DEF InHand, Spent, Broken
<1>4. CASE link[sender] = "gone" /\ lost' = lost \cup {hand} /\ UNCHANGED chan
  <2>1. InHand = {hand} /\ Slots' = 0 /\ Slots = 0
    BY <1>1, <1>4 DEF InHand, Slots, Broken
  <2>2. \A c \in Conns : Risk(c)' = Risk(c)
    BY <1>1, <1>4 DEF Risk, Sent, Broken
  <2>3. AtRisk' \subseteq AtRisk /\ Slots' <= Slots
    BY <1>3, <1>4, <2>1, <2>2 DEF AtRisk
  <2> QED
    BY <1>3, <2>3, RiskKept
<1>5. CASE chan[sender] = <<>> /\ chan' = [chan EXCEPT ![sender] = <<hand>>] /\ UNCHANGED lost
  <2>1. PICK s : s = <<hand>>
    OBVIOUS
  <2>2. Numbers(s) = {hand} /\ s # <<>>
    BY <1>2, <2>1, MembersOne, MembersEmpty DEF Numbers
  <2>3. chan'[sender] = s /\ \A c \in Conns \ {sender} : chan'[c] = chan[c]
    BY <1>2, <1>5, <2>1 DEF TypeOK, LinkTypeOK
  <2>4. \A c \in Conns \ {sender} : Risk(c)' = Risk(c)
    BY <1>1, <2>3 DEF Risk, Sent, Broken
  <2>5. CASE ~Broken(sender)
    <3>1. Slots = 0 /\ Slots' = 0
      BY <1>1, <2>5 DEF Slots, Broken
    <3>2. \A c \in Conns : Risk(c)' \subseteq Risk(c)
      BY <1>1, <2>4, <2>5 DEF Risk, Broken
    <3>3. AtRisk' \subseteq AtRisk /\ Slots' <= Slots
      BY <1>3, <1>5, <3>1, <3>2 DEF AtRisk
    <3> QED
      BY <1>3, <3>3, RiskKept
  <2>6. CASE Broken(sender)
    <3>1. InHand = {hand}
      BY <1>1, <2>6 DEF InHand
    <3>2. \A c \in Conns : Risk(c)' \subseteq Risk(c) \cup {hand}
      <4> TAKE c \in Conns
      <4>1. CASE c = sender
        BY <1>1, <2>2, <2>3, <2>6, <4>1 DEF Risk, Sent
      <4>2. CASE c # sender
        BY <2>4, <4>2
      <4> QED
        BY <4>1, <4>2
    <3>3. AtRisk' \subseteq AtRisk
      BY <1>3, <1>5, <3>1, <3>2 DEF AtRisk
    <3>4. Slots' <= Slots
      <4>1. Room = 1 /\ Room' = 1
        BY <1>1, <1>5, <2>2, <2>3 DEF Room
      <4> QED
        BY <1>1, <4>1 DEF Slots
    <3> QED
      BY <1>3, <3>3, <3>4, RiskKept
  <2> QED
    BY <2>5, <2>6
<1> QED
  BY <1>4, <1>5 DEF SendBatch

\* A connection breaks, or its call fails.
LEMMA BreakRiskStep ==
  ASSUME LossInv, PlaceInv', NEW c \in Conns, link[c] \in {"made", "up"}, Broken(c)',
         \A d \in Conns \ {c} : link'[d] = link[d] /\ chan'[d] = chan[d],
         chan'[c] = chan[c] \/ (chan'[c] = <<>> /\ link'[c] = "gone"),
         lost' \subseteq lost \cup Numbers(chan[c]),
         UNCHANGED <<cpc, hand, sender, wire>>
  PROVE  RiskBounded'
<1> USE DEF LossInv
<1>1. /\ \A d \in Conns \ {c} : Risk(d)' = Risk(d)
      /\ Risk(c)' \subseteq Sent(c) /\ Numbers(chan[c]) \subseteq Sent(c) /\ ~Broken(c)
  BY MembersEmpty DEF Risk, Sent, Broken, Numbers
<1>2. CASE c = sender
  <2>1. PICK X : X = Sent(sender) \cup (IF cpc = "send" THEN {hand} ELSE {})
    OBVIOUS
  <2>2. IsFiniteSet(X) /\ Cardinality(X) + Room <= WireCap + 2
    BY <1>2, <2>1, BreakRisk
  <2>3. InHand' \subseteq X
    BY <2>1 DEF InHand
  <2>4. \A d \in Conns : Risk(d)' \subseteq Risk(d) \cup X
    BY <1>1, <1>2, <2>1
  <2>5. AtRisk' \subseteq AtRisk \cup X
    BY <1>1, <1>2, <2>1, <2>3, <2>4 DEF AtRisk
  <2>6. sender \in Nat \ {0}
    BY <1>2 DEF Conns
  <2>7. Spent' = Spent + 1
    BY <1>1, <1>2, <2>6 DEF Spent
  <2>8. Slots' <= Room
    <3>1. Room \in 0..2
      BY TypedRisk
    <3>2. CASE chan'[c] = chan[c]
      <4>1. Room' = Room
        BY <1>2, <3>2 DEF Room
      <4> QED
        BY <3>1, <4>1 DEF Slots
    <3>3. CASE link'[c] = "gone"
      BY <1>2, <3>1, <3>3 DEF Slots
    <3> QED
      BY <3>2, <3>3
  <2>9. Cardinality(X) + Slots' <= WireCap + 2
    <3>1. Cardinality(X) \in Nat /\ Room \in Nat /\ Slots' \in Nat /\ WireCap \in Nat
      BY <2>2, FS_CardinalityType, TypedRisk, TypedRiskNext
    <3> QED
      BY <2>2, <2>8, <3>1
  <2> QED
    BY <2>2, <2>5, <2>7, <2>9, RiskMore
<1>3. CASE c # sender
  <2>1. Sent(c) = {}
    BY <1>3, LastConnection
  <2>2. \A d \in Conns : Risk(d)' \subseteq Risk(d)
    BY <1>1, <2>1
  <2>3. Slots' = Slots /\ Spent' = Spent /\ InHand' = InHand
    BY <1>3, SenderAlone
  <2>4. AtRisk' \subseteq AtRisk
    BY <1>1, <2>1, <2>2, <2>3 DEF AtRisk
  <2>5. Slots' <= Slots
    BY <2>3, TypedRisk
  <2> QED
    BY <2>3, <2>4, <2>5, RiskKept
<1> QED
  BY <1>2, <1>3

\* What a broken connection loses was at risk.
LEMMA DropRisk ==
  ASSUME LossInv, PlaceInv', NEW c \in Conns, DropRequest(c) \/ DropStream(c)
  PROVE  RiskBounded'
<1> USE DEF LossInv, PlaceInv, LinkInv, TypeOK
<1>1. Broken(c) /\ Broken(c)'
  BY DEF Broken, DropRequest, DropStream, LinkTypeOK
<1>2. /\ \A d \in Conns \ {c} : link'[d] = link[d] /\ chan'[d] = chan[d] /\ wire'[d] = wire[d]
      /\ UNCHANGED <<cpc, hand, sender>>
  BY DEF DropRequest, DropStream, LinkTypeOK, clientVars
<1>3. lost' \subseteq lost \cup Sent(c) /\ Sent(c)' \subseteq Sent(c)
  <2>1. CASE DropRequest(c)
    <3>1. chan'[c] = <<>> /\ wire' = wire /\ lost' = lost \cup Numbers(chan[c])
      BY <2>1 DEF DropRequest, LinkTypeOK
    <3> QED
      BY <3>1, MembersEmpty DEF Sent, Numbers
  <2>2. CASE DropStream(c)
    <3>1. wire'[c] = <<>> /\ chan' = chan /\ lost' = lost \cup Numbers(wire[c])
      BY <2>2 DEF DropStream, LinkTypeOK
    <3> QED
      BY <3>1, MembersEmpty DEF Sent, Numbers
  <2> QED
    BY <2>1, <2>2
<1>4. \A d \in Conns : Risk(d)' \subseteq Risk(d)
  BY <1>1, <1>2, <1>3 DEF Risk, Sent, Broken
<1>5. Risk(c) = Sent(c)
  BY <1>1 DEF Risk
<1>6. InHand' = InHand /\ Spent' = Spent
  <2>1. sender \in Conns \/ (sender = 0 /\ cpc = "first")
    BY DEF ClientTypeOK
  <2>2. sender \in Conns => (Broken(sender)' <=> Broken(sender))
    BY <1>1, <1>2 DEF Broken
  <2> QED
    BY <1>2, <2>1, <2>2 DEF InHand, Spent
<1>7. AtRisk' \subseteq AtRisk
  <2>1. lost' \subseteq lost \cup Risk(c)
    BY <1>3, <1>5
  <2>2. ASSUME NEW y \in AtRisk' PROVE y \in lost \/ y \in InHand \/ \E d \in Conns : y \in Risk(d)
    <3>1. y \in lost' \/ y \in InHand' \/ \E d \in Conns : y \in Risk(d)'
      BY <2>2 DEF AtRisk
    <3> QED
      BY <1>4, <1>6, <2>1, <3>1
  <2> QED
    BY <2>2 DEF AtRisk
<1>8. Slots' <= Slots
  <2>1. Slots \in 0..2
    BY TypedRisk
  <2>2. CASE link' = link /\ chan' = chan
    BY <1>2, <2>1, <2>2 DEF Slots, Room
  <2>3. CASE link' = [link EXCEPT ![c] = "gone"]
    <3>1. CASE sender = c
      BY <1>2, <2>1, <2>3, <3>1 DEF Slots, LinkTypeOK
    <3>2. CASE sender # c
      BY <1>2, <2>1, <3>2 DEF Slots, Room
    <3> QED
      BY <3>1, <3>2
  <2> QED
    BY <2>2, <2>3 DEF DropRequest, DropStream
<1> QED
  BY <1>6, <1>7, <1>8, RiskKept

\* A restart breaks the connection that is up, and loses what all of them carry.
LEMMA RestartRisk ==
  ASSUME LossInv, PlaceInv', ServerRestart
  PROVE  RiskBounded'
<1> USE DEF LossInv, PlaceInv, LinkInv, TypeOK
<1>1. /\ \A c \in Conns : /\ link'[c] = IF link[c] = "up" THEN "cut" ELSE link[c]
                          /\ wire'[c] = <<>>
      /\ UNCHANGED <<cpc, hand, sender, chan>>
      /\ lost' = lost \cup UNION {Numbers(wire[c]) : c \in Conns}
  BY DEF ServerRestart, clientVars
<1>2. PICK X : X = Sent(sender) \cup (IF cpc = "send" THEN {hand} ELSE {})
  OBVIOUS
<1>3. ASSUME NEW c \in Conns
      PROVE  /\ ~(c = sender /\ link[c] = "up") => Numbers(wire[c]) \cup Risk(c)' \subseteq Risk(c)
             /\ (c = sender /\ link[c] = "up") => Numbers(wire[c]) \cup Risk(c)' \subseteq X
  <2>1. Sent(c)' \subseteq Sent(c) /\ Numbers(wire[c]) \subseteq Sent(c)
    BY <1>1, MembersEmpty DEF Sent, Numbers
  <2>2. CASE Broken(c)
    BY <1>1, <2>1, <2>2 DEF Risk, Broken
  <2>3. CASE link[c] \in {"none", "made"}
    <3>1. wire[c] = <<>> /\ ~Broken(c)'
      BY <1>1, <2>3 DEF Linked, Broken
    <3> QED
      BY <2>3, <3>1, MembersEmpty DEF Risk, Numbers
  <2>4. CASE link[c] = "up" /\ c = sender
    BY <1>2, <2>1, <2>4 DEF Risk
  <2>5. CASE link[c] = "up" /\ c # sender
    <3>1. Sent(c) = {}
      BY <2>5, LastConnection
    <3> QED
      BY <2>1, <2>5, <3>1 DEF Risk
  <2> QED
    BY <2>2, <2>3, <2>4, <2>5 DEF Broken, LinkTypeOK
<1>4. CASE sender \in Conns /\ link[sender] = "up"
  <2>1. IsFiniteSet(X) /\ Cardinality(X) + Room <= WireCap + 2
    BY <1>2, <1>4, BreakRisk
  <2>2. \A c \in Conns : Numbers(wire[c]) \subseteq Risk(c) \cup X /\ Risk(c)' \subseteq Risk(c) \cup X
    BY <1>3
  <2>3. InHand' \subseteq X
    BY <1>1, <1>2 DEF InHand
  <2>4. AtRisk' \subseteq AtRisk \cup X
    BY <1>1, <2>2, <2>3 DEF AtRisk
  <2>5. link'[sender] = "cut" /\ sender \in Nat \ {0}
    BY <1>1, <1>4 DEF Conns
  <2>6. Spent' = Spent + 1
    BY <1>1, <1>4, <2>5 DEF Spent, Broken
  <2>7. Slots' = Room
    <3>1. Room' = Room
      BY <1>1 DEF Room
    <3> QED
      BY <1>1, <1>4, <2>5, <3>1 DEF Slots
  <2>8. Cardinality(X) + Slots' <= WireCap + 2
    BY <2>1, <2>7
  <2> QED
    BY <2>1, <2>4, <2>6, <2>8, RiskMore
<1>5. CASE ~(sender \in Conns /\ link[sender] = "up")
  <2>1. \A c \in Conns : Numbers(wire[c]) \subseteq Risk(c) /\ Risk(c)' \subseteq Risk(c)
    BY <1>3, <1>5
  <2>2. Slots' = Slots /\ Spent' = Spent /\ InHand' = InHand
    BY <1>1, <1>5, SenderAlone
  <2>3. AtRisk' \subseteq AtRisk
    BY <1>1, <2>1, <2>2 DEF AtRisk
  <2>4. Slots' <= Slots
    BY <2>2, TypedRisk
  <2> QED
    BY <2>2, <2>3, <2>4, RiskKept
<1> QED
  BY <1>4, <1>5

\* The steps that leave alone what is broken.
LEMMA QuietRisk ==
  ASSUME LossInv, PlaceInv', [Next]_vars,
         ~(TakeSender \/ TakeBatch \/ SendBatch \/ CallFails \/ ServerRestart),
         ~\E c \in Conns : Break(c) \/ DropRequest(c) \/ DropStream(c)
  PROVE  RiskBounded'
<1> USE DEF LossInv, PlaceInv, LinkInv, TypeOK
<1> DEFINE Quiet(c) == IF Broken(c)
                       THEN /\ link'[c] = link[c] /\ chan'[c] = chan[c]
                            /\ Numbers(wire'[c]) \subseteq Numbers(wire[c])
                       ELSE ~Broken(c)'
<1>1. CASE UNCHANGED <<lost, cpc, hand, sender, link, chan, wire>>
  <2>1. \A c \in Conns : Quiet(c)
    BY <1>1 DEF Broken
  <2> QED
    BY <1>1, <2>1, RiskQuiet
<1>2. CASE GetForMetrics
  <2>1. UNCHANGED <<lost, cpc, hand, sender, chan, wire>> /\ link' = [link EXCEPT ![conn + 1] = "made"]
    BY <1>2 DEF GetForMetrics, clientVars, history
  <2>2. conn + 1 \in Conns => link[conn + 1] = "none"
    BY Typed DEF Linked
  <2>3. \A c \in Conns : Quiet(c)
    BY <2>1, <2>2 DEF Broken, LinkTypeOK
  <2> QED
    BY <2>1, <2>3, RiskQuiet
<1>3. CASE CallAnswered
  <2>1. /\ UNCHANGED <<lost, cpc, hand, sender, chan, wire>> /\ link' = [link EXCEPT ![conn] = "up"]
        /\ link[conn] = "made"
    BY <1>3 DEF CallAnswered, clientVars, history, Linked
  <2>2. \A c \in Conns : Quiet(c)
    BY <2>1 DEF Broken, LinkTypeOK
  <2> QED
    BY <2>1, <2>2, RiskQuiet
<1>4. CASE \E d \in Conns : Transmit(d)
  <2>1. PICK d \in Conns : Transmit(d)
    BY <1>4
  <2>2. /\ UNCHANGED <<lost, cpc, hand, sender, link>> /\ link[d] = "up"
        /\ \A c \in Conns \ {d} : wire'[c] = wire[c] /\ chan'[c] = chan[c]
    BY <2>1 DEF Transmit, clientVars, history, LinkTypeOK
  <2>3. \A c \in Conns : Quiet(c)
    BY <2>2 DEF Broken
  <2> QED
    BY <2>2, <2>3, RiskQuiet
<1>5. CASE \E d \in Conns : ReadMessage(d)
  <2>1. PICK d \in Conns : ReadMessage(d)
    BY <1>5
  <2>2. /\ UNCHANGED <<lost, cpc, hand, sender, link, chan>>
        /\ wire[d] # <<>> /\ wire'[d] = Tail(wire[d])
        /\ \A c \in Conns \ {d} : wire'[c] = wire[c]
    BY <2>1 DEF ReadMessage, clientVars, LinkTypeOK
  <2>3. Numbers(wire'[d]) \subseteq Numbers(wire[d])
    BY <2>2, Typed, MembersHead DEF Numbers
  <2>4. \A c \in Conns : Quiet(c)
    BY <2>2, <2>3 DEF Broken
  <2> QED
    BY <2>2, <2>4, RiskQuiet
<1>6. \/ UNCHANGED <<lost, cpc, hand, sender, link, chan, wire>>
      \/ GetForMetrics \/ CallAnswered
      \/ (\E d \in Conns : Transmit(d)) \/ (\E d \in Conns : ReadMessage(d))
  BY DEF Next, Composer, Loops, Network, Server, MakeBatch, LockForMetrics, Offer, ReadAnswer,
         ResponsesEnd, LockForRegister, GetForRegister, RegisterAgain, Reach, StoreMetric,
         QueueMetric, Answer, vars, clientVars, linkVars, history
<1> QED
  BY <1>1, <1>2, <1>3, <1>4, <1>5, <1>6

\* Every step keeps the bound.
LEMMA LossInvStep ==
  ASSUME LossInv, [Next]_vars
  PROVE  LossInv'
<1>1. PlaceInv'
  BY PlaceStep DEF LossInv
<1>2. TakeSender \/ TakeBatch \/ SendBatch => RiskBounded'
  BY <1>1, TakeSenderRisk, TakeBatchRisk, SendBatchRisk
<1>3. CallFails => RiskBounded'
  <2> HAVE CallFails
  <2>1. conn \in Conns /\ link[conn] = "made"
    BY DEF CallFails, LossInv, PlaceInv, LinkInv, Linked, TypeOK, LoopTypeOK
  <2>2. /\ link'[conn] = "gone" /\ chan'[conn] = <<>> /\ lost' = lost \cup Numbers(chan[conn])
        /\ \A d \in Conns \ {conn} : link'[d] = link[d] /\ chan'[d] = chan[d]
        /\ UNCHANGED <<cpc, hand, sender, wire, conn>>
    BY <2>1 DEF CallFails, clientVars, LossInv, PlaceInv, LinkInv, TypeOK, LinkTypeOK
  <2>3. PICK c \in Conns : c = conn
    BY <2>1
  <2>4. Broken(c)'
    BY <2>2, <2>3 DEF Broken
  <2> QED
    BY <1>1, <2>1, <2>2, <2>3, <2>4, BreakRiskStep
<1>4. ASSUME NEW c \in Conns, Break(c) PROVE RiskBounded'
  <2>1. /\ link[c] = "up" /\ link'[c] = "cut"
        /\ \A d \in Conns \ {c} : link'[d] = link[d] /\ chan'[d] = chan[d]
        /\ UNCHANGED <<cpc, hand, sender, wire, chan, lost>>
    BY <1>4 DEF Break, clientVars, history, LossInv, PlaceInv, LinkInv, TypeOK, LinkTypeOK
  <2>2. Broken(c)'
    BY <2>1 DEF Broken
  <2> QED
    BY <1>1, <2>1, <2>2, BreakRiskStep
<1>5. ASSUME NEW c \in Conns, DropRequest(c) \/ DropStream(c) PROVE RiskBounded'
  BY <1>1, <1>5, DropRisk
<1>6. ServerRestart => RiskBounded'
  BY <1>1, RestartRisk
<1>7. RiskBounded'
  BY <1>1, <1>2, <1>3, <1>4, <1>5, <1>6, QuietRisk
<1> QED
  BY <1>1, <1>7 DEF LossInv

\* At the start nothing is lost.
LEMMA LossInit ==
  ASSUME Init
  PROVE  LossInv
<1>1. PlaceInv
  BY PlaceInit
<1>2. /\ lost = {} /\ sender = 0 /\ cpc = "first" /\ \A c \in Conns : link[c] = "none"
  BY DEF Init
<1>3. AtRisk = {} /\ Slots = 0 /\ Spent = 0
  <2>1. \A c \in Conns : Risk(c) = {}
    BY <1>2 DEF Risk, Broken
  <2>2. InHand = {} /\ 0 \notin Conns
    BY <1>2 DEF InHand, Conns
  <2> QED
    BY <1>2, <2>1, <2>2 DEF AtRisk, Slots, Spent
<1>4. Cardinality(AtRisk) = 0
  BY <1>3, FS_EmptySet
<1>5. WireCap + 2 \in Nat
  BY BoundAssumption
<1>6. RiskBounded
  <2>1. 0 * (WireCap + 2) = 0
    BY <1>5
  <2> QED
    BY <1>3, <1>4, <2>1 DEF RiskBounded
<1> QED
  BY <1>1, <1>6 DEF LossInv

\* The connections that the composer has spent are broken.
LEMMA SpentBroken ==
  ASSUME PlaceInv
  PROVE  /\ IsFiniteSet({c \in Conns : Broken(c)})
         /\ Cardinality({c \in Conns : Broken(c)}) \in Nat
         /\ Spent <= Cardinality({c \in Conns : Broken(c)})
<1> USE DEF PlaceInv, LinkInv
<1>1. PICK B : B = {c \in Conns : Broken(c)}
  OBVIOUS
<1>2. IsFiniteSet(Conns)
  BY BoundAssumption, FS_Interval DEF Conns
<1>3. B \subseteq Conns
  BY <1>1
<1>4. IsFiniteSet(B) /\ Cardinality(B) \in Nat
  BY <1>2, <1>3, CardPart
<1>5. 1..Spent \subseteq B
  <2> SUFFICES ASSUME NEW c \in 1..Spent PROVE c \in B
    OBVIOUS
  <2>1. sender \in Nat /\ conn \in Nat /\ Spent \in Nat /\ Spent <= sender
    BY Typed, TypedRisk DEF Spent
  <2>2. sender <= conn
    <3>1. Len(offered) \in Nat
      BY DEF TypeOK, ClientTypeOK
    <3>2. PICK e \in 0..1 : e = IF lpc = "offer" THEN 1 ELSE 0
      OBVIOUS
    <3> QED
      BY <2>1, <3>1, <3>2 DEF Handed
  <2>3. sender # 0 /\ sender \in Conns /\ c \in Conns
    <3>1. sender # 0
      BY <2>1
    <3>2. sender \in Conns
      BY <3>1 DEF TypeOK, ClientTypeOK
    <3> QED
      BY <2>1, <3>1, <3>2, BoundAssumption DEF Conns
  <2>4. CASE c = sender
    <3>1. Broken(sender)
      BY <2>1, <2>3, <2>4 DEF Spent
    <3> QED
      BY <1>1, <2>3, <2>4, <3>1
  <2>5. CASE c # sender
    <3>1. c < conn
      BY <2>1, <2>2, <2>5
    <3>2. Broken(c)
      BY <2>3, <3>1 DEF Linked
    <3> QED
      BY <1>1, <2>3, <3>2
  <2> QED
    BY <2>4, <2>5
<1>6. Cardinality(1..Spent) = Spent /\ Spent \in Nat
  <2>1. Spent \in Nat
    BY TypedRisk
  <2>2. 1 \in Int /\ Spent \in Int
    BY <2>1
  <2> QED
    BY <2>1, <2>2, FS_Interval
<1>7. Cardinality(1..Spent) <= Cardinality(B)
  BY <1>4, <1>5, CardPart
<1> QED
  BY <1>1, <1>4, <1>6, <1>7

\* The invariant of the losses: what is at risk is bounded by the connections spent.
THEOREM LossInvariant == Spec => []LossInv
<1>1. Init => LossInv
  BY LossInit
<1>2. LossInv /\ [Next]_vars => LossInv'
  BY LossInvStep
<1> QED
  BY <1>1, <1>2, PTL DEF Spec

\* A connection that ends costs what it held, what its channel held, and the one batch that
\* the composer had in its hand.
THEOREM LossesBounded == Spec => []LossBounded
<1>1. LossInv => LossBounded
  <2> SUFFICES ASSUME LossInv PROVE LossBounded
    OBVIOUS
  <2>1. PICK b \in Nat : b = Cardinality({c \in Conns : Broken(c)}) /\ Spent <= b
    BY SpentBroken DEF LossInv
  <2>2. PICK v \in Nat : v = WireCap + 2
    BY BoundAssumption
  <2>3. Spent \in Nat /\ Slots \in Nat /\ IsFiniteSet(AtRisk) /\ Cardinality(AtRisk) \in Nat
    BY TypedRisk DEF LossInv
  <2>4. lost \subseteq AtRisk
    BY DEF AtRisk
  <2>5. Cardinality(lost) \in Nat /\ Cardinality(lost) <= Cardinality(AtRisk)
    BY <2>3, <2>4, CardPart
  <2>6. Spent * v <= b * v /\ Spent * v \in Nat /\ b * v \in Nat
    BY <2>1, <2>2, <2>3, MoreTimes
  <2>7. PICK x \in Nat, y \in Nat : x = Spent * v /\ y = b * v /\ x <= y
    BY <2>6
  <2>8. Cardinality(AtRisk) + Slots <= x
    BY <2>2, <2>7 DEF LossInv, RiskBounded
  <2>9. Cardinality(lost) <= y
    BY <2>3, <2>5, <2>7, <2>8
  <2> QED
    BY <2>1, <2>2, <2>7, <2>9 DEF LossBounded
<1> QED
  BY <1>1, LossInvariant, PTL
=============================================================================
