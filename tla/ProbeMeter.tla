----------------------------- MODULE ProbeMeter -----------------------------
(***************************************************************************)
(* What a client measures of its neighbours (peers_controller.rs): the     *)
(* neighbours' probes over a network that loses, repeats and reorders      *)
(* datagrams, the entry and the statistics kept of each neighbour, and the *)
(* aggregate that turns them into measurements.  The release build is      *)
(* modelled, in which u64 wraps around.  Of the jitters only their number  *)
(* is part of the state; how one is measured is Jitter, a pure function.   *)
(***************************************************************************)
EXTENDS Integers, FiniteSets

CONSTANTS
  Ids,             \* the other peers
  W,               \* an unsigned integer is a number modulo W (2^64)
  Second,          \* clock ticks in a second (1000)
  StartProbe,      \* the probe interval before the first update, in seconds (1)
  StartAggregate,  \* the aggregate interval before the first update (60)
  ProbeTimers,     \* the probe intervals that updates carry
  AggregateTimers, \* the aggregate intervals that updates carry
  Unlisted,        \* no entry in PeerController.peers
  NoStats,         \* no entry in peer_stats
  MaxClock, MaxSeq, MaxNet, MaxJitters   \* bounds of the model

ASSUME TimerAssumption ==
  /\ Second \in Nat \ {0} /\ StartProbe \in Nat \ {0} /\ StartAggregate \in Nat \ {0}
  /\ ProbeTimers \subseteq Nat \ {0} /\ AggregateTimers \subseteq Nat \ {0}
ASSUME WidthAssumption ==
  /\ W \in Nat \ {0}
  /\ MaxClock \in Nat /\ MaxSeq \in Nat /\ MaxNet \in Nat /\ MaxJitters \in Nat
\* The clock is far from the end of its 64 bits (it counts from 1970).
ASSUME ClockAssumption == MaxClock + 2 < W

VARIABLES
  now,        \* the clock of this client
  seq,        \* seq[q]: the number of the next probe of q
  net,        \* the datagrams that may still arrive, each any number of times
  neigh,      \* neigh[q]: what the entry of q in PeerController.peers records
  stats,      \* stats[q]: the entry of q in peer_stats
  lastAgg,    \* last_aggregate_ts
  due,        \* when the aggregate timer ticks next
  probe,      \* PeerController.probe_timer
  aggregate,  \* PeerController.aggregate_timer
  round,      \* how many aggregates there have been
  report,     \* the measurements of the last one
  heard,      \* history: when a probe of each was last handled, 0 if never
  errs,       \* history: the sequence errors of each since it was last reported
  taken       \* history: when each was last reported

timers == <<lastAgg, due, probe, aggregate>>
history == <<heard, errs, taken>>
vars == <<now, seq, net, neigh, stats, timers, round, report, history>>

Listed == {q \in Ids : neigh[q] # Unlisted}

Probe == [id : Ids, seq : Nat]

\* An entry without a latency (u64::MAX) has not been heard since it was made.
Entry == [seq : Nat, known : BOOLEAN, seen : Nat]
Fresh == [seq |-> 0, known |-> FALSE, seen |-> 0]
Stats == [pl : Nat, jitters : Nat]

\* History: numbers skipped, datagrams overtaken by a later one, whether any was repeated.
Errors == [skipped : Nat, late : Nat, repeated : BOOLEAN]
NoErrors == [skipped |-> 0, late |-> 0, repeated |-> FALSE]

ASSUME SpecialAssumption == Unlisted \notin Entry /\ NoStats \notin Stats

----------------------------------------------------------------------------
(* Probes. *)

\* Mutant: a signed difference.
LostBetweenSigned(last, s) == IF last > s THEN s ELSE s - last - 1

\* How many probes the sequence numbers say were lost: all that a restarted sender
\* may have sent, or those in between; the second wraps around when a probe is
\* handled twice.
LostBetween(last, s) == IF last > s THEN s ELSE (s - last - 1) % W

\* How many probes a neighbour sends in a time.
Probes(time) == time \div (Second * probe)

\* Mutant: what the time allows is added to what was counted before.
CountAdding(st, lost) ==
  LET most == Probes(now - lastAgg) IN
  IF st = NoStats
    THEN [pl |-> IF lost > 1 THEN most ELSE lost, jitters |-> 1]
    ELSE [pl |-> st.pl + (IF most < lost THEN most ELSE lost), jitters |-> st.jitters + 1]

\* The statistics after one more probe.  A loss greater than what the time since the
\* last aggregate allows is replaced by that, together with what was counted before.
Count(st, lost) ==
  LET most == Probes(now - lastAgg) IN
  IF st = NoStats
    THEN [pl |-> IF lost > 1 THEN most ELSE lost, jitters |-> 1]
    ELSE [pl |-> IF most < lost THEN most ELSE st.pl + lost, jitters |-> st.jitters + 1]

\* History: the errors once number s has followed number last.
ErrorsAfter(e, last, s) ==
  CASE s > last -> [e EXCEPT !.skipped = @ + (s - last - 1)]
    [] s = last -> [e EXCEPT !.repeated = TRUE]
    [] s < last -> [e EXCEPT !.late = @ + 1]

\* The datagram d reaches the select! of work(): socket, receiving task and queue are
\* part of net.  A datagram of a peer that is not listed is dropped.
HandleProbe(d) ==
  LET q == d.id
      known == q \in Listed /\ neigh[q].known
  IN
  /\ IF known
       THEN /\ stats' = [stats EXCEPT ![q] = Count(@, LostBetween(neigh[q].seq, d.seq))]
            /\ errs' = [errs EXCEPT ![q] = ErrorsAfter(@, neigh[q].seq, d.seq)]
       ELSE UNCHANGED <<stats, errs>>
  /\ IF q \in Listed
       THEN /\ neigh' = [neigh EXCEPT ![q] = [seq |-> d.seq, known |-> TRUE, seen |-> now]]
            /\ heard' = [heard EXCEPT ![q] = now]
       ELSE UNCHANGED <<neigh, heard>>
  /\ UNCHANGED <<now, seq, timers, round, report, taken>>

Arrive(d) ==
  /\ stats[d.id] # NoStats => stats[d.id].jitters < MaxJitters
  /\ HandleProbe(d)
  /\ \/ net' = net \ {d}
     \/ net' = net

Lose(d) ==
  /\ net' = net \ {d}
  /\ UNCHANGED <<now, seq, neigh, stats, timers, round, report, history>>

\* The sending task of another peer.  Its interval begins anew, and ticks at once, with
\* every list that it is given, and it is silent while the list is empty, so a probe may
\* follow the one before at any distance.
Send(q) ==
  /\ seq[q] < MaxSeq /\ Cardinality(net) < MaxNet
  /\ net' = net \cup {[id |-> q, seq |-> seq[q]]}
  /\ seq' = [seq EXCEPT ![q] = @ + 1]
  /\ UNCHANGED <<now, neigh, stats, timers, round, report, history>>

SenderRestart(q) ==
  /\ seq' = [seq EXCEPT ![q] = 0]
  /\ UNCHANGED <<now, net, neigh, stats, timers, round, report, history>>

----------------------------------------------------------------------------
(* Jitter. *)

Distance(x, y) == IF x > y THEN x - y ELSE y - x

\* The latency of a probe: the clock of this client when the probe is handled against the
\* clock of its sender, whichever is ahead.
Latency(at, ts) == Distance(at, ts)

\* The jitter of two probes, from their latencies.
Jitter(latency, last) == Distance(latency, last)

----------------------------------------------------------------------------
(* Updates. *)

\* The entries after an update that names the peers S, without their addresses: only a
\* Full makes the entry of a listed neighbour anew.
Relist(kind, S) ==
  [q \in Ids |-> CASE kind = "Full"   -> IF q \in S THEN Fresh ELSE Unlisted
                   [] kind = "Add"    -> IF q \in S \ Listed THEN Fresh ELSE neigh[q]
                   [] kind = "Remove" -> IF q \in S THEN Unlisted ELSE neigh[q]]

\* work() applies an update.  Statistics stay as they are, of peers no longer listed too,
\* and the aggregate timer goes on with the interval that it was made with.
Update(kind, S, p, a) ==
  /\ neigh' = Relist(kind, S)
  /\ probe' = p
  /\ aggregate' = a
  /\ UNCHANGED <<now, seq, net, stats, lastAgg, due, round, report, history>>

----------------------------------------------------------------------------
(* Aggregates. *)

\* PeerMeasurement::make_measurement: without a jitter the least and the greatest are
\* -1 and the standard deviation is 0/0.
Measurement(st, silent) ==
  IF st = NoStats THEN [pl |-> silent, jitters |-> 0] ELSE [st EXCEPT !.pl = @ + silent]

\* Mutant: only the time since the last probe counts, which is new at every Full.
SilentSinceSeen(q) == IF neigh[q].seen = 0 THEN 0 ELSE Probes(now - neigh[q].seen)

\* The probes that a neighbour has not sent, or that were lost, since it was last heard
\* in this interval.
Silent(q) == Probes(now - (IF lastAgg > neigh[q].seen THEN lastAgg ELSE neigh[q].seen))

\* Mutant: the statistics are kept.
StatsKept == stats

\* make_aggregate takes the statistics of listed peers out of peer_stats.
StatsLeft == [q \in Ids |-> IF q \in Listed THEN NoStats ELSE stats[q]]

\* The aggregate timer ticks.  A tick that comes late does not delay the next one.
Aggregate ==
  /\ now >= due
  /\ report' = [q \in Listed |-> Measurement(stats[q], Silent(q))]
  /\ stats' = StatsLeft
  /\ lastAgg' = now
  /\ due' = due + Second * StartAggregate
  /\ round' = round + 1
  /\ errs' = [q \in Ids |-> IF q \in Listed THEN NoErrors ELSE errs[q]]
  /\ taken' = [q \in Ids |-> IF q \in Listed THEN now ELSE taken[q]]
  /\ UNCHANGED <<now, seq, net, neigh, probe, aggregate, heard>>

----------------------------------------------------------------------------
Tick ==
  /\ now < MaxClock
  /\ now' = now + 1
  /\ UNCHANGED <<seq, net, neigh, stats, timers, round, report, history>>

Init ==
  /\ now = 0
  /\ seq = [q \in Ids |-> 0]
  /\ net = {}
  /\ neigh = [q \in Ids |-> Unlisted]
  /\ stats = [q \in Ids |-> NoStats]
  /\ lastAgg = 0 /\ due = Second * StartAggregate
  /\ probe = StartProbe /\ aggregate = StartAggregate
  /\ round = 0 /\ report = [q \in {} |-> 0]
  /\ heard = [q \in Ids |-> 0] /\ errs = [q \in Ids |-> NoErrors] /\ taken = [q \in Ids |-> 0]

Next ==
  \/ \E d \in net : Arrive(d) \/ Lose(d)
  \/ \E q \in Ids : Send(q) \/ SenderRestart(q)
  \/ \E kind \in {"Full", "Add", "Remove"}, S \in SUBSET Ids,
        p \in ProbeTimers, a \in AggregateTimers : Update(kind, S, p, a)
  \/ Aggregate
  \/ Tick

Spec == Init /\ [][Next]_vars

----------------------------------------------------------------------------
(* Properties. *)

\* The shape of every reachable state (peers_controller.rs:20-30, 125-131 and the
\* structures of model/mod.rs).
TypeOK ==
  /\ now \in 0..MaxClock /\ lastAgg \in Nat /\ due \in Nat /\ round \in Nat
  /\ probe \in Nat \ {0} /\ aggregate \in Nat \ {0}
  /\ lastAgg <= now
  /\ seq \in [Ids -> Nat]
  /\ net \subseteq Probe
  /\ neigh \in [Ids -> Entry \cup {Unlisted}]
  /\ stats \in [Ids -> Stats \cup {NoStats}]
  /\ DOMAIN report \subseteq Ids /\ \A q \in DOMAIN report : report[q] \in Stats
  /\ heard \in [Ids -> Nat] /\ errs \in [Ids -> Errors] /\ taken \in [Ids -> Nat]

\* How many probes the shortest interval allows since q was last reported.  The time
\* since the last aggregate would not do: the count of a removed peer waits for the next
\* aggregate that has it listed again.
Elapsed(q) == (now - taken[q]) \div Second

\* The count of lost probes is at most what the time allows, once, the numbers that were
\* skipped, and for every datagram that came late what the time allows (in no time, one).
\* A repeated datagram, whose difference wraps around, makes all of the time lost, and
\* no more than that however often it comes.  The number of a late one is counted as
\* lost, which says nothing of losses, as long as the estimate is not smaller; a greater
\* one is replaced by the estimate (peers_controller.rs:151-179).
LossBounded ==
  \A q \in Ids : stats[q] # NoStats =>
    stats[q].pl <= Elapsed(q) + errs[q].skipped + errs[q].late * (Elapsed(q) + 1)

\* A neighbour of whom nothing was handled since the last aggregate is reported with as
\* many lost probes as fit into that time, whenever it was listed, listed anew or
\* removed and added meanwhile (peers_controller.rs:274-289).
SilenceReported ==
  [][round' # round =>
       \A q \in Listed : heard[q] <= lastAgg => report'[q].pl >= Probes(now - lastAgg)]_vars

\* Since when the report takes q for silent: since the last aggregate or the last probe,
\* whichever came later, but since the last aggregate although there was a probe if the
\* entry of q was made anew after it.
SilentSince(q) == IF neigh[q].known /\ heard[q] > lastAgg THEN heard[q] ELSE lastAgg

\* A neighbour whose probes were handled one after the other since it was last reported
\* is reported with the probes of one silence as lost and no others, whatever was counted
\* under an older entry.  Without an update in between that is the time since its last
\* probe, so a neighbour heard less than one interval ago has lost nothing; a Full after
\* the last probe makes the same neighbour lose all probes of the interval, those that
\* were handled included (peers_controller.rs:199-208, 274-289).
LossIsSilence ==
  [][round' # round =>
       \A q \in Listed : errs[q] = NoErrors => report'[q].pl = Probes(now - SilentSince(q))]_vars

\* "Aggregation interval in seconds" (README.md:88), which every update carries to the
\* clients: one report follows another at the interval of the last update.
AggregateAsTold == [][round' # round => due' - due = Second * aggregate]_vars
=============================================================================
