----------------------------- MODULE MetricStore -----------------------------
(***************************************************************************)
(* What the way of the metrics from a client to the server's map promises: *)
(* a client makes batches of metrics, one batch after another; a metric    *)
(* reaches the map at most once and in any order, or is lost; nothing      *)
(* reaches it that was not made.  A server that restarts has an empty map. *)
(***************************************************************************)
EXTENDS Integers

CONSTANTS MaxBatches,  \* bound of the model
          Kinds        \* metrics in a batch (4 for each neighbour)

VARIABLES
  made,     \* how many batches there have been
  pending,  \* the metrics <<batch, kind>> on their way
  store     \* store[k]: the batch of which the map holds the metric k, or 0

vars == <<made, pending, store>>

Metrics(n) == {n} \X (1..Kinds)
Empty == [k \in 1..Kinds |-> 0]

Init == made = 0 /\ pending = {} /\ store = Empty

Make ==
  /\ made < MaxBatches
  /\ made' = made + 1
  /\ pending' = pending \cup Metrics(made + 1)
  /\ UNCHANGED store

Deliver(m) ==
  /\ m \in pending
  /\ pending' = pending \ {m}
  /\ store' = [store EXCEPT ![m[2]] = m[1]]
  /\ UNCHANGED made

Lose ==
  /\ pending' \subseteq pending
  /\ UNCHANGED <<made, store>>

Restart ==
  /\ pending' \subseteq pending
  /\ store' = Empty
  /\ UNCHANGED made

Next == Make \/ (\E m \in pending : Deliver(m)) \/ Lose \/ Restart

Spec == Init /\ [][Next]_vars
=============================================================================
