----------------------------- MODULE PeerClient -----------------------------
(***************************************************************************)
(* The client's side of peer updates: the queue from update_processor to   *)
(* the PeerController (client_manager.rs), the controller's table of       *)
(* neighbours, and the queue of address lists to the task that sends the   *)
(* probes (peers_controller.rs).  What a neighbour's probes measured is    *)
(* not part of this module.                                                *)
(***************************************************************************)
EXTENDS PeerUpdates

CONSTANTS CtrlCap,  \* capacity of the controller's queue of updates (10)
          OutCap    \* capacity of the sending task's queue of lists (2)

ASSUME QueueAssumption == CtrlCap \in Nat \ {0} /\ OutCap \in Nat \ {0}

VARIABLES
  inbox,   \* inbox[p]: updates read from the stream and not yet applied
  neigh,   \* neigh[p]: PeerController.peers of p
  outbox,  \* outbox[p]: address lists not yet taken by the sending task
  targets  \* targets[p]: the addresses the sending task of p probes

clientVars == <<inbox, neigh, outbox, targets>>

ClientInit ==
  /\ inbox = [p \in Peers |-> <<>>]
  /\ neigh = [p \in Peers |-> EmptyTable]
  /\ outbox = [p \in Peers |-> <<>>]
  /\ targets = [p \in Peers |-> PeerList(EmptyTable)]

\* Mutant: a queue of updates without a bound.
EnqueueUnbounded(p, u) ==
  /\ inbox' = [inbox EXCEPT ![p] = Append(@, u)]
  /\ UNCHANGED <<neigh, outbox, targets>>

\* peer_tx.send(): update_processor passes an update on to the controller.  While
\* the queue is full it waits with the update in its hand, which the model leaves
\* where it came from until there is room.
Enqueue(p, u) ==
  /\ Len(inbox[p]) < CtrlCap
  /\ inbox' = [inbox EXCEPT ![p] = Append(@, u)]
  /\ UNCHANGED <<neigh, outbox, targets>>

\* work(): the controller applies the oldest update and sends the new list of
\* addresses.  Nothing sees the table while that send waits for room, so applying
\* and sending are one step.
ApplyUpdate(p) ==
  /\ inbox[p] # <<>>
  /\ Len(outbox[p]) < OutCap
  /\ neigh' = [neigh EXCEPT ![p] = Merge(p, @, Head(inbox[p]))]
  /\ inbox' = [inbox EXCEPT ![p] = Tail(@)]
  /\ outbox' = [outbox EXCEPT ![p] = Append(@, PeerList(neigh'[p]))]
  /\ UNCHANGED targets

\* The sending task takes the next list between two rounds of probes.
TakePeerList(p) ==
  /\ outbox[p] # <<>>
  /\ targets' = [targets EXCEPT ![p] = Head(outbox[p])]
  /\ outbox' = [outbox EXCEPT ![p] = Tail(@)]
  /\ UNCHANGED <<inbox, neigh>>

\* The client process stops and starts again.
ForgetAll(p) ==
  /\ inbox' = [inbox EXCEPT ![p] = <<>>]
  /\ neigh' = [neigh EXCEPT ![p] = EmptyTable]
  /\ outbox' = [outbox EXCEPT ![p] = <<>>]
  /\ targets' = [targets EXCEPT ![p] = PeerList(EmptyTable)]
=============================================================================
