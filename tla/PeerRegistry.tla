---------------------------- MODULE PeerRegistry ----------------------------
(***************************************************************************)
(* ServerController (server_manager.rs): the table of known peers, the     *)
(* broadcast channel of peer updates, and one forwarding task per register *)
(* call, which copies what it reads from the broadcast channel into the    *)
(* response stream of that call.                                           *)
(*                                                                         *)
(* A session is one successful register call.  Its forwarder is            *)
(*                                                                         *)
(*     while !tx.is_closed() {                         pc = "check"        *)
(*         if let Ok(update) = receiver.recv().await { pc = "recv"         *)
(*             let _ = tx.send(Ok(update)).await; } }  pc = "send"         *)
(*                                                                         *)
(* and each of the three awaits is a step.  The write lock on the table is *)
(* held by one handler at a time; the handlers that do not await while     *)
(* they hold it are one step, add_peer and remove_peer two, because        *)
(* forwarders may exit (they take no lock) between the test of             *)
(* receiver_count and the send.                                            *)
(***************************************************************************)
EXTENDS PeerUpdates

CONSTANTS Sessions,    \* register calls that succeed
          RingCap,     \* capacity of the broadcast channel (128)
          StreamCap,   \* capacity of a response channel (10)
          MaxChanges   \* bound: add_peer and remove_peer calls, and restarts

ASSUME CapAssumption == /\ RingCap \in Nat \ {0}
                        /\ StreamCap \in Nat \ {0}
                        /\ MaxChanges \in Nat

VARIABLES
  clients,  \* ServerController.clients
  busy,     \* the add_peer or remove_peer call about to send, or NoCall
  open,     \* open[s]: the stream side (rx) of s has not been dropped
  pc,       \* pc[s]: where the forwarder of s is
  ring,     \* ring[s]: updates broadcast and not yet read by the receiver of s
  lagged,   \* lagged[s]: the next recv of s returns Err(Lagged)
  gap,      \* gap[s]: the receiver of s lost an update that way (history variable)
  held,     \* held[s]: the update the forwarder of s is sending, if any
  stream,   \* stream[s]: sent on s and not yet read by the client
  changes   \* calls and restarts so far, at most MaxChanges

sessionVars == <<open, pc, ring, lagged, gap, held, stream>>
serverVars  == <<clients, busy, sessionVars, changes>>

NoCall == [op |-> "none"]
Call   == [op : {"add", "remove"}, peer : Peers]

\* The sessions whose broadcast receiver exists; receiver_count() counts these.
Receivers == {s \in Sessions : pc[s] \in {"check", "recv", "send"}}

----------------------------------------------------------------------------
RegistryInit ==
  /\ clients \in [Peers -> {NoAddr, Absent}]
  /\ busy = NoCall
  /\ open = [s \in Sessions |-> FALSE]
  /\ pc = [s \in Sessions |-> "none"]
  /\ ring = [s \in Sessions |-> <<>>]
  /\ lagged = [s \in Sessions |-> FALSE]
  /\ gap = [s \in Sessions |-> FALSE]
  /\ held = [s \in Sessions |-> <<>>]
  /\ stream = [s \in Sessions |-> <<>>]
  /\ changes = 0

----------------------------------------------------------------------------
(* The broadcast channel. *)

\* The channel keeps the last RingCap updates: a receiver that has as many
\* unread loses the oldest of them.
Keep(us, u) == IF Len(us) < RingCap THEN Append(us, u) ELSE Append(Tail(us), u)

\* broadcast::Sender::send to every receiver there is.
Broadcast(u) ==
  LET overrun(s) == s \in Receivers /\ Len(ring[s]) = RingCap
  IN  /\ ring' = [s \in Sessions |-> IF s \in Receivers THEN Keep(ring[s], u) ELSE ring[s]]
      /\ lagged' = [s \in Sessions |-> lagged[s] \/ overrun(s)]
      /\ gap' = [s \in Sessions |-> gap[s] \/ overrun(s)]

----------------------------------------------------------------------------
(* Handlers. *)

\* Mutant: the others hear of an address only the first time that one is known.
RegisterAnnouncingOnce(s, p, a) ==
  /\ busy = NoCall
  /\ pc[s] = "none"
  /\ clients[p] # Absent
  /\ open' = [open EXCEPT ![s] = TRUE]
  /\ pc' = [pc EXCEPT ![s] = "check"]
  /\ stream' = [stream EXCEPT ![s] = <<FullUpdate(clients)>>]
  /\ clients' = [clients EXCEPT ![p] = a]
  /\ IF clients[p] = NoAddr THEN Broadcast(AddUpdate(p, a)) ELSE UNCHANGED <<ring, lagged, gap>>
  /\ UNCHANGED <<busy, held, changes>>

\* register: under the write lock, the caller is sent the list of the peers whose
\* address is known; if it registers from another address than the one on
\* record, the others are told; only then does it subscribe to the channel.
Register(s, p, a) ==
  /\ busy = NoCall
  /\ pc[s] = "none"
  /\ clients[p] # Absent
  /\ open' = [open EXCEPT ![s] = TRUE]
  /\ pc' = [pc EXCEPT ![s] = "check"]
  /\ stream' = [stream EXCEPT ![s] = <<FullUpdate(clients)>>]
  /\ clients' = [clients EXCEPT ![p] = a]
  /\ IF clients[p] # a THEN Broadcast(AddUpdate(p, a)) ELSE UNCHANGED <<ring, lagged, gap>>
  /\ UNCHANGED <<busy, held, changes>>

\* register: NotFound for a peer that the table does not hold.
RegisterRejected(p) ==
  /\ busy = NoCall
  /\ clients[p] = Absent
  /\ UNCHANGED serverVars

\* add_peer and remove_peer: AlreadyExists and NotFound.
CallRejected(call) ==
  /\ busy = NoCall
  /\ (call.op = "add") <=> (clients[call.peer] # Absent)
  /\ UNCHANGED serverVars

\* What add_peer and remove_peer do to the table.
Effect(call) == [clients EXCEPT ![call.peer] = IF call.op = "add" THEN NoAddr ELSE Absent]

Notice(call) == IF call.op = "add" THEN AddUpdate(call.peer, NoAddr)
                                   ELSE RemoveUpdate(call.peer, clients[call.peer])

\* add_peer and remove_peer up to the test of receiver_count: with no receiver
\* the table changes at once, otherwise the call goes on to announce the change.
StartCall(call) ==
  /\ busy = NoCall
  /\ changes < MaxChanges
  /\ (call.op = "add") <=> (clients[call.peer] = Absent)
  /\ changes' = changes + 1
  /\ \/ /\ Receivers = {}
        /\ clients' = Effect(call)
        /\ UNCHANGED busy
     \/ /\ Receivers # {}
        /\ busy' = call
        /\ UNCHANGED clients
  /\ UNCHANGED sessionVars

\* Mutant: the table changes and nobody is told.
FinishCallSilent ==
  /\ busy # NoCall
  /\ busy' = NoCall
  /\ clients' = Effect(busy)
  /\ UNCHANGED <<open, pc, ring, lagged, gap, held, stream, changes>>

\* The announcement: the table changes only if at least one receiver is left
\* to hear of it, otherwise the call fails with Internal.
FinishCall ==
  /\ busy # NoCall
  /\ busy' = NoCall
  /\ \/ /\ Receivers # {}
        /\ Broadcast(Notice(busy))
        /\ clients' = Effect(busy)
     \/ /\ Receivers = {}
        /\ UNCHANGED <<clients, ring, lagged, gap>>
  /\ UNCHANGED <<open, pc, held, stream, changes>>

----------------------------------------------------------------------------
(* The forwarding task of session s. *)

\* Mutant: while true.
ForwardCheckNothing(s) ==
  /\ pc[s] = "check"
  /\ pc' = [pc EXCEPT ![s] = "recv"]
  /\ UNCHANGED <<clients, busy, open, ring, lagged, gap, held, stream, changes>>

\* tx.is_closed(): an open session waits for an update; a closed one ends, which
\* drops its receiver with whatever that had not read.
ForwardCheck(s) ==
  /\ pc[s] = "check"
  /\ \/ /\ open[s]
        /\ pc' = [pc EXCEPT ![s] = "recv"]
        /\ UNCHANGED <<ring, lagged, gap>>
     \/ /\ ~open[s]
        /\ pc' = [pc EXCEPT ![s] = "done"]
        /\ ring' = [ring EXCEPT ![s] = <<>>]
        /\ lagged' = [lagged EXCEPT ![s] = FALSE]
        /\ gap' = [gap EXCEPT ![s] = FALSE]
  /\ UNCHANGED <<clients, busy, open, held, stream, changes>>

\* Mutant: while let Ok(update) = receiver.recv(), so an overrun ends the task.
ForwardRecvWhileOk(s) ==
  /\ pc[s] = "recv"
  /\ \/ /\ lagged[s]
        /\ lagged' = [lagged EXCEPT ![s] = FALSE]
        /\ gap' = [gap EXCEPT ![s] = FALSE]
        /\ ring' = [ring EXCEPT ![s] = <<>>]
        /\ pc' = [pc EXCEPT ![s] = "done"]
        /\ UNCHANGED held
     \/ /\ ~lagged[s]
        /\ ring[s] # <<>>
        /\ held' = [held EXCEPT ![s] = <<Head(ring[s])>>]
        /\ ring' = [ring EXCEPT ![s] = Tail(@)]
        /\ pc' = [pc EXCEPT ![s] = "send"]
        /\ UNCHANGED <<lagged, gap>>
  /\ UNCHANGED <<clients, busy, open, stream, changes>>

\* receiver.recv(): Err(Lagged) once after an overrun, which the task ignores,
\* else the oldest update; an open receiver with nothing to read waits here,
\* whether its stream is still open or not.
ForwardRecv(s) ==
  /\ pc[s] = "recv"
  /\ \/ /\ lagged[s]
        /\ lagged' = [lagged EXCEPT ![s] = FALSE]
        /\ pc' = [pc EXCEPT ![s] = "check"]
        /\ UNCHANGED <<ring, held>>
     \/ /\ ~lagged[s]
        /\ ring[s] # <<>>
        /\ held' = [held EXCEPT ![s] = <<Head(ring[s])>>]
        /\ ring' = [ring EXCEPT ![s] = Tail(@)]
        /\ pc' = [pc EXCEPT ![s] = "send"]
        /\ UNCHANGED lagged
  /\ UNCHANGED <<clients, busy, open, gap, stream, changes>>

\* Mutant: try_send, which drops the update when the stream has no room.
ForwardTrySend(s) ==
  /\ pc[s] = "send"
  /\ IF open[s] /\ Len(stream[s]) < StreamCap
       THEN stream' = [stream EXCEPT ![s] = @ \o held[s]]
       ELSE UNCHANGED stream
  /\ held' = [held EXCEPT ![s] = <<>>]
  /\ pc' = [pc EXCEPT ![s] = "check"]
  /\ UNCHANGED <<clients, busy, open, ring, lagged, gap, changes>>

\* tx.send(): waits for room; on a closed stream the update is dropped.
ForwardSend(s) ==
  /\ pc[s] = "send"
  /\ \/ /\ open[s]
        /\ Len(stream[s]) < StreamCap
        /\ stream' = [stream EXCEPT ![s] = @ \o held[s]]
     \/ /\ ~open[s]
        /\ UNCHANGED stream
  /\ held' = [held EXCEPT ![s] = <<>>]
  /\ pc' = [pc EXCEPT ![s] = "check"]
  /\ UNCHANGED <<clients, busy, open, ring, lagged, gap, changes>>

Forward(s) == ForwardCheck(s) \/ ForwardRecv(s) \/ ForwardSend(s)

----------------------------------------------------------------------------
(* The environment. *)

\* The server notices that the connection of s is gone and drops rx.  What it
\* had not delivered is lost when the client loses its end (PeerMesh).
DropStream(s) ==
  /\ open[s]
  /\ open' = [open EXCEPT ![s] = FALSE]
  /\ UNCHANGED <<clients, busy, pc, ring, lagged, gap, held, stream, changes>>

\* The server process stops and starts again: every session ends, and the table
\* is what the database holds, without addresses (ServerController::new).  The
\* database is not part of this module: it may hold any peers.
Restart ==
  /\ changes < MaxChanges
  /\ changes' = changes + 1
  /\ clients' \in [Peers -> {NoAddr, Absent}]
  /\ busy' = NoCall
  /\ open' = [s \in Sessions |-> FALSE]
  /\ pc' = [s \in Sessions |-> IF pc[s] = "none" THEN "none" ELSE "done"]
  /\ ring' = [s \in Sessions |-> <<>>]
  /\ lagged' = [s \in Sessions |-> FALSE]
  /\ gap' = [s \in Sessions |-> FALSE]
  /\ held' = [s \in Sessions |-> <<>>]
  /\ UNCHANGED stream
=============================================================================
