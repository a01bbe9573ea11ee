------------------------------ MODULE PeerMesh ------------------------------
(***************************************************************************)
(* The server's registry and the clients together: clients register, lose  *)
(* their stream and register again, the server and the clients crash and   *)
(* restart, and peers are added and removed meanwhile.  The claim: a       *)
(* client that follows the server will know every change of the server's   *)
(* table, and nothing else, once it has applied what is on its way.        *)
(***************************************************************************)
EXTENDS PeerRegistry, PeerClient

CONSTANTS Running,    \* the peers whose client process is part of the model
          NoSession
ASSUME SessionAssumption == NoSession \notin Sessions
ASSUME RunningAssumption == Running \subseteq Peers

VARIABLE sess   \* sess[p]: the session whose stream p reads, or NoSession

vars == <<serverVars, clientVars, sess>>

----------------------------------------------------------------------------
Init == RegistryInit /\ ClientInit /\ sess = [p \in Peers |-> NoSession]

\* p registers; one task of the client calls register, and again only after
\* update_processor has returned.
ClientRegister(s, p, a) ==
  /\ sess[p] = NoSession
  /\ Register(s, p, a)
  /\ sess' = [sess EXCEPT ![p] = s]
  /\ UNCHANGED clientVars

\* A register call whose answer no client of the model reads: the connection broke
\* before the answer, or the call waited for the lock while the client registered
\* once more, perhaps from another address, or the caller is not in Running.
LateRegister(s, p, a) == Register(s, p, a) /\ UNCHANGED <<clientVars, sess>>

\* client.message(): update_processor reads the next update of its stream.
ReceiveUpdate(p) ==
  /\ sess[p] # NoSession
  /\ stream[sess[p]] # <<>>
  /\ Enqueue(p, Head(stream[sess[p]]))
  /\ stream' = [stream EXCEPT ![sess[p]] = Tail(@)]
  /\ UNCHANGED <<clients, busy, open, pc, ring, lagged, gap, held, changes, sess>>

\* client.message() fails: the connection is gone.  The server may have noticed
\* before, or notices later, and nobody reads what the stream still holds.
LoseStream(p) ==
  /\ sess[p] # NoSession
  /\ sess' = [sess EXCEPT ![p] = NoSession]
  /\ UNCHANGED <<serverVars, clientVars>>

ClientRestart(p) ==
  /\ ForgetAll(p)
  /\ sess' = [sess EXCEPT ![p] = NoSession]
  /\ UNCHANGED serverVars

\* Everything the server and the clients do on their own.
ServerCalls ==
  \/ \E call \in Call : StartCall(call) /\ UNCHANGED <<clientVars, sess>>
  \/ \E call \in Call : CallRejected(call) /\ UNCHANGED <<clientVars, sess>>
  \/ \E p \in Peers : RegisterRejected(p) /\ UNCHANGED <<clientVars, sess>>
  \/ FinishCall /\ UNCHANGED <<clientVars, sess>>
  \/ Restart /\ UNCHANGED <<clientVars, sess>>

Streams(s) ==
  \/ Forward(s) /\ UNCHANGED <<clientVars, sess>>
  \/ DropStream(s) /\ UNCHANGED <<clientVars, sess>>

Client(p) ==
  \/ ReceiveUpdate(p)
  \/ ApplyUpdate(p) /\ UNCHANGED <<serverVars, sess>>
  \/ TakePeerList(p) /\ UNCHANGED <<serverVars, sess>>
  \/ LoseStream(p)
  \/ ClientRestart(p)

Next ==
  \/ ServerCalls
  \/ \E s \in Sessions : Streams(s)
  \/ \E p \in Running : Client(p)
  \/ \E s \in Sessions, a \in Addrs :
       \/ \E p \in Running : ClientRegister(s, p, a)
       \/ \E p \in Peers : LateRegister(s, p, a)

Spec == Init /\ [][Next]_vars

\* A task that can run does: the scheduler of tokio runs every ready task.
\* Nothing is assumed of connections, of restarts or of new calls.
Fairness ==
  /\ WF_vars(FinishCall /\ UNCHANGED <<clientVars, sess>>)
  /\ \A s \in Sessions : WF_vars(Forward(s) /\ UNCHANGED <<clientVars, sess>>)
  /\ \A p \in Running :
       /\ WF_vars(ReceiveUpdate(p))
       /\ WF_vars(ApplyUpdate(p) /\ UNCHANGED <<serverVars, sess>>)
       /\ WF_vars(TakePeerList(p) /\ UNCHANGED <<serverVars, sess>>)

FairSpec == Spec /\ Fairness

----------------------------------------------------------------------------
(* Properties. *)

\* p reads the stream of a session that the server has not given up and that has
\* lost no update to an overrun.
Following(p) ==
  /\ sess[p] # NoSession
  /\ open[sess[p]]
  /\ ~gap[sess[p]]

\* The updates on their way to the table of p, the next one first.
Pending(p) ==
  Pipe(inbox[p], stream[sess[p]], held[sess[p]], ring[sess[p]])

\* The shape of every reachable state of both sides (all of both source files).
TypeOK ==
  /\ clients \in Table
  /\ busy \in Call \cup {NoCall}
  /\ open \in [Sessions -> BOOLEAN]
  /\ pc \in [Sessions -> {"none", "check", "recv", "send", "done"}]
  /\ ring \in [Sessions -> Seq(Update)]
  /\ lagged \in [Sessions -> BOOLEAN]
  /\ gap \in [Sessions -> BOOLEAN]
  /\ held \in [Sessions -> Seq(Update)]
  /\ stream \in [Sessions -> Seq(Update)]
  /\ changes \in 0..MaxChanges
  /\ inbox \in [Peers -> Seq(Update)]
  /\ neigh \in [Peers -> Table]
  /\ outbox \in [Peers -> Seq([Listed -> Nat])]
  /\ targets \in [Peers -> [Listed -> Nat]]
  /\ sess \in [Peers -> Sessions \cup {NoSession}]

\* No queue ever holds more than its channel can (the capacities at
\* server_manager.rs:25,100, client_manager.rs:78, peers_controller.rs:49): every
\* sender waits or, in the broadcast channel, the oldest update makes room.
QueuesBounded ==
  /\ \A s \in Sessions : /\ Len(ring[s]) <= RingCap
                         /\ Len(stream[s]) <= StreamCap
                         /\ Len(held[s]) <= 1
  /\ \A p \in Peers : Len(inbox[p]) <= CtrlCap /\ Len(outbox[p]) <= OutCap

\* A stream that a client reads belongs to it alone, an open stream has a task that
\* feeds it, and a task holds an update exactly while it sends.
SessionsWellFormed ==
  /\ \A p, q \in Peers : sess[p] = sess[q] /\ sess[p] # NoSession => p = q
  /\ \A p \in Peers : sess[p] # NoSession => pc[sess[p]] # "none"
  /\ \A s \in Sessions :
       /\ open[s] => s \in Receivers
       /\ pc[s] = "send" <=> held[s] # <<>>
       /\ pc[s] = "none" => /\ ring[s] = <<>> /\ stream[s] = <<>>
                            /\ ~lagged[s] /\ ~gap[s]
       /\ lagged[s] => gap[s]

\* A client that follows the server misses no change of its table: what it holds of
\* another peer, or what the last update on its way says of it, is what the server
\* holds, however registrations, additions, removals and forwarding interleave
\* (register sends the Full, announces the address and subscribes in this order
\* under one lock, server_manager.rs:126-163).
NoLostUpdate ==
  \A p, q \in Peers :
    Following(p) /\ q # p => AgreesAfter(neigh[p][q], Pending(p), q, clients[q])

\* A client never probes itself: its own id is skipped in a Full and in an Add
\* (peers_controller.rs:196, 215), and that across any mixture of updates.
NeverOwnNeighbour == \A p \in Peers : neigh[p][p] = Absent

\* A client that stays connected ends with the table of the server, and with its
\* addresses in the task that sends the probes.
Converged(p) ==
  /\ \A q \in Peers \ {p} : Agrees(neigh[p][q], clients[q])
  /\ targets[p] = PeerList(neigh[p])

Convergence == \A p \in Running : <>[](Following(p) => Converged(p))

\* The task of a stream that is gone ends as soon as an update arrives for it, so its
\* receiver is not counted for ever (server_manager.rs:166: the loop test is all that
\* notices a closed stream).
Reapable(s) == ~open[s] /\ pc[s] = "recv" /\ ring[s] # <<>>
ClosedStreamReaped == \A s \in Sessions : Reapable(s) ~> pc[s] = "done"
=============================================================================
