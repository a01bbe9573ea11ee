------------------------------ MODULE AdminApi ------------------------------
(***************************************************************************)
(* The administration of peers over HTTP (backend_manager.rs): a handler   *)
(* first calls the gRPC server, which keeps the list of the peers that may *)
(* register, and then writes the database, which is what the list is made  *)
(* from when the server starts.  Nothing makes the two one step: requests  *)
(* interleave between them, either may fail, and a handler is dropped when *)
(* its caller disconnects or the server stops.                             *)
(***************************************************************************)
EXTENDS ConfigStore

CONSTANTS Requests,  \* HTTP requests that can be under way at a time
          Faulty     \* bound: whether calls fail and callers disconnect

ASSUME FaultyAssumption == Faulty \in BOOLEAN

VARIABLES
  registry,  \* the peers in ServerController.clients
  pending,   \* pending[r]: the request that has called the gRPC server, or NoRequest
  settled    \* settled[p]: see Settle (history variable)

vars == <<storeVars, registry, pending, settled>>

\* lone: the request has met no other request for its peer, and no failure.
NoRequest == [op |-> "none"]
Request   == [op : {"add", "del"}, peer : Peers, row : PeerRows, lone : BOOLEAN]

Busy(p) == {r \in Requests : pending[r] # NoRequest /\ pending[r].peer = p}

\* The last request for p that was answered with OK ran from beginning to end by
\* itself, and no request for p has failed since.
Settle(p, ok) == settled' = [settled EXCEPT ![p] = ok]

----------------------------------------------------------------------------
Init ==
  /\ StoreInit
  /\ registry = {}
  /\ pending = [r \in Requests |-> NoRequest]
  /\ settled = [p \in Peers |-> TRUE]

----------------------------------------------------------------------------
(* The first half of a handler: the call to the gRPC server. *)

\* The request goes on to the database; it and those it meets are not alone.
GoOn(r, op, p, row, fine) ==
  pending' = [x \in Requests |->
                IF x = r THEN [op |-> op, peer |-> p, row |-> row, lone |-> fine /\ Busy(p) = {}]
                ELSE IF x \in Busy(p) THEN [pending[x] EXCEPT !.lone = FALSE]
                ELSE pending[x]]

\* add_peer goes on only if the gRPC server added the peer.
AddPeer(r, p, row) ==
  /\ pending[r] = NoRequest
  /\ p \notin registry
  /\ registry' = registry \cup {p}
  /\ GoOn(r, "add", p, row, TRUE)
  /\ UNCHANGED <<storeVars, settled>>

\* Nothing was done: add_peer was answered AlreadyExists or Internal, or either
\* handler has no connection to the gRPC server.
Rejected(r, p) ==
  /\ pending[r] = NoRequest
  /\ p \in registry \/ Faulty
  /\ UNCHANGED vars

\* Mutant: del_peer forgets to tell the gRPC server.
DelPeerStoreOnly(r, p) ==
  /\ pending[r] = NoRequest
  /\ GoOn(r, "del", p, "active", TRUE)
  /\ UNCHANGED <<storeVars, registry, settled>>

\* del_peer goes on whatever the gRPC server answers: NotFound, or Internal, after
\* which the peer is still in the list.
DelPeer(r, p) ==
  /\ pending[r] = NoRequest
  /\ \/ /\ registry' = registry \ {p}
        /\ GoOn(r, "del", p, "active", TRUE)
     \/ /\ Faulty
        /\ p \in registry
        /\ GoOn(r, "del", p, "active", FALSE)
        /\ UNCHANGED registry
  /\ UNCHANGED <<storeVars, settled>>

----------------------------------------------------------------------------
(* The second half: the database. *)

\* The request is over; ok is what it was answered with.
Over(r, ok) ==
  /\ pending' = [pending EXCEPT ![r] = NoRequest]
  /\ Settle(pending[r].peer, ok /\ pending[r].lone)
  /\ UNCHANGED registry

Store(r) ==
  /\ pending[r] # NoRequest
  /\ \/ /\ pending[r].op = "add"
        /\ InsertPeer(pending[r].peer, pending[r].row)
     \/ /\ pending[r].op = "del"
        /\ DeletePeer(pending[r].peer)
  /\ Over(r, TRUE)

\* A key refuses the statement, or the database fails.
StoreFails(r) ==
  /\ pending[r] # NoRequest
  /\ \/ Faulty
     \/ pending[r].op = "add" /\ pending[r].peer \in Stored
     \/ pending[r].op = "del" /\ Tagged(pending[r].peer)
  /\ Over(r, FALSE)
  /\ UNCHANGED storeVars

\* The caller is gone and the handler with it, or add_peer has lost the connection to
\* the gRPC server before its answer.
Disconnect(r) ==
  /\ Faulty
  /\ pending[r] # NoRequest
  /\ Over(r, FALSE)
  /\ UNCHANGED storeVars

----------------------------------------------------------------------------
\* The handlers that only use the database, each one call of it.
StoreOnly ==
  /\ \/ \E p \in Peers, row \in PeerRows : SetMaintenance(p, row)
     \/ \E t \in Ids : \/ \E parent \in Ids \cup {NoParent}, name \in Names : InsertTag(t, parent, name)
                       \/ DeleteTag(t)
     \/ \E p \in Peers, t \in Ids : InsertPeerTag(p, t) \/ DeletePeerTag(p, t)
  /\ UNCHANGED <<registry, pending, settled>>

\* The server, both halves of it, stops and starts again (server.rs): the list of
\* peers is read from the database.
ServerRestart ==
  /\ registry' = Stored
  /\ pending' = [r \in Requests |-> NoRequest]
  /\ settled' = [p \in Peers |-> TRUE]
  /\ UNCHANGED storeVars

Next ==
  \/ \E r \in Requests, p \in Peers : \/ \E row \in PeerRows : AddPeer(r, p, row)
                                      \/ Rejected(r, p)
                                      \/ DelPeer(r, p)
  \/ \E r \in Requests : Store(r) \/ StoreFails(r) \/ Disconnect(r)
  \/ StoreOnly
  \/ ServerRestart

Spec == Init /\ [][Next]_vars

----------------------------------------------------------------------------
(* Properties. *)

\* The list, the requests and the history are of their types.
TypeOK ==
  /\ StoreTypeOK
  /\ registry \subseteq Peers
  /\ pending \in [Requests -> Request \cup {NoRequest}]
  /\ settled \in [Peers -> BOOLEAN]

\* The list and the database agree on p.
Agree(p) == p \in registry <=> p \in Stored

\* They agree on every peer that no request is about, if the last one that was
\* answered met neither a failure nor another request for the peer: one such request,
\* or a restart, is all it takes to bring them together again (backend_manager.rs
\* 202-269).
SettledAgree == \A p \in Peers : settled[p] /\ Busy(p) = {} => Agree(p)

\* Why SettledAgree is inductive: a request that is alone is the only one for its peer,
\* and what it has done to the list is still so: an added peer may register before the
\* database knows it, a removed one cannot although the database still holds it.
LoneHalfDone ==
  \A r \in Requests :
    pending[r] # NoRequest /\ pending[r].lone =>
      /\ Busy(pending[r].peer) = {r}
      /\ pending[r].peer \in registry <=> pending[r].op = "add"

\* "if peer id exists in DB, proceed" (server_manager.rs:128): whenever no request is
\* under way, the peers that may register are those in the database.
RegisterFollowsDb ==
  (\A r \in Requests : pending[r] = NoRequest) => registry = Stored
=============================================================================
