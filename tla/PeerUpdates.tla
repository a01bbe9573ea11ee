---------------------------- MODULE PeerUpdates ----------------------------
(***************************************************************************)
(* The PeerUpdate message (proto/aimsir.proto) and what a client's         *)
(* PeerController does with one (peers_controller.rs, the manager_receiver *)
(* branch of work).                                                        *)
(*                                                                         *)
(* A table of peers, the server's Vec<Peer> and the client's HashMap of    *)
(* neighbours alike, is a total function: Absent stands for a peer that    *)
(* the table does not hold and NoAddr for one held with the empty string   *)
(* as its address, which is how the server lists a peer that has not       *)
(* registered yet.  The two timers that every update also carries are the  *)
(* same constants in every update, and are left out here.                  *)
(***************************************************************************)
EXTENDS Integers, Sequences, FiniteSets

CONSTANTS Peers,    \* ids of the monitored nodes
          Addrs,    \* addresses a node may register from
          NoAddr,   \* the empty ipaddress
          Absent    \* "no such peer in this table"

ASSUME AddrAssumption == /\ NoAddr \notin Addrs
                         /\ Absent \notin Addrs
                         /\ NoAddr # Absent
ASSUME PeersAssumption == IsFiniteSet(Peers)

Listed == Addrs \cup {NoAddr}

Table == [Peers -> Listed \cup {Absent}]

EmptyTable == [q \in Peers |-> Absent]

Update == [type : {"Full", "Add", "Remove"}, peers : Table]

----------------------------------------------------------------------------
(* The three updates the server makes. *)

\* The list a peer receives when it registers: the peers whose address is known.
FullUpdate(table) ==
  [type  |-> "Full",
   peers |-> [q \in Peers |-> IF table[q] = NoAddr THEN Absent ELSE table[q]]]

AddUpdate(p, a) == [type |-> "Add", peers |-> [EmptyTable EXCEPT ![p] = a]]

\* Mutant: an update of a kind that no client knows.
RemoveUpdateUnknown(p, a) == [type |-> "Delete", peers |-> [EmptyTable EXCEPT ![p] = a]]

RemoveUpdate(p, a) == [type |-> "Remove", peers |-> [EmptyTable EXCEPT ![p] = a]]

----------------------------------------------------------------------------
(* What a client's neighbour table becomes; the client skips its own id in *)
(* a Full and in an Add.                                                   *)

ReplaceAll(self, u) == [u.peers EXCEPT ![self] = Absent]

\* Mutant: an Add does not skip the client's own id.
AddAllWithSelf(self, table, u) ==
  [q \in Peers |-> IF u.peers[q] # Absent THEN u.peers[q] ELSE table[q]]

AddAll(self, table, u) ==
  [q \in Peers |-> IF q # self /\ u.peers[q] # Absent THEN u.peers[q] ELSE table[q]]

RemoveAll(table, u) ==
  [q \in Peers |-> IF u.peers[q] # Absent THEN Absent ELSE table[q]]

Merge(self, table, u) ==
  CASE u.type = "Full"   -> ReplaceAll(self, u)
    [] u.type = "Add"    -> AddAll(self, table, u)
    [] u.type = "Remove" -> RemoveAll(table, u)

\* make_peer_list: one entry per neighbour, its address; a bag of addresses,
\* since two neighbours may share one.
PeerList(table) == [a \in Listed |-> Cardinality({q \in Peers : table[q] = a})]

----------------------------------------------------------------------------
(* Reading an update, for the properties. *)

Mentions(u, q) == u.type = "Full" \/ u.peers[q] # Absent

Says(u, q) == IF u.type = "Remove" THEN Absent ELSE u.peers[q]

\* Four queues in a row, the one nearest to the client's table first.
Pipe(i, st, h, r) == i \o (st \o (h \o r))

\* known is what a client should hold of a peer that the server holds as actual:
\* the same, except that a peer without an address may be missing, for it is left
\* out of a Full.
Agrees(known, actual) == known = actual \/ (known = Absent /\ actual = NoAddr)

\* A client that holds known of q agrees with actual once it has applied us.
AgreesAfter(known, us, q, actual) ==
  /\ (\A i \in DOMAIN us : ~Mentions(us[i], q)) => Agrees(known, actual)
  /\ \A i \in DOMAIN us :
       (Mentions(us[i], q) /\ \A j \in DOMAIN us : j > i => ~Mentions(us[j], q))
         => Agrees(Says(us[i], q), actual)
============================================================================
