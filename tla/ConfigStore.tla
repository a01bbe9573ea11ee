---------------------------- MODULE ConfigStore ----------------------------
(***************************************************************************)
(* The configuration database: MysqlDb (model/mysql.rs) over the three     *)
(* tables of migrations/20240901094352_peers.sql.                          *)
(*                                                                         *)
(* Every operation is one transaction, and the server sends them one after *)
(* the other (db.write() in backend_manager.rs), so each is one step: it   *)
(* commits, or a statement fails and nothing changes.  What the operations *)
(* say of the tables' keys, the database enforces (external: InnoDB checks *)
(* a foreign key and a unique key at every statement).                     *)
(***************************************************************************)
EXTENDS Integers, FiniteSets

CONSTANTS Peers,     \* values of peers.peer_id
          Names,     \* values of tags.name
          MaxTag,    \* bound: the largest tag id
          NoRow,     \* "no such row in this table"
          NoParent   \* NULL in tags.parent

ASSUME TagAssumption == MaxTag \in Nat
ASSUME NullAssumption == NoParent \notin Int

VARIABLES
  peers,     \* peers[p]: the row of p, reduced to whether p is in maintenance
  tags,      \* tags[t]: the row of the tag with the id t
  peerTags   \* the rows of peer_tags

storeVars == <<peers, tags, peerTags>>

Ids == 0..MaxTag

PeerRows == {"active", "maintenance"}
TagRows  == [parent : Ids \cup {NoParent}, name : Names]

ASSUME RowAssumption == NoRow \notin PeerRows /\ NoRow \notin TagRows

\* The peers and the ids that have a row.
Stored == {p \in Peers : peers[p] # NoRow}
Used   == {t \in Ids : tags[t] # NoRow}

Children(t) == {c \in Used : tags[c].parent = t}

----------------------------------------------------------------------------
StoreInit ==
  /\ peers = [p \in Peers |-> NoRow]
  /\ tags = [t \in Ids |-> NoRow]
  /\ peerTags = {}

----------------------------------------------------------------------------
(* Peers. *)

\* INSERT INTO peers: refused if the peer has a row.
InsertPeer(p, row) ==
  /\ p \notin Stored
  /\ peers' = [peers EXCEPT ![p] = row]
  /\ UNCHANGED <<tags, peerTags>>

\* A row of peer_tags refers to the peer.
Tagged(p) == \E t \in Ids : <<p, t>> \in peerTags

\* DELETE FROM peers: refused while the peer has tags; nothing to do without a row.
DeletePeer(p) ==
  /\ ~Tagged(p)
  /\ peers' = [peers EXCEPT ![p] = NoRow]
  /\ UNCHANGED <<tags, peerTags>>

\* UPDATE peers SET maintenance: nothing to do without a row.
SetMaintenance(p, row) ==
  /\ peers' = [peers EXCEPT ![p] = IF @ = NoRow THEN NoRow ELSE row]
  /\ UNCHANGED <<tags, peerTags>>

----------------------------------------------------------------------------
(* Tags. *)

\* Mutant: SELECT COUNT(*) instead of the largest id plus one.
IsNextIdByCount(t) == t = Cardinality(Used) /\ t \notin Used

\* SELECT IFNULL(MAX(id), -1), plus one.
IsNextId(t) == (\A u \in Used : u < t) /\ (t = 0 \/ t - 1 \in Used)

\* UNIQUE(parent, name), in which NULL is equal to nothing.
NameTaken(parent, name) ==
  parent # NoParent /\ \E u \in Used : tags[u] = [parent |-> parent, name |-> name]

\* add_tag: the parent comes from the caller and is checked by the foreign key,
\* which the new row itself may satisfy.
InsertTag(t, parent, name) ==
  /\ IsNextId(t)
  /\ parent \in Used \cup {t, NoParent}
  /\ ~NameTaken(parent, name)
  /\ tags' = [tags EXCEPT ![t] = [parent |-> parent, name |-> name]]
  /\ UNCHANGED <<peers, peerTags>>

\* Mutant: no foreign key from peer_tags to tags.
DeletableUsed(t) ==
  /\ \A c \in Children(t) : ~NameTaken(tags[t].parent, tags[c].name)
  /\ tags[t].parent # t

\* del_tag moves the children up, deletes the tag and then its rows in peer_tags.
\* The first is refused if a child has the name of the tag or of a tag next to it, the
\* second as long as a peer has the tag or a row refers to it, which the row of a tag
\* that is its own parent does itself.
Deletable(t) ==
  /\ \A c \in Children(t) : ~NameTaken(tags[t].parent, tags[c].name)
  /\ \A p \in Peers : <<p, t>> \notin peerTags
  /\ tags[t].parent # t

\* Mutant: IFNULL(parent, -1) for the children of a tag without a parent.
DeleteTagToNone(t) ==
  /\ t \in Used
  /\ Deletable(t)
  /\ tags' = [u \in Ids |->
               IF u = t THEN NoRow
               ELSE IF u \in Children(t)
                 THEN [tags[u] EXCEPT !.parent = IF tags[t].parent = NoParent THEN -1 ELSE tags[t].parent]
               ELSE tags[u]]
  /\ UNCHANGED <<peers, peerTags>>

DeleteTag(t) ==
  /\ t \in Used
  /\ Deletable(t)
  /\ tags' = [u \in Ids |-> IF u = t THEN NoRow
                            ELSE IF u \in Children(t) THEN [tags[u] EXCEPT !.parent = tags[t].parent]
                            ELSE tags[u]]
  /\ UNCHANGED <<peers, peerTags>>

----------------------------------------------------------------------------
(* Tags of peers. *)

InsertPeerTag(p, t) ==
  /\ p \in Stored /\ t \in Used
  /\ <<p, t>> \notin peerTags
  /\ peerTags' = peerTags \cup {<<p, t>>}
  /\ UNCHANGED <<peers, tags>>

DeletePeerTag(p, t) ==
  /\ peerTags' = peerTags \ {<<p, t>>}
  /\ UNCHANGED <<peers, tags>>

----------------------------------------------------------------------------
StoreNext ==
  \/ \E p \in Peers : DeletePeer(p) \/ \E row \in PeerRows : InsertPeer(p, row) \/ SetMaintenance(p, row)
  \/ \E t \in Ids : \/ \E parent \in Ids \cup {NoParent}, name \in Names : InsertTag(t, parent, name)
                    \/ DeleteTag(t)
  \/ \E p \in Peers, t \in Ids : InsertPeerTag(p, t) \/ DeletePeerTag(p, t)

StoreSpec == StoreInit /\ [][StoreNext]_storeVars

----------------------------------------------------------------------------
(* Properties. *)

\* The tables hold rows of their types, as the columns declare them.
StoreTypeOK ==
  /\ peers \in [Peers -> PeerRows \cup {NoRow}]
  /\ tags \in [Ids -> TagRows \cup {NoRow}]
  /\ peerTags \subseteq Peers \X Ids

\* No tag is its own ancestor, other than one that is its own parent, which add_tag
\* does not exclude: a parent never has a larger id, although ids are used again and
\* children move up (mysql.rs:42-60, 61-84).
Hierarchy == \A t \in Used : tags[t].parent # NoParent => tags[t].parent <= t

\* Nothing refers to an id without a row, so that a tag that is given the id of a
\* deleted one has neither its peers nor its children (add_tag reuses the largest id).
NoDangling ==
  /\ \A p \in Peers, t \in Ids : <<p, t>> \in peerTags => p \in Stored /\ t \in Used
  /\ \A t \in Used : tags[t].parent \in Used \cup {NoParent}

\* DELETE /tags/:tag_id removes a tag that the database holds (README.md:162).
TagsRemovable == \A t \in Used : Deletable(t)
=============================================================================
