-------------------------- MODULE ConfigStoreProofs --------------------------
(***************************************************************************)
(* The hierarchy of tags and the references between the tables, for any    *)
(* peers, names and bound on the ids.                                      *)
(***************************************************************************)
EXTENDS ConfigStore, TLAPS

\* Together they are inductive: that a child moves up to a tag that exists, and not to
\* one with a larger id, takes all three.
StoreInv == StoreTypeOK /\ Hierarchy /\ NoDangling

\* The empty tables.
LEMMA InitStore == StoreInit => StoreInv
BY DEF StoreInit, StoreInv, StoreTypeOK, Hierarchy, NoDangling, Stored, Used

\* What a tag's row holds.
LEMMA RowTyped ==
  ASSUME StoreTypeOK, NEW t \in Used
  PROVE  /\ t \in Ids /\ t \in Nat
         /\ tags[t] \in TagRows
         /\ tags[t].parent \in Ids \cup {NoParent}
         /\ tags[t].name \in Names
<1>1. t \in Ids /\ tags[t] # NoRow
  BY DEF Used
<1>2. tags[t] \in TagRows
  BY <1>1 DEF StoreTypeOK
<1> QED
  BY <1>1, <1>2, TagAssumption DEF TagRows, Ids

\* A new tag has the largest id, and its parent exists.
LEMMA InsertTagKeeps ==
  ASSUME StoreInv, NEW t \in Ids, NEW parent \in Ids \cup {NoParent}, NEW name \in Names,
         InsertTag(t, parent, name)
  PROVE  StoreInv'
<1> USE DEF StoreInv
<1> DEFINE row == [parent |-> parent, name |-> name]
<1>1. row \in TagRows /\ row # NoRow
  BY RowAssumption DEF TagRows
<1>2. tags' = [tags EXCEPT ![t] = row] /\ UNCHANGED <<peers, peerTags>>
  BY DEF InsertTag
<1>3. StoreTypeOK'
  BY <1>1, <1>2 DEF StoreTypeOK
<1>4. Used' = Used \cup {t}
  BY <1>1, <1>2 DEF Used, StoreTypeOK
<1>5. \A u \in Ids : u # t => tags'[u] = tags[u]
  BY <1>2 DEF StoreTypeOK
<1>6. tags'[t].parent = parent
  BY <1>2 DEF StoreTypeOK
<1>7. \A u \in Used : u < t /\ u \in Ids /\ u \in Nat
  BY RowTyped DEF InsertTag, IsNextId
<1>8. t \in Nat /\ parent \in Used \cup {t, NoParent}
  BY TagAssumption DEF InsertTag, Ids
<1>9. Hierarchy'
  <2> SUFFICES ASSUME NEW u \in Used', tags'[u].parent # NoParent
               PROVE  tags'[u].parent <= u
    BY DEF Hierarchy
  <2>1. CASE u = t
    BY <2>1, <1>6, <1>7, <1>8
  <2>2. CASE u # t
    BY <2>2, <1>4, <1>5, <1>7 DEF Hierarchy
  <2> QED
    BY <2>1, <2>2
<1>10. NoDangling'
  <2>1. \A p \in Peers, u \in Ids : <<p, u>> \in peerTags' => p \in Stored' /\ u \in Used'
    BY <1>2, <1>4 DEF NoDangling, Stored
  <2>2. ASSUME NEW u \in Used'
        PROVE  tags'[u].parent \in Used' \cup {NoParent}
    <3>1. CASE u = t
      BY <3>1, <1>4, <1>6, <1>8
    <3>2. CASE u # t
      BY <3>2, <1>4, <1>5, <1>7 DEF NoDangling
    <3> QED
      BY <3>1, <3>2
  <2> QED
    BY <2>1, <2>2 DEF NoDangling
<1> QED
  BY <1>3, <1>9, <1>10

\* The children of a deleted tag move to its parent, which is not the tag itself.
LEMMA DeleteTagKeeps ==
  ASSUME StoreInv, NEW t \in Ids, DeleteTag(t)
  PROVE  StoreInv'
<1> USE DEF StoreInv
<1>1. /\ t \in Used /\ UNCHANGED <<peers, peerTags>>
      /\ \A p \in Peers : <<p, t>> \notin peerTags
      /\ tags[t].parent = t => Children(t) = {t}
  BY DEF DeleteTag, Deletable
<1>2. tags' = [u \in Ids |-> IF u = t THEN NoRow
                            ELSE IF u \in Children(t) THEN [tags[u] EXCEPT !.parent = tags[t].parent]
                            ELSE tags[u]]
  BY DEF DeleteTag
<1>3. tags[t] \in TagRows /\ tags[t].parent \in Ids \cup {NoParent}
  BY <1>1, RowTyped
<1>4. \A u \in Children(t) : u \in Used /\ u \in Ids /\ tags[u].parent = t
  BY DEF Children, Used
<1>5. ASSUME NEW u \in Children(t)
      PROVE  /\ [tags[u] EXCEPT !.parent = tags[t].parent] \in TagRows
             /\ [tags[u] EXCEPT !.parent = tags[t].parent].parent = tags[t].parent
  BY <1>3, <1>4, RowTyped DEF TagRows
<1>6. StoreTypeOK'
  <2>1. ASSUME NEW u \in Ids
        PROVE  tags'[u] \in TagRows \cup {NoRow}
    BY <1>2, <1>5 DEF StoreTypeOK
  <2> QED
    BY <1>1, <1>2, <2>1 DEF StoreTypeOK
<1>7. \A u \in Used' : u \in Used /\ u # t /\ u \in Ids
  BY <1>2, <1>4 DEF Used
<1>8. ASSUME NEW u \in Used'
      PROVE  /\ u \in Children(t) => tags'[u].parent = tags[t].parent /\ tags[t].parent # t
             /\ u \notin Children(t) => tags'[u].parent = tags[u].parent /\ tags[u].parent # t
  <2>1. CASE u \in Children(t)
    <3>1. tags[t].parent # t
      BY <1>1, <1>7, <2>1
    <3> QED
      BY <1>2, <1>5, <1>7, <2>1, <3>1
  <2>2. CASE u \notin Children(t)
    BY <1>2, <1>7, <2>2 DEF Children
  <2> QED
    BY <2>1, <2>2
<1>9. ASSUME NEW u \in Used, u # t
      PROVE  u \in Used'
  <2>1. tags[u] # NoRow /\ u \in Ids
    BY DEF Used
  <2>2. tags'[u] # NoRow
    BY <1>2, <1>5, <1>9, <2>1, RowAssumption
  <2> QED
    BY <2>1, <2>2 DEF Used
<1>10. \A u \in Used : u \in Nat /\ tags[u].parent \in Nat \cup {NoParent}
  BY RowTyped, TagAssumption DEF Ids
<1>11. Hierarchy'
  <2> SUFFICES ASSUME NEW u \in Used', tags'[u].parent # NoParent
               PROVE  tags'[u].parent <= u
    BY DEF Hierarchy
  <2>1. CASE u \in Children(t)
    <3>1. tags'[u].parent = tags[t].parent /\ tags[t].parent # NoParent /\ tags[u].parent = t
      BY <1>4, <1>8, <2>1
    <3>2. tags[t].parent <= t /\ t <= u
      BY <1>1, <1>7, <3>1, NullAssumption, TagAssumption DEF Hierarchy, Ids
    <3>3. u \in Nat /\ t \in Nat /\ tags[t].parent \in Nat
      BY <1>1, <1>7, <1>10, <3>1
    <3> QED
      BY <3>1, <3>2, <3>3
  <2>2. CASE u \notin Children(t)
    BY <1>7, <1>8, <2>2 DEF Hierarchy
  <2> QED
    BY <2>1, <2>2
<1>12. NoDangling'
  <2>1. \A p \in Peers, u \in Ids : <<p, u>> \in peerTags' => p \in Stored' /\ u \in Used'
    BY <1>1, <1>9 DEF NoDangling, Stored
  <2>2. ASSUME NEW u \in Used'
        PROVE  tags'[u].parent \in Used' \cup {NoParent}
    <3>1. CASE u \in Children(t)
      BY <1>1, <1>8, <1>9, <3>1 DEF NoDangling
    <3>2. CASE u \notin Children(t)
      BY <1>7, <1>8, <1>9, <3>2 DEF NoDangling
    <3> QED
      BY <3>1, <3>2
  <2> QED
    BY <2>1, <2>2 DEF NoDangling
<1> QED
  BY <1>6, <1>11, <1>12

\* The operations on peers and their tags.
LEMMA PeersKeep ==
  ASSUME StoreInv, NEW p \in Peers,
         \/ DeletePeer(p)
         \/ \E row \in PeerRows : InsertPeer(p, row) \/ SetMaintenance(p, row)
         \/ \E t \in Ids : InsertPeerTag(p, t) \/ DeletePeerTag(p, t)
  PROVE  StoreInv'
<1> USE RowAssumption DEF StoreInv
<1>1. ASSUME DeletePeer(p)
      PROVE  StoreInv'
  BY <1>1 DEF DeletePeer, Tagged, StoreTypeOK, Hierarchy, NoDangling, Stored, Used
<1>2. ASSUME NEW row \in PeerRows, InsertPeer(p, row) \/ SetMaintenance(p, row)
      PROVE  StoreInv'
  BY <1>2 DEF InsertPeer, SetMaintenance, StoreTypeOK, Hierarchy, NoDangling, Stored, Used
<1>3. ASSUME NEW t \in Ids, InsertPeerTag(p, t)
      PROVE  StoreInv'
  BY <1>3 DEF InsertPeerTag, StoreTypeOK, Hierarchy, NoDangling, Stored, Used
<1>4. ASSUME NEW t \in Ids, DeletePeerTag(p, t)
      PROVE  StoreInv'
  BY <1>4 DEF DeletePeerTag, StoreTypeOK, Hierarchy, NoDangling, Stored, Used
<1> QED
  BY <1>1, <1>2, <1>3, <1>4

\* Every operation of the store keeps the invariant.
LEMMA StoreStep == StoreInv /\ [StoreNext]_storeVars => StoreInv'
<1> SUFFICES ASSUME StoreInv, [StoreNext]_storeVars PROVE StoreInv'
  OBVIOUS
<1>1. CASE UNCHANGED storeVars
  BY <1>1 DEF storeVars, StoreInv, StoreTypeOK, Hierarchy, NoDangling, Stored, Used
<1>2. CASE StoreNext
  BY <1>2, PeersKeep, InsertTagKeeps, DeleteTagKeeps DEF StoreNext
<1> QED
  BY <1>1, <1>2

\* The tables stay of their types, for any peers, names and ids.
THEOREM StoreTyped == StoreSpec => []StoreTypeOK
<1>1. StoreInv => StoreTypeOK
  BY DEF StoreInv
<1> QED
  BY InitStore, StoreStep, <1>1, PTL DEF StoreSpec

\* The tags stay a hierarchy, however ids are reused and tags deleted.
THEOREM HierarchyHolds == StoreSpec => []Hierarchy
<1>1. StoreInv => Hierarchy
  BY DEF StoreInv
<1> QED
  BY InitStore, StoreStep, <1>1, PTL DEF StoreSpec

\* A reused id brings along nothing of the tag that had it before.
THEOREM NothingDangles == StoreSpec => []NoDangling
<1>1. StoreInv => NoDangling
  BY DEF StoreInv
<1> QED
  BY InitStore, StoreStep, <1>1, PTL DEF StoreSpec
=============================================================================
