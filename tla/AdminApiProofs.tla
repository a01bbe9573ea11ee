--------------------------- MODULE AdminApiProofs ---------------------------
(***************************************************************************)
(* When the list of peers and the database agree, for any peers, tags and  *)
(* number of requests under way, with or without faults.                   *)
(***************************************************************************)
EXTENDS AdminApi, ConfigStoreProofs

\* Each of the three needs the other two.
AdminInv == TypeOK /\ LoneHalfDone /\ SettledAgree

\* The server starts with an empty database and without requests.
LEMMA InitAdmin == Init => AdminInv
<1> SUFFICES ASSUME Init PROVE AdminInv
  OBVIOUS
<1>1. StoreTypeOK
  BY InitStore DEF Init, StoreInv
<1> QED
  BY <1>1 DEF Init, StoreInit, AdminInv, TypeOK, LoneHalfDone, SettledAgree, Agree, Stored

\* A request is not "none".
LEMMA RequestTyped ==
  ASSUME TypeOK, NEW r \in Requests, pending[r] # NoRequest
  PROVE  /\ pending[r] \in Request
         /\ pending[r].peer \in Peers /\ pending[r].op \in {"add", "del"}
         /\ pending[r].lone \in BOOLEAN /\ pending[r].row \in PeerRows
BY DEF TypeOK, Request

\* What follows a call of the gRPC server that changed at most the entry of p.
LEMMA GoOnKeeps ==
  ASSUME AdminInv, NEW r \in Requests, NEW p \in Peers, NEW row \in PeerRows,
         NEW op \in {"add", "del"}, NEW fine \in BOOLEAN,
         pending[r] = NoRequest, GoOn(r, op, p, row, fine), UNCHANGED <<storeVars, settled>>,
         registry' \subseteq Peers,
         \A q \in Peers \ {p} : q \in registry' <=> q \in registry,
         fine => (p \in registry' <=> op = "add")
  PROVE  AdminInv'
<1> DEFINE new == [op |-> op, peer |-> p, row |-> row, lone |-> fine /\ Busy(p) = {}]
<1>1. /\ new \in Request /\ new # NoRequest
      /\ new.peer = p /\ new.op = op /\ new.lone = (fine /\ Busy(p) = {})
  BY DEF Request, NoRequest
<1>2. pending'[r] = new
  BY DEF GoOn
<1> HIDE DEF new
<1>3. \A x \in Busy(p) : x \in Requests /\ x # r /\ pending[x] # NoRequest /\ pending[x].peer = p
  BY DEF Busy
<1>4. ASSUME NEW x \in Busy(p)
      PROVE  /\ pending'[x] \in Request /\ pending'[x] # NoRequest
             /\ pending'[x].peer = p /\ pending'[x].lone = FALSE
  <2>1. pending[x] \in Request
    BY <1>3, RequestTyped DEF AdminInv
  <2>2. pending'[x] = [pending[x] EXCEPT !.lone = FALSE]
    BY <1>3 DEF GoOn
  <2>3. pending'[x] \in Request
    BY <2>1, <2>2 DEF Request
  <2> QED
    BY <1>3, <2>1, <2>2, <2>3 DEF Request, NoRequest
<1>5. \A x \in Requests : x # r /\ x \notin Busy(p) => pending'[x] = pending[x]
  BY DEF GoOn
<1>6. TypeOK'
  <2>1. StoreTypeOK'
    BY DEF storeVars, AdminInv, TypeOK, StoreTypeOK
  <2>2. \A x \in Requests : pending'[x] \in Request \cup {NoRequest}
    BY <1>1, <1>2, <1>4, <1>5 DEF AdminInv, TypeOK
  <2>3. pending' \in [Requests -> Request \cup {NoRequest}]
    BY <2>2 DEF GoOn
  <2> QED
    BY <2>1, <2>3 DEF AdminInv, TypeOK
<1>7. r \in Busy(p)' /\ Busy(p)' = Busy(p) \cup {r}
  <2>1. r \in Busy(p)'
    BY <1>1, <1>2 DEF Busy
  <2>2. \A x \in Requests : x # r => (x \in Busy(p)' <=> x \in Busy(p))
    BY <1>4, <1>5 DEF Busy
  <2>3. Busy(p) \subseteq Requests /\ Busy(p)' \subseteq Requests
    BY DEF Busy
  <2> QED
    BY <2>1, <2>2, <2>3
<1>8. ASSUME NEW q \in Peers, q # p
      PROVE  Busy(q)' = Busy(q)
  <2>1. r \notin Busy(q)' /\ r \notin Busy(q)
    BY <1>1, <1>2, <1>8 DEF Busy
  <2>2. \A x \in Requests : x # r => (x \in Busy(q)' <=> x \in Busy(q))
    BY <1>3, <1>4, <1>5, <1>8 DEF Busy
  <2>3. Busy(q) \subseteq Requests /\ Busy(q)' \subseteq Requests
    BY DEF Busy
  <2> QED
    BY <2>1, <2>2, <2>3
<1>9. LoneHalfDone'
  <2> SUFFICES ASSUME NEW x \in Requests, pending'[x] # NoRequest, pending'[x].lone
               PROVE  /\ Busy(pending[x].peer)' = {x}
                      /\ pending'[x].peer \in registry' <=> pending'[x].op = "add"
    BY DEF LoneHalfDone
  <2>1. CASE x = r
    <3>1. pending'[x].peer = p /\ pending'[x].op = op /\ fine /\ Busy(p) = {}
      BY <1>1, <1>2, <2>1
    <3>2. Busy(p)' = {x}
      BY <1>7, <2>1, <3>1
    <3>3. Busy(pending[x].peer)' = Busy(p)'
      BY <3>1 DEF Busy
    <3> QED
      BY <3>1, <3>2, <3>3
  <2>2. CASE x # r
    <3>1. x \notin Busy(p) /\ pending'[x] = pending[x]
      BY <1>4, <1>5, <2>2
    <3>2. pending[x].peer \in Peers /\ pending[x].peer # p
      BY <3>1, RequestTyped DEF AdminInv, Busy
    <3> QED
      BY <1>8, <3>1, <3>2 DEF AdminInv, LoneHalfDone
  <2> QED
    BY <2>1, <2>2
<1>10. SettledAgree'
  <2> SUFFICES ASSUME NEW q \in Peers, settled'[q], Busy(q)' = {}
               PROVE  Agree(q)'
    BY DEF SettledAgree
  <2>1. q # p
    BY <1>7
  <2> QED
    BY <1>8, <2>1 DEF AdminInv, SettledAgree, Agree, Stored, storeVars
<1> QED
  BY <1>6, <1>9, <1>10 DEF AdminInv

\* A request that ends leaves its peer settled only if both stores agree on it.
LEMMA OverKeeps ==
  ASSUME AdminInv, NEW r \in Requests, pending[r] # NoRequest, NEW ok \in BOOLEAN,
         Over(r, ok), StoreTypeOK',
         \A q \in Peers : q # pending[r].peer => (q \in Stored' <=> q \in Stored),
         ok => (pending[r].peer \in Stored' <=> pending[r].op = "add")
  PROVE  AdminInv'
<1> DEFINE p == pending[r].peer
<1>1. /\ registry' = registry
      /\ pending' = [pending EXCEPT ![r] = NoRequest]
      /\ settled' = [settled EXCEPT ![p] = ok /\ pending[r].lone]
  BY DEF Over, Settle
<1>2. p \in Peers /\ pending[r].lone \in BOOLEAN
  BY RequestTyped DEF AdminInv
<1>3. TypeOK'
  BY <1>1, <1>2 DEF AdminInv, TypeOK
<1>4. \A x \in Requests : pending'[x] = IF x = r THEN NoRequest ELSE pending[x]
  BY <1>1 DEF AdminInv, TypeOK
<1>5. \A q \in Peers : q # p => Busy(q)' = Busy(q)
  BY <1>4 DEF Busy
<1>6. \A q \in Peers : Busy(q)' = Busy(q) \ {r}
  BY <1>4 DEF Busy
<1>7. LoneHalfDone'
  <2> SUFFICES ASSUME NEW x \in Requests, pending'[x] # NoRequest, pending'[x].lone
               PROVE  /\ Busy(pending[x].peer)' = {x}
                      /\ pending'[x].peer \in registry' <=> pending'[x].op = "add"
    BY DEF LoneHalfDone
  <2>1. x # r /\ pending'[x] = pending[x]
    BY <1>4
  <2>2. Busy(pending[x].peer) = {x} /\ pending[x].peer \in Peers
    BY <2>1, RequestTyped DEF AdminInv, LoneHalfDone
  <2> QED
    BY <1>1, <1>6, <2>1, <2>2 DEF AdminInv, LoneHalfDone
<1>8. SettledAgree'
  <2> SUFFICES ASSUME NEW q \in Peers, settled'[q], Busy(q)' = {}
               PROVE  Agree(q)'
    BY DEF SettledAgree
  <2>1. CASE q = p
    <3>1. ok /\ pending[r].lone
      BY <1>1, <1>2, <2>1 DEF AdminInv, TypeOK
    <3> QED
      BY <1>1, <2>1, <3>1 DEF AdminInv, LoneHalfDone, Agree
  <2>2. CASE q # p
    <3>1. settled[q] /\ Busy(q) = {}
      BY <1>1, <1>5, <2>2 DEF AdminInv, TypeOK
    <3> QED
      BY <1>1, <2>2, <3>1 DEF AdminInv, SettledAgree, Agree
  <2> QED
    BY <2>1, <2>2
<1> QED
  BY <1>3, <1>7, <1>8 DEF AdminInv

\* Whatever a handler does to the database is one operation of the store.
LEMMA StepOfStore == TypeOK /\ [Next]_vars => [StoreNext]_storeVars
<1> SUFFICES ASSUME TypeOK, [Next]_vars PROVE [StoreNext]_storeVars
  OBVIOUS
<1>1. CASE UNCHANGED vars
  BY <1>1 DEF vars, storeVars
<1>2. ASSUME NEW r \in Requests, NEW p \in Peers,
             (\E row \in PeerRows : AddPeer(r, p, row)) \/ Rejected(r, p) \/ DelPeer(r, p)
      PROVE  UNCHANGED storeVars
  BY <1>2 DEF AddPeer, Rejected, DelPeer, vars, storeVars
<1>3. ASSUME NEW r \in Requests, Store(r)
      PROVE  StoreNext
  BY <1>3, RequestTyped DEF Store, StoreNext
<1>4. ASSUME NEW r \in Requests, StoreFails(r) \/ Disconnect(r)
      PROVE  UNCHANGED storeVars
  BY <1>4 DEF StoreFails, Disconnect
<1>5. CASE StoreOnly
  BY <1>5 DEF StoreOnly, StoreNext
<1>6. CASE ServerRestart
  BY <1>6 DEF ServerRestart
<1> QED
  BY <1>1, <1>2, <1>3, <1>4, <1>5, <1>6 DEF Next

\* One step of any handler, of any number of them.
LEMMA AdminStep == AdminInv /\ StoreInv /\ [Next]_vars => AdminInv'
<1> SUFFICES ASSUME AdminInv, StoreInv, [Next]_vars PROVE AdminInv'
  OBVIOUS
<1>1. TypeOK /\ StoreTypeOK'
  BY StepOfStore, StoreStep DEF AdminInv, StoreInv
<1>2. CASE UNCHANGED vars
  BY <1>2 DEF vars, storeVars, AdminInv, TypeOK, StoreTypeOK, LoneHalfDone, SettledAgree, Agree, Busy, Stored
<1>3. ASSUME NEW r \in Requests, NEW p \in Peers, NEW row \in PeerRows, AddPeer(r, p, row)
      PROVE  AdminInv'
  <2>1. registry' = registry \cup {p} /\ registry \subseteq Peers
    BY <1>1, <1>3 DEF AddPeer, TypeOK
  <2> QED
    BY <1>3, <2>1, GoOnKeeps DEF AddPeer
<1>4. ASSUME NEW r \in Requests, NEW p \in Peers, Rejected(r, p)
      PROVE  UNCHANGED vars
  BY <1>4 DEF Rejected
<1>5. ASSUME NEW r \in Requests, NEW p \in Peers, DelPeer(r, p)
      PROVE  AdminInv'
  <2>1. /\ pending[r] = NoRequest /\ UNCHANGED <<storeVars, settled>>
        /\ registry \subseteq Peers /\ "active" \in PeerRows
    BY <1>1, <1>5 DEF DelPeer, TypeOK, PeerRows
  <2>2. CASE registry' = registry \ {p} /\ GoOn(r, "del", p, "active", TRUE)
    BY <2>1, <2>2, GoOnKeeps
  <2>3. CASE UNCHANGED registry /\ GoOn(r, "del", p, "active", FALSE)
    BY <2>1, <2>3, GoOnKeeps
  <2> QED
    BY <1>5, <2>2, <2>3 DEF DelPeer
<1>6. ASSUME NEW r \in Requests, Store(r)
      PROVE  AdminInv'
  <2>1. pending[r] # NoRequest /\ Over(r, TRUE) /\ pending[r].peer \in Peers /\ pending[r].row \in PeerRows
    BY <1>1, <1>6, RequestTyped DEF Store
  <2>2. /\ \A q \in Peers : q # pending[r].peer => (q \in Stored' <=> q \in Stored)
        /\ pending[r].peer \in Stored' <=> pending[r].op = "add"
    <3>1. CASE pending[r].op = "add" /\ InsertPeer(pending[r].peer, pending[r].row)
      BY <1>1, <2>1, <3>1, RowAssumption DEF InsertPeer, TypeOK, StoreTypeOK, Stored
    <3>2. CASE pending[r].op = "del" /\ DeletePeer(pending[r].peer)
      BY <1>1, <2>1, <3>2 DEF DeletePeer, TypeOK, StoreTypeOK, Stored
    <3> QED
      BY <1>6, <3>1, <3>2 DEF Store
  <2> QED
    BY <1>1, <2>1, <2>2, OverKeeps
<1>7. ASSUME NEW r \in Requests, StoreFails(r) \/ Disconnect(r)
      PROVE  AdminInv'
  <2>1. pending[r] # NoRequest /\ Over(r, FALSE) /\ Stored' = Stored
    BY <1>7 DEF StoreFails, Disconnect, storeVars, Stored
  <2> QED
    BY <1>1, <2>1, OverKeeps
<1>8. CASE StoreOnly
  <2>1. Stored' = Stored
    BY <1>1, <1>8, RowAssumption DEF StoreOnly, SetMaintenance, InsertTag, DeleteTag, InsertPeerTag,
         DeletePeerTag, TypeOK, StoreTypeOK, Stored
  <2>2. UNCHANGED <<registry, pending, settled>>
    BY <1>8 DEF StoreOnly
  <2> QED
    BY <1>1, <2>1, <2>2 DEF AdminInv, TypeOK, LoneHalfDone, SettledAgree, Agree, Busy
<1>9. CASE ServerRestart
  <2>1. registry' = Stored' /\ Stored' \subseteq Peers /\ \A r \in Requests : pending'[r] = NoRequest
    BY <1>9 DEF ServerRestart, storeVars, Stored
  <2>2. TypeOK'
    BY <1>1, <1>9, <2>1 DEF ServerRestart, TypeOK
  <2> QED
    BY <2>1, <2>2 DEF AdminInv, LoneHalfDone, SettledAgree, Agree
<1> QED
  BY <1>2, <1>3, <1>4, <1>5, <1>6, <1>7, <1>8, <1>9 DEF Next

\* Both invariants at once.
LEMMA AdminInvariant == Spec => [](AdminInv /\ StoreInv)
<1>1. Init => AdminInv /\ StoreInv
  BY InitAdmin, InitStore DEF Init
<1>2. AdminInv /\ StoreInv /\ [Next]_vars => (AdminInv /\ StoreInv)'
  <2> SUFFICES ASSUME AdminInv, StoreInv, [Next]_vars PROVE (AdminInv /\ StoreInv)'
    OBVIOUS
  <2>1. AdminInv'
    BY AdminStep
  <2>2. StoreInv'
    BY StepOfStore, StoreStep DEF AdminInv
  <2> QED
    BY <2>1, <2>2
<1> QED
  BY <1>1, <1>2, PTL DEF Spec

\* The list of peers and the database agree on every peer whose last request went well
\* and by itself, however the requests for the other peers interleave and fail.
THEOREM SettledStoresAgree == Spec => []SettledAgree
<1>1. AdminInv => SettledAgree
  BY DEF AdminInv
<1> QED
  BY AdminInvariant, <1>1, PTL

\* The handlers use the database only by its operations, one at a time: what holds of
\* ConfigStore by itself, the hierarchy of tags among it, holds behind the handlers.
THEOREM AdminImplementsStore == Spec => StoreSpec
<1>1. Init => StoreInit
  BY DEF Init
<1>2. AdminInv /\ [Next]_vars => [StoreNext]_storeVars
  BY StepOfStore DEF AdminInv
<1> QED
  BY AdminInvariant, <1>1, <1>2, PTL DEF Spec, StoreSpec

\* Behind the handlers, whatever fails and whenever the server restarts: the tables are of
\* their types, tags are a hierarchy, and nothing refers to a row that is not there.
THEOREM TablesStaySound == Spec => [](StoreTypeOK /\ Hierarchy /\ NoDangling)
<1> QED
  BY AdminImplementsStore, StoreTyped, HierarchyHolds, NothingDangles, PTL
=============================================================================
