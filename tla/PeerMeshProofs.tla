---------------------------- MODULE PeerMeshProofs ----------------------------
(***************************************************************************)
(* Proofs of the safety properties of PeerMesh, for any peers, addresses,  *)
(* sessions, capacities and bound on the changes.                          *)
(***************************************************************************)
EXTENDS PeerMesh, PeerUpdatesProofs

\* Everything that a step of no interest to a property may leave alone.
restVars == <<clientVars, sess>>

\* A step of the specification is one of these.
LEMMA StepCases ==
  ASSUME [Next]_vars
  PROVE  \/ \E call \in Call : StartCall(call) /\ UNCHANGED restVars
         \/ FinishCall /\ UNCHANGED restVars
         \/ Restart /\ UNCHANGED restVars
         \/ \E s \in Sessions : /\ UNCHANGED restVars
                                /\ \/ ForwardCheck(s)
                                   \/ ForwardRecv(s)
                                   \/ ForwardSend(s)
                                   \/ DropStream(s)
         \/ \E p \in Peers : ReceiveUpdate(p) \/ LoseStream(p) \/ ClientRestart(p)
         \/ \E p \in Peers : /\ UNCHANGED <<serverVars, sess>>
                             /\ ApplyUpdate(p) \/ TakePeerList(p)
         \/ \E s \in Sessions, p \in Peers, a \in Addrs :
              ClientRegister(s, p, a) \/ LateRegister(s, p, a)
         \/ UNCHANGED vars
<1>1. CASE ServerCalls
  BY <1>1 DEF ServerCalls, CallRejected, RegisterRejected, restVars, vars
<1>2. CASE \E s \in Sessions : Streams(s)
  BY <1>2 DEF Streams, Forward, restVars
<1>3. CASE \E p \in Running : Client(p)
  <2>1. PICK p \in Running : Client(p)
    BY <1>3
  <2>2. p \in Peers
    BY RunningAssumption
  <2> QED
    BY <2>1, <2>2 DEF Client
<1> QED
  BY <1>1, <1>2, <1>3, RunningAssumption DEF Next

----------------------------------------------------------------------------
(* The broadcast channel. *)

\* What a receiver keeps is a queue of updates within its capacity, and all of it
\* unless the queue was full.
LEMMA KeepProperties ==
  ASSUME NEW us \in Seq(Update), NEW u \in Update
  PROVE  /\ Keep(us, u) \in Seq(Update)
         /\ Len(us) <= RingCap => Len(Keep(us, u)) <= RingCap
         /\ Len(us) < RingCap => Keep(us, u) = Append(us, u)
<1>1. CASE Len(us) < RingCap
  <2>1. Append(us, u) \in Seq(Update) /\ Len(Append(us, u)) = Len(us) + 1
    BY AppendProperties
  <2>2. Len(us) + 1 <= RingCap
    BY <1>1, CapAssumption, LenProperties
  <2> QED
    BY <1>1, <2>1, <2>2 DEF Keep
<1>2. CASE ~(Len(us) < RingCap)
  <2>1. Len(us) \in Nat /\ us # <<>>
    BY <1>2, CapAssumption, LenProperties, EmptySeq
  <2>2. Tail(us) \in Seq(Update) /\ Len(Tail(us)) = Len(us) - 1
    BY <2>1, HeadTailProperties
  <2>3. /\ Append(Tail(us), u) \in Seq(Update)
        /\ Len(Append(Tail(us), u)) = Len(us) - 1 + 1
    BY <2>2, AppendProperties
  <2>4. Keep(us, u) = Append(Tail(us), u)
    BY <1>2 DEF Keep
  <2>5. Len(Append(Tail(us), u)) = Len(us)
    BY <2>1, <2>3
  <2>6. Keep(us, u) \in Seq(Update) /\ Len(Keep(us, u)) = Len(us)
    BY <2>3, <2>4, <2>5, Zenon
  <2> QED
    BY <1>2, <2>6, Zenon
<1> QED
  BY <1>1, <1>2

\* A broadcast keeps the types of what it changes.
LEMMA BroadcastTyped ==
  ASSUME TypeOK, NEW u \in Update, Broadcast(u)
  PROVE  /\ ring' \in [Sessions -> Seq(Update)]
         /\ lagged' \in [Sessions -> BOOLEAN]
         /\ gap' \in [Sessions -> BOOLEAN]
<1>1. \A s \in Sessions : Keep(ring[s], u) \in Seq(Update)
  BY KeepProperties DEF TypeOK
<1> QED
  BY <1>1 DEF TypeOK, Broadcast

\* The update that add_peer or remove_peer announces, and its effect on the table.
LEMMA CallTyped ==
  ASSUME TypeOK, NEW call \in Call
  PROVE  Notice(call) \in Update /\ Effect(call) \in Table
<1>1. call.peer \in Peers /\ clients[call.peer] \in Listed \cup {Absent}
  BY DEF TypeOK, Call, Table
<1>2. Notice(call) \in Update
  BY <1>1, UpdatesTyped DEF Notice, Listed, TypeOK
<1>3. Effect(call) \in Table
  BY <1>1 DEF Effect, TypeOK, Table, Listed
<1> QED
  BY <1>2, <1>3

\* register, whoever calls it.
LEMMA RegisterTyped ==
  ASSUME TypeOK, NEW s \in Sessions, NEW p \in Peers, NEW a \in Addrs, Register(s, p, a)
  PROVE  /\ clients' \in Table
         /\ open' \in [Sessions -> BOOLEAN]
         /\ pc' \in [Sessions -> {"none", "check", "recv", "send", "done"}]
         /\ ring' \in [Sessions -> Seq(Update)]
         /\ lagged' \in [Sessions -> BOOLEAN]
         /\ gap' \in [Sessions -> BOOLEAN]
         /\ stream' \in [Sessions -> Seq(Update)]
         /\ UNCHANGED <<busy, held, changes>>
<1>1. a \in Listed
  BY DEF Listed
<1>2. FullUpdate(clients) \in Update /\ AddUpdate(p, a) \in Update
  BY <1>1, UpdatesTyped DEF TypeOK
<1>3. /\ ring' \in [Sessions -> Seq(Update)]
      /\ lagged' \in [Sessions -> BOOLEAN]
      /\ gap' \in [Sessions -> BOOLEAN]
  <2>1. CASE clients[p] # a
    BY <2>1, <1>2, BroadcastTyped DEF Register
  <2>2. CASE clients[p] = a
    BY <2>2 DEF Register, TypeOK
  <2> QED
    BY <2>1, <2>2
<1>4. <<FullUpdate(clients)>> \in Seq(Update)
  BY <1>2
<1>5. clients' \in Table
  BY <1>1 DEF Register, TypeOK, Table
<1>6. stream' \in [Sessions -> Seq(Update)]
  BY <1>4 DEF Register, TypeOK
<1> QED
  BY <1>3, <1>5, <1>6 DEF Register, TypeOK

----------------------------------------------------------------------------
(* Type correctness. *)

\* The initial states are well typed.
LEMMA InitTyped == Init => TypeOK
<1> SUFFICES ASSUME Init PROVE TypeOK
  OBVIOUS
<1>1. <<>> \in Seq(Update) /\ <<>> \in Seq([Listed -> Nat])
  BY EmptySeq
<1>2. EmptyTable \in Table /\ PeerList(EmptyTable) \in [Listed -> Nat]
  BY PeerListTyped DEF EmptyTable, Table
<1>3. clients \in Table
  BY DEF Init, RegistryInit, Table, Listed
<1>4. 0 \in 0..MaxChanges
  BY CapAssumption
<1> QED
  BY <1>1, <1>2, <1>3, <1>4 DEF Init, RegistryInit, ClientInit, TypeOK

\* Every step keeps the types.
LEMMA StepTyped == TypeOK /\ [Next]_vars => TypeOK'
<1> SUFFICES ASSUME TypeOK, [Next]_vars PROVE TypeOK'
  OBVIOUS
<1> USE DEF TypeOK
<1>1. ASSUME NEW call \in Call, StartCall(call), UNCHANGED restVars
      PROVE  TypeOK'
  <2>1. changes' \in 0..MaxChanges
    BY <1>1, CapAssumption DEF StartCall
  <2>2. clients' \in Table /\ busy' \in Call \cup {NoCall}
    BY <1>1, CallTyped DEF StartCall
  <2> QED
    BY <1>1, <2>1, <2>2 DEF StartCall, sessionVars, restVars, clientVars
<1>2. ASSUME UNCHANGED vars
      PROVE  TypeOK'
  BY <1>2 DEF vars, serverVars, sessionVars, clientVars
<1>3. ASSUME FinishCall, UNCHANGED restVars
      PROVE  TypeOK'
  <2>1. busy \in Call
    BY <1>3 DEF FinishCall
  <2>2. Notice(busy) \in Update /\ Effect(busy) \in Table
    BY <2>1, CallTyped
  <2>3. /\ ring' \in [Sessions -> Seq(Update)]
        /\ lagged' \in [Sessions -> BOOLEAN]
        /\ gap' \in [Sessions -> BOOLEAN]
    <3>1. CASE Broadcast(Notice(busy))
      BY <3>1, <2>2, BroadcastTyped
    <3>2. CASE UNCHANGED <<ring, lagged, gap>>
      BY <3>2
    <3> QED
      BY <1>3, <3>1, <3>2 DEF FinishCall
  <2>4. clients' \in Table
    BY <1>3, <2>2 DEF FinishCall
  <2> QED
    BY <1>3, <2>3, <2>4 DEF FinishCall, restVars, clientVars
<1>4. ASSUME Restart, UNCHANGED restVars
      PROVE  TypeOK'
  <2>1. clients' \in Table
    BY <1>4 DEF Restart, Table, Listed
  <2>2. changes' \in 0..MaxChanges
    BY <1>4, CapAssumption DEF Restart
  <2>3. <<>> \in Seq(Update)
    BY EmptySeq
  <2> QED
    BY <1>4, <2>1, <2>2, <2>3 DEF Restart, restVars, clientVars
<1>5. ASSUME NEW s \in Sessions, ForwardCheck(s), UNCHANGED restVars
      PROVE  TypeOK'
  <2>1. <<>> \in Seq(Update)
    BY EmptySeq
  <2>2. CASE open[s]
    BY <1>5, <2>2 DEF ForwardCheck, restVars, clientVars
  <2>3. CASE ~open[s]
    <3>1. ring' \in [Sessions -> Seq(Update)]
      BY <1>5, <2>1, <2>3 DEF ForwardCheck
    <3>2. /\ lagged' \in [Sessions -> BOOLEAN]
          /\ gap' \in [Sessions -> BOOLEAN]
          /\ pc' \in [Sessions -> {"none", "check", "recv", "send", "done"}]
      BY <1>5, <2>3 DEF ForwardCheck
    <3> QED
      BY <1>5, <3>1, <3>2 DEF ForwardCheck, restVars, clientVars
  <2> QED
    BY <2>2, <2>3
<1>6. ASSUME NEW s \in Sessions, ForwardRecv(s), UNCHANGED restVars
      PROVE  TypeOK'
  <2>1. CASE lagged[s]
    BY <1>6, <2>1 DEF ForwardRecv, restVars, clientVars
  <2>2. CASE ~lagged[s]
    <3>1. ring[s] \in Seq(Update) /\ ring[s] # <<>>
      BY <1>6, <2>2 DEF ForwardRecv
    <3>2. Head(ring[s]) \in Update /\ Tail(ring[s]) \in Seq(Update)
      BY <3>1, HeadTailProperties
    <3>3. <<Head(ring[s])>> \in Seq(Update)
      BY <3>2
    <3>4. held' \in [Sessions -> Seq(Update)]
      <4>1. held' = [held EXCEPT ![s] = <<Head(ring[s])>>]
        BY <1>6, <2>2 DEF ForwardRecv
      <4> QED
        BY <4>1, <3>3
    <3>5. ring' \in [Sessions -> Seq(Update)]
      BY <1>6, <2>2, <3>2 DEF ForwardRecv
    <3> QED
      BY <1>6, <2>2, <3>4, <3>5 DEF ForwardRecv, restVars, clientVars
  <2> QED
    BY <2>1, <2>2
<1>7. ASSUME NEW s \in Sessions, ForwardSend(s), UNCHANGED restVars
      PROVE  TypeOK'
  <2>1. <<>> \in Seq(Update) /\ stream[s] \o held[s] \in Seq(Update)
    BY EmptySeq, ConcatProperties
  <2> QED
    BY <1>7, <2>1 DEF ForwardSend, restVars, clientVars
<1>8. ASSUME NEW s \in Sessions, DropStream(s), UNCHANGED restVars
      PROVE  TypeOK'
  BY <1>8 DEF DropStream, restVars, clientVars
<1>9. ASSUME NEW p \in Peers, ReceiveUpdate(p)
      PROVE  TypeOK'
  <2>1. sess[p] \in Sessions /\ stream[sess[p]] \in Seq(Update) /\ stream[sess[p]] # <<>>
    BY <1>9 DEF ReceiveUpdate
  <2>2. Head(stream[sess[p]]) \in Update /\ Tail(stream[sess[p]]) \in Seq(Update)
    BY <2>1, HeadTailProperties
  <2>3. Append(inbox[p], Head(stream[sess[p]])) \in Seq(Update)
    BY <2>2, AppendProperties
  <2> QED
    BY <1>9, <2>1, <2>2, <2>3 DEF ReceiveUpdate, Enqueue
<1>10. ASSUME NEW p \in Peers, ApplyUpdate(p), UNCHANGED <<serverVars, sess>>
       PROVE  TypeOK'
  <2>1. inbox[p] \in Seq(Update) /\ inbox[p] # <<>>
    BY <1>10 DEF ApplyUpdate
  <2>2. Head(inbox[p]) \in Update /\ Tail(inbox[p]) \in Seq(Update)
    BY <2>1, HeadTailProperties
  <2>3. neigh' \in [Peers -> Table]
    BY <1>10, <2>2, MergeTyped DEF ApplyUpdate
  <2>4. Append(outbox[p], PeerList(neigh'[p])) \in Seq([Listed -> Nat])
    BY PeerListTyped, AppendProperties
  <2> QED
    BY <1>10, <2>2, <2>3, <2>4 DEF ApplyUpdate, serverVars, sessionVars
<1>11. ASSUME NEW p \in Peers, TakePeerList(p), UNCHANGED <<serverVars, sess>>
       PROVE  TypeOK'
  <2>1. outbox[p] \in Seq([Listed -> Nat]) /\ outbox[p] # <<>>
    BY <1>11 DEF TakePeerList
  <2>2. Head(outbox[p]) \in [Listed -> Nat] /\ Tail(outbox[p]) \in Seq([Listed -> Nat])
    BY <2>1, HeadTailProperties
  <2> QED
    BY <1>11, <2>2 DEF TakePeerList, serverVars, sessionVars
<1>12. ASSUME NEW p \in Peers, LoseStream(p)
       PROVE  TypeOK'
  BY <1>12 DEF LoseStream, serverVars, sessionVars, clientVars
<1>13. ASSUME NEW p \in Peers, ClientRestart(p)
       PROVE  TypeOK'
  <2>1. <<>> \in Seq(Update) /\ <<>> \in Seq([Listed -> Nat])
    BY EmptySeq
  <2>2. EmptyTable \in Table /\ PeerList(EmptyTable) \in [Listed -> Nat]
    BY PeerListTyped DEF EmptyTable, Table
  <2> QED
    BY <1>13, <2>1, <2>2 DEF ClientRestart, ForgetAll, serverVars, sessionVars
<1>14. ASSUME NEW s \in Sessions, NEW p \in Peers, NEW a \in Addrs, Register(s, p, a),
              UNCHANGED clientVars, sess' \in [Peers -> Sessions \cup {NoSession}]
       PROVE  TypeOK'
  BY <1>14, RegisterTyped DEF clientVars
<1>15. ASSUME NEW s \in Sessions, NEW p \in Peers, NEW a \in Addrs, ClientRegister(s, p, a)
       PROVE  TypeOK'
  BY <1>14, <1>15 DEF ClientRegister
<1>16. ASSUME NEW s \in Sessions, NEW p \in Peers, NEW a \in Addrs, LateRegister(s, p, a)
       PROVE  TypeOK'
  BY <1>14, <1>16 DEF LateRegister
<1> QED
  BY <1>1, <1>2, <1>3, <1>4, <1>5, <1>6, <1>7, <1>8, <1>9, <1>10, <1>11, <1>12, <1>13,
     <1>15, <1>16, StepCases

\* Type correctness of the server's registry and the clients
\* (server_manager.rs:96-234, client_manager.rs:202-219, peers_controller.rs:189-252).
THEOREM TypeCorrect == Spec => []TypeOK
<1> QED
  BY InitTyped, StepTyped, PTL DEF Spec

----------------------------------------------------------------------------
(* Capacities. *)

\* A broadcast keeps every ring within its capacity.
LEMMA BroadcastBounded ==
  ASSUME TypeOK, QueuesBounded, NEW u \in Update, Broadcast(u), NEW s \in Sessions
  PROVE  Len(ring'[s]) <= RingCap
<1>1. ring[s] \in Seq(Update) /\ Len(ring[s]) <= RingCap
  BY DEF TypeOK, QueuesBounded
<1>2. ring'[s] = IF s \in Receivers THEN Keep(ring[s], u) ELSE ring[s]
  BY DEF Broadcast
<1>3. Len(Keep(ring[s], u)) <= RingCap
  BY <1>1, KeepProperties
<1> QED
  BY <1>1, <1>2, <1>3

\* A queue with room has room for what a forwarder holds, which is at most one.
LEMMA RoomForOne ==
  ASSUME NEW m \in Nat, NEW n \in Nat, NEW cap \in Nat, m < cap, n <= 1
  PROVE  m + n <= cap
OBVIOUS

\* Every step keeps the queues within their capacities.
LEMMA StepBounded == TypeOK /\ QueuesBounded /\ [Next]_vars => QueuesBounded'
<1> SUFFICES ASSUME TypeOK, QueuesBounded, [Next]_vars PROVE QueuesBounded'
  OBVIOUS
<1> USE DEF QueuesBounded
<1>0. Len(<<>>) = 0 /\ RingCap \in Nat \ {0} /\ StreamCap \in Nat \ {0}
      /\ CtrlCap \in Nat \ {0} /\ OutCap \in Nat \ {0}
  BY CapAssumption, QueueAssumption
<1>1. ASSUME NEW call \in Call, StartCall(call), UNCHANGED restVars
      PROVE  QueuesBounded'
  BY <1>1 DEF StartCall, sessionVars, restVars, clientVars
<1>2. ASSUME UNCHANGED vars
      PROVE  QueuesBounded'
  BY <1>2 DEF vars, serverVars, sessionVars, clientVars
<1>3. ASSUME FinishCall, UNCHANGED restVars
      PROVE  QueuesBounded'
  <2>1. busy \in Call
    BY <1>3 DEF FinishCall, TypeOK
  <2>2. \A s \in Sessions : Len(ring'[s]) <= RingCap
    <3>1. CASE Broadcast(Notice(busy))
      BY <3>1, <2>1, CallTyped, BroadcastBounded
    <3>2. CASE UNCHANGED ring
      BY <3>2
    <3> QED
      BY <1>3, <3>1, <3>2 DEF FinishCall
  <2> QED
    BY <1>3, <2>2 DEF FinishCall, restVars, clientVars
<1>4. ASSUME Restart, UNCHANGED restVars
      PROVE  QueuesBounded'
  BY <1>0, <1>4 DEF Restart, restVars, clientVars
<1>5. ASSUME NEW s \in Sessions, ForwardCheck(s), UNCHANGED restVars
      PROVE  QueuesBounded'
  <2>1. \A t \in Sessions : ring'[t] = ring[t] \/ ring'[t] = <<>>
    BY <1>5 DEF ForwardCheck, TypeOK
  <2>2. \A t \in Sessions : Len(ring'[t]) <= RingCap
    BY <1>0, <2>1
  <2> QED
    BY <1>5, <2>2 DEF ForwardCheck, restVars, clientVars
<1>6. ASSUME NEW s \in Sessions, ForwardRecv(s), UNCHANGED restVars
      PROVE  QueuesBounded'
  <2>1. CASE lagged[s]
    BY <1>6, <2>1 DEF ForwardRecv, restVars, clientVars
  <2>2. CASE ~lagged[s]
    <3>1. ring[s] \in Seq(Update) /\ ring[s] # <<>>
      BY <1>6, <2>2 DEF ForwardRecv, TypeOK
    <3>2. Len(Tail(ring[s])) = Len(ring[s]) - 1 /\ Len(ring[s]) \in Nat
      BY <3>1, HeadTailProperties, LenProperties
    <3>3. \A t \in Sessions : /\ ring'[t] = IF t = s THEN Tail(ring[s]) ELSE ring[t]
                              /\ held'[t] = IF t = s THEN <<Head(ring[s])>> ELSE held[t]
      BY <1>6, <2>2 DEF ForwardRecv, TypeOK
    <3>4. Len(<<Head(ring[s])>>) = 1
      OBVIOUS
    <3>5. Len(Tail(ring[s])) <= RingCap /\ Len(<<Head(ring[s])>>) <= 1
      BY <1>0, <3>2, <3>4
    <3>6. \A t \in Sessions : Len(ring'[t]) <= RingCap /\ Len(held'[t]) <= 1
      BY <3>3, <3>5, Zenon
    <3> QED
      BY <1>6, <3>6 DEF ForwardRecv, restVars, clientVars
  <2> QED
    BY <2>1, <2>2
<1>7. ASSUME NEW s \in Sessions, ForwardSend(s), UNCHANGED restVars
      PROVE  QueuesBounded'
  <2>1. /\ stream[s] \in Seq(Update) /\ held[s] \in Seq(Update)
        /\ Len(stream[s]) \in Nat /\ Len(held[s]) \in Nat
        /\ Len(stream[s] \o held[s]) = Len(stream[s]) + Len(held[s])
    BY LenProperties, ConcatProperties DEF TypeOK
  <2>2. \A t \in Sessions : Len(stream'[t]) <= StreamCap
    <3>1. CASE open[s] /\ Len(stream[s]) < StreamCap
                       /\ stream' = [stream EXCEPT ![s] = stream[s] \o held[s]]
      <4>1. Len(stream[s] \o held[s]) <= StreamCap
        <5>1. Len(stream[s]) \in Nat /\ Len(held[s]) \in Nat /\ Len(held[s]) <= 1
          BY <2>1
        <5>2. StreamCap \in Nat /\ Len(stream[s]) < StreamCap
          BY <1>0, <3>1
        <5>3. Len(stream[s]) + Len(held[s]) <= StreamCap
          BY <5>1, <5>2, RoomForOne, Zenon
        <5> QED
          BY <2>1, <5>3, Zenon
      <4>2. \A t \in Sessions :
              stream'[t] = IF t = s THEN stream[s] \o held[s] ELSE stream[t]
        BY <3>1 DEF TypeOK
      <4> QED
        BY <4>1, <4>2
    <3>2. CASE UNCHANGED stream
      BY <3>2
    <3> QED
      BY <1>7, <3>1, <3>2 DEF ForwardSend
  <2>3. \A t \in Sessions : held'[t] = held[t] \/ held'[t] = <<>>
    BY <1>7 DEF ForwardSend, TypeOK
  <2>4. \A t \in Sessions : Len(held'[t]) <= 1
    BY <1>0, <2>3
  <2> QED
    BY <1>7, <2>2, <2>4 DEF ForwardSend, restVars, clientVars
<1>8. ASSUME NEW s \in Sessions, DropStream(s), UNCHANGED restVars
      PROVE  QueuesBounded'
  BY <1>8 DEF DropStream, restVars, clientVars
<1>9. ASSUME NEW p \in Peers, ReceiveUpdate(p)
      PROVE  QueuesBounded'
  <2>1. /\ sess[p] \in Sessions
        /\ stream[sess[p]] \in Seq(Update) /\ stream[sess[p]] # <<>>
        /\ inbox[p] \in Seq(Update) /\ Len(inbox[p]) < CtrlCap
    BY <1>9 DEF ReceiveUpdate, Enqueue, TypeOK
  <2>2. /\ Head(stream[sess[p]]) \in Update
        /\ Len(Tail(stream[sess[p]])) = Len(stream[sess[p]]) - 1
        /\ Len(stream[sess[p]]) \in Nat /\ Len(inbox[p]) \in Nat
    BY <2>1, HeadTailProperties, LenProperties
  <2>3. Len(Append(inbox[p], Head(stream[sess[p]]))) = Len(inbox[p]) + 1
    BY <2>1, <2>2, AppendProperties
  <2>4. \A s \in Sessions :
          stream'[s] = IF s = sess[p] THEN Tail(stream[sess[p]]) ELSE stream[s]
    BY <1>9, <2>1 DEF ReceiveUpdate, TypeOK
  <2>5. \A q \in Peers :
          inbox'[q] = IF q = p THEN Append(inbox[p], Head(stream[sess[p]])) ELSE inbox[q]
    BY <1>9 DEF ReceiveUpdate, Enqueue, TypeOK
  <2>6. \A s \in Sessions : Len(stream'[s]) <= StreamCap
    <3>1. Len(Tail(stream[sess[p]])) <= StreamCap
      BY <1>0, <2>1, <2>2
    <3> QED
      BY <2>4, <3>1, Zenon
  <2>7. \A q \in Peers : Len(inbox'[q]) <= CtrlCap
    <3>1. Len(Append(inbox[p], Head(stream[sess[p]]))) <= CtrlCap
      BY <1>0, <2>1, <2>2, <2>3
    <3> QED
      BY <2>5, <3>1, Zenon
  <2> QED
    BY <1>9, <2>6, <2>7 DEF ReceiveUpdate, Enqueue
<1>10. ASSUME NEW p \in Peers, ApplyUpdate(p), UNCHANGED <<serverVars, sess>>
       PROVE  QueuesBounded'
  <2>1. /\ inbox[p] \in Seq(Update) /\ inbox[p] # <<>>
        /\ outbox[p] \in Seq([Listed -> Nat]) /\ Len(outbox[p]) < OutCap
    BY <1>10 DEF ApplyUpdate, TypeOK
  <2>2. /\ Len(Tail(inbox[p])) = Len(inbox[p]) - 1 /\ Len(inbox[p]) \in Nat
        /\ Len(outbox[p]) \in Nat
    BY <2>1, HeadTailProperties, LenProperties
  <2>3. Len(Append(outbox[p], PeerList(neigh'[p]))) = Len(outbox[p]) + 1
    BY <2>1, PeerListTyped, AppendProperties
  <2>4. \A q \in Peers :
          /\ inbox'[q] = IF q = p THEN Tail(inbox[p]) ELSE inbox[q]
          /\ outbox'[q] = IF q = p THEN Append(outbox[p], PeerList(neigh'[p])) ELSE outbox[q]
    BY <1>10 DEF ApplyUpdate, TypeOK
  <2>5. \A q \in Peers : Len(inbox'[q]) <= CtrlCap /\ Len(outbox'[q]) <= OutCap
    <3>1. Len(Tail(inbox[p])) <= CtrlCap
      BY <1>0, <2>2
    <3>2. Len(Append(outbox[p], PeerList(neigh'[p]))) <= OutCap
      BY <1>0, <2>1, <2>2, <2>3
    <3> QED
      BY <2>4, <3>1, <3>2, Zenon
  <2> QED
    BY <1>10, <2>5 DEF ApplyUpdate, serverVars, sessionVars
<1>11. ASSUME NEW p \in Peers, TakePeerList(p), UNCHANGED <<serverVars, sess>>
       PROVE  QueuesBounded'
  <2>1. outbox[p] \in Seq([Listed -> Nat]) /\ outbox[p] # <<>>
    BY <1>11 DEF TakePeerList, TypeOK
  <2>2. Len(Tail(outbox[p])) = Len(outbox[p]) - 1 /\ Len(outbox[p]) \in Nat
    BY <2>1, HeadTailProperties, LenProperties
  <2>3. \A q \in Peers : outbox'[q] = IF q = p THEN Tail(outbox[p]) ELSE outbox[q]
    BY <1>11 DEF TakePeerList, TypeOK
  <2>4. \A q \in Peers : Len(outbox'[q]) <= OutCap
    <3>1. Len(Tail(outbox[p])) <= OutCap
      BY <1>0, <2>2
    <3> QED
      BY <2>3, <3>1, Zenon
  <2> QED
    BY <1>11, <2>4 DEF TakePeerList, serverVars, sessionVars
<1>12. ASSUME NEW p \in Peers, LoseStream(p)
       PROVE  QueuesBounded'
  BY <1>12 DEF LoseStream, serverVars, sessionVars, clientVars
<1>13. ASSUME NEW p \in Peers, ClientRestart(p)
       PROVE  QueuesBounded'
  <2>1. \A q \in Peers : /\ inbox'[q] = inbox[q] \/ inbox'[q] = <<>>
                         /\ outbox'[q] = outbox[q] \/ outbox'[q] = <<>>
    BY <1>13 DEF ClientRestart, ForgetAll, TypeOK
  <2>2. \A q \in Peers : Len(inbox'[q]) <= CtrlCap /\ Len(outbox'[q]) <= OutCap
    BY <1>0, <2>1
  <2> QED
    BY <1>13, <2>2 DEF ClientRestart, serverVars, sessionVars
<1>14. ASSUME NEW s \in Sessions, NEW p \in Peers, NEW a \in Addrs, Register(s, p, a),
              UNCHANGED clientVars
       PROVE  QueuesBounded'
  <2>1. AddUpdate(p, a) \in Update
    BY UpdatesTyped DEF Listed, TypeOK
  <2>2. \A t \in Sessions : Len(ring'[t]) <= RingCap
    <3>1. CASE Broadcast(AddUpdate(p, a))
      BY <2>1, <3>1, BroadcastBounded
    <3>2. CASE UNCHANGED ring
      BY <3>2
    <3> QED
      BY <1>14, <3>1, <3>2 DEF Register
  <2>3. \A t \in Sessions : stream'[t] = stream[t] \/ stream'[t] = <<FullUpdate(clients)>>
    BY <1>14 DEF Register, TypeOK
  <2>4. Len(<<FullUpdate(clients)>>) = 1
    OBVIOUS
  <2>5. \A t \in Sessions : Len(stream'[t]) <= StreamCap
    <3>1. Len(<<FullUpdate(clients)>>) <= StreamCap
      BY <1>0, <2>4
    <3> QED
      BY <2>3, <3>1, Zenon
  <2> QED
    BY <1>14, <2>2, <2>5 DEF Register, clientVars
<1>15. ASSUME NEW s \in Sessions, NEW p \in Peers, NEW a \in Addrs,
              ClientRegister(s, p, a) \/ LateRegister(s, p, a)
       PROVE  QueuesBounded'
  BY <1>14, <1>15 DEF ClientRegister, LateRegister, clientVars
<1> QED
  BY <1>1, <1>2, <1>3, <1>4, <1>5, <1>6, <1>7, <1>8, <1>9, <1>10, <1>11, <1>12, <1>13,
     <1>15, StepCases

----------------------------------------------------------------------------
(* Sessions. *)

\* A broadcast reaches receivers only, and a lag is a gap.
LEMMA BroadcastWellFormed ==
  ASSUME TypeOK, SessionsWellFormed, NEW u \in Update, Broadcast(u), NEW s \in Sessions
  PROVE  /\ pc[s] = "none" => ring'[s] = ring[s] /\ lagged'[s] = lagged[s] /\ gap'[s] = gap[s]
         /\ lagged'[s] => gap'[s]
BY DEF TypeOK, SessionsWellFormed, Broadcast, Receivers

\* Every step keeps the sessions well formed.
LEMMA StepWellFormed ==
  TypeOK /\ SessionsWellFormed /\ [Next]_vars => SessionsWellFormed'
<1> SUFFICES ASSUME TypeOK, SessionsWellFormed, [Next]_vars PROVE SessionsWellFormed'
  OBVIOUS
<1> USE DEF SessionsWellFormed, Receivers
<1>1. ASSUME NEW call \in Call, StartCall(call), UNCHANGED restVars
      PROVE  SessionsWellFormed'
  BY <1>1 DEF StartCall, sessionVars, restVars
<1>2. ASSUME UNCHANGED vars
      PROVE  SessionsWellFormed'
  BY <1>2 DEF vars, serverVars, sessionVars
<1>3. ASSUME FinishCall, UNCHANGED restVars
      PROVE  SessionsWellFormed'
  <2>1. busy \in Call
    BY <1>3 DEF FinishCall, TypeOK
  <2>2. \A s \in Sessions :
          /\ pc[s] = "none" => ring'[s] = ring[s] /\ lagged'[s] = lagged[s] /\ gap'[s] = gap[s]
          /\ lagged'[s] => gap'[s]
    <3>1. CASE Broadcast(Notice(busy))
      BY <3>1, <2>1, CallTyped, BroadcastWellFormed
    <3>2. CASE UNCHANGED <<ring, lagged, gap>>
      BY <3>2
    <3> QED
      BY <1>3, <3>1, <3>2 DEF FinishCall
  <2> QED
    BY <1>3, <2>2 DEF FinishCall, restVars
<1>4. ASSUME Restart, UNCHANGED restVars
      PROVE  SessionsWellFormed'
  BY <1>4 DEF Restart, restVars, TypeOK
<1>5. ASSUME NEW s \in Sessions, ForwardCheck(s), UNCHANGED restVars
      PROVE  SessionsWellFormed'
  <2>1. CASE open[s]
    BY <1>5, <2>1 DEF ForwardCheck, restVars, TypeOK
  <2>2. CASE ~open[s]
    BY <1>5, <2>2 DEF ForwardCheck, restVars, TypeOK
  <2> QED
    BY <2>1, <2>2
<1>6. ASSUME NEW s \in Sessions, ForwardRecv(s), UNCHANGED restVars
      PROVE  SessionsWellFormed'
  <2>1. CASE lagged[s]
    BY <1>6, <2>1 DEF ForwardRecv, restVars, TypeOK
  <2>2. CASE ~lagged[s]
    <3>1. \A t \in Sessions : t # s => UNCHANGED <<pc[t], ring[t], held[t]>>
      BY <1>6, <2>2 DEF ForwardRecv, TypeOK
    <3>2. /\ pc[s] = "recv" /\ pc'[s] = "send" /\ held'[s] = <<Head(ring[s])>>
          /\ UNCHANGED <<open, stream, lagged, gap, sess>>
      BY <1>6, <2>2 DEF ForwardRecv, restVars, TypeOK
    <3>3. held'[s] # <<>>
      BY <3>2
    <3>4. \A p \in Peers : sess'[p] # NoSession => pc'[sess'[p]] # "none"
      BY <3>1, <3>2 DEF TypeOK
    <3>5. ASSUME NEW t \in Sessions
          PROVE  /\ open'[t] => pc'[t] \in {"check", "recv", "send"}
                 /\ pc'[t] = "send" <=> held'[t] # <<>>
                 /\ pc'[t] = "none" => /\ ring'[t] = <<>> /\ stream'[t] = <<>>
                                       /\ ~lagged'[t] /\ ~gap'[t]
                 /\ lagged'[t] => gap'[t]
      <4>1. CASE t = s
        BY <4>1, <3>2, <3>3
      <4>2. CASE t # s
        BY <4>2, <3>1, <3>2
      <4> QED
        BY <4>1, <4>2
    <3> QED
      BY <3>2, <3>4, <3>5
  <2> QED
    BY <2>1, <2>2
<1>7. ASSUME NEW s \in Sessions, ForwardSend(s), UNCHANGED restVars
      PROVE  SessionsWellFormed'
  BY <1>7 DEF ForwardSend, restVars, TypeOK
<1>8. ASSUME NEW s \in Sessions, DropStream(s), UNCHANGED restVars
      PROVE  SessionsWellFormed'
  BY <1>8 DEF DropStream, restVars, TypeOK
<1>9. ASSUME NEW p \in Peers, ReceiveUpdate(p)
      PROVE  SessionsWellFormed'
  BY <1>9 DEF ReceiveUpdate, Enqueue, TypeOK
<1>10. ASSUME NEW p \in Peers, ApplyUpdate(p) \/ TakePeerList(p), UNCHANGED <<serverVars, sess>>
       PROVE  SessionsWellFormed'
  BY <1>10 DEF serverVars, sessionVars
<1>11. ASSUME NEW p \in Peers, UNCHANGED serverVars, sess' = [sess EXCEPT ![p] = NoSession]
       PROVE  SessionsWellFormed'
  BY <1>11 DEF serverVars, sessionVars, TypeOK
<1>12. ASSUME NEW p \in Peers, LoseStream(p) \/ ClientRestart(p)
       PROVE  SessionsWellFormed'
  BY <1>11, <1>12 DEF LoseStream, ClientRestart
<1>13. ASSUME NEW s \in Sessions, NEW p \in Peers, NEW a \in Addrs, Register(s, p, a)
       PROVE  /\ \A t \in Sessions :
                   /\ open'[t] => pc'[t] \in {"check", "recv", "send"}
                   /\ pc'[t] = "send" <=> held'[t] # <<>>
                   /\ pc'[t] = "none" => /\ ring'[t] = <<>> /\ stream'[t] = <<>>
                                         /\ ~lagged'[t] /\ ~gap'[t]
                   /\ lagged'[t] => gap'[t]
              /\ \A t \in Sessions : pc[t] # "none" => pc'[t] # "none"
              /\ pc[s] = "none" /\ pc'[s] # "none"
  <2>1. AddUpdate(p, a) \in Update
    BY UpdatesTyped DEF Listed, TypeOK
  <2>2. \A t \in Sessions :
          /\ pc[t] = "none" => ring'[t] = ring[t] /\ lagged'[t] = lagged[t] /\ gap'[t] = gap[t]
          /\ lagged'[t] => gap'[t]
    <3>1. CASE Broadcast(AddUpdate(p, a))
      BY <3>1, <2>1, BroadcastWellFormed
    <3>2. CASE UNCHANGED <<ring, lagged, gap>>
      BY <3>2
    <3> QED
      BY <1>13, <3>1, <3>2 DEF Register
  <2> QED
    BY <1>13, <2>2 DEF Register, TypeOK
<1>14. ASSUME NEW s \in Sessions, NEW p \in Peers, NEW a \in Addrs, ClientRegister(s, p, a)
       PROVE  SessionsWellFormed'
  <2>1. Register(s, p, a) /\ sess' = [sess EXCEPT ![p] = s]
    BY <1>14 DEF ClientRegister
  <2> QED
    BY <2>1, <1>13, SessionAssumption DEF TypeOK
<1>15. ASSUME NEW s \in Sessions, NEW p \in Peers, NEW a \in Addrs, LateRegister(s, p, a)
       PROVE  SessionsWellFormed'
  <2>1. Register(s, p, a) /\ sess' = sess
    BY <1>15 DEF LateRegister
  <2> QED
    BY <2>1, <1>13 DEF TypeOK
<1> QED
  BY <1>1, <1>2, <1>3, <1>4, <1>5, <1>6, <1>7, <1>8, <1>9, <1>10, <1>12, <1>14, <1>15,
     StepCases

----------------------------------------------------------------------------
(* A client never lists itself. *)

\* Whatever a client applies, its own entry stays out.
LEMMA StepOwn == TypeOK /\ NeverOwnNeighbour /\ [Next]_vars => NeverOwnNeighbour'
<1> SUFFICES ASSUME TypeOK, NeverOwnNeighbour, [Next]_vars PROVE NeverOwnNeighbour'
  OBVIOUS
<1> USE DEF NeverOwnNeighbour
<1>1. ASSUME UNCHANGED neigh
      PROVE  NeverOwnNeighbour'
  BY <1>1
<1>2. ASSUME NEW p \in Peers, ApplyUpdate(p)
      PROVE  NeverOwnNeighbour'
  <2>1. inbox[p] \in Seq(Update) /\ inbox[p] # <<>> /\ neigh[p] \in Table
    BY <1>2 DEF ApplyUpdate, TypeOK
  <2>2. Merge(p, neigh[p], Head(inbox[p]))[p] = Absent
    BY <2>1, HeadTailProperties, MergeSelf
  <2> QED
    BY <1>2, <2>2 DEF ApplyUpdate, TypeOK
<1>3. ASSUME NEW p \in Peers, ClientRestart(p)
      PROVE  NeverOwnNeighbour'
  BY <1>3 DEF ClientRestart, ForgetAll, EmptyTable, TypeOK
<1>4. ASSUME UNCHANGED restVars
      PROVE  NeverOwnNeighbour'
  BY <1>1, <1>4 DEF restVars, clientVars
<1>5. ASSUME UNCHANGED vars
      PROVE  NeverOwnNeighbour'
  BY <1>1, <1>5 DEF vars, clientVars
<1>6. ASSUME NEW p \in Peers, ReceiveUpdate(p) \/ LoseStream(p) \/ TakePeerList(p)
      PROVE  NeverOwnNeighbour'
  BY <1>1, <1>6 DEF ReceiveUpdate, Enqueue, LoseStream, TakePeerList, clientVars
<1>7. ASSUME NEW s \in Sessions, NEW p \in Peers, NEW a \in Addrs,
             ClientRegister(s, p, a) \/ LateRegister(s, p, a)
      PROVE  NeverOwnNeighbour'
  BY <1>1, <1>7 DEF ClientRegister, LateRegister, clientVars
<1> QED
  BY <1>2, <1>3, <1>4, <1>5, <1>6, <1>7, StepCases

----------------------------------------------------------------------------
(* No update is lost. *)

\* What is on its way to a client that reads a stream is a queue of updates.
LEMMA PendingTyped ==
  ASSUME TypeOK, NEW p \in Peers, sess[p] # NoSession
  PROVE  /\ sess[p] \in Sessions
         /\ inbox[p] \in Seq(Update) /\ stream[sess[p]] \in Seq(Update)
         /\ held[sess[p]] \in Seq(Update) /\ ring[sess[p]] \in Seq(Update)
         /\ Pending(p) \in Seq(Update)
<1>1. /\ sess[p] \in Sessions
      /\ inbox[p] \in Seq(Update) /\ stream[sess[p]] \in Seq(Update)
      /\ held[sess[p]] \in Seq(Update) /\ ring[sess[p]] \in Seq(Update)
  BY DEF TypeOK
<1> QED
  BY <1>1, PipeTyped DEF Pending

\* A client that follows the server, and still does after a broadcast, has the update
\* broadcast as the last on its way.
LEMMA BroadcastPending ==
  ASSUME TypeOK, QueuesBounded, SessionsWellFormed, NEW u \in Update, Broadcast(u),
         NEW p \in Peers, Following(p), ~gap'[sess[p]]
  PROVE  Pipe(inbox[p], stream[sess[p]], held[sess[p]], ring'[sess[p]])
           = Append(Pending(p), u)
<1> DEFINE s == sess[p]
<1>1. s \in Sessions /\ s \in Receivers
  BY PendingTyped DEF Following, SessionsWellFormed
<1>2. ring[s] \in Seq(Update) /\ Len(ring[s]) <= RingCap /\ Len(ring[s]) # RingCap
  BY <1>1 DEF Broadcast, TypeOK, QueuesBounded
<1>3. Len(ring[s]) < RingCap
  BY <1>2, CapAssumption, LenProperties
<1>4. ring'[s] = Append(ring[s], u)
  BY <1>1, <1>2, <1>3, KeepProperties DEF Broadcast
<1>5. inbox[p] \in Seq(Update) /\ stream[s] \in Seq(Update) /\ held[s] \in Seq(Update)
  BY PendingTyped DEF Following
<1>6. Pipe(inbox[p], stream[s], held[s], Then(ring[s], u)) = Then(Pending(p), u)
  BY <1>2, <1>5, PipeBroadcast DEF Pending
<1> QED
  BY <1>4, <1>6 DEF Then

\* A queue that held agreement for the table before a change of one entry holds it
\* after the announcement of the change.
LEMMA AnnouncedChange ==
  ASSUME NEW us \in Seq(Update), NEW u \in Update, NEW q \in Peers,
         NEW known, NEW old, NEW new,
         AgreesAfter(known, us, q, old),
         IF Mentions(u, q) THEN Says(u, q) = new ELSE new = old
  PROVE  AgreesAfter(known, Append(us, u), q, new)
<1>1. CASE Mentions(u, q)
  BY <1>1, AppendSettles DEF Agrees
<1>2. CASE ~Mentions(u, q)
  BY <1>2, AppendIrrelevant
<1> QED
  BY <1>1, <1>2

\* What add_peer and remove_peer announce is what they do to the table.
LEMMA NoticeSaysEffect ==
  ASSUME TypeOK, NEW call \in Call, NEW q \in Peers
  PROVE  IF Mentions(Notice(call), q) THEN Says(Notice(call), q) = Effect(call)[q]
                                      ELSE Effect(call)[q] = clients[q]
<1>1. call.op = "add" \/ call.op = "remove"
  BY DEF Call
<1>2. call.peer \in Peers /\ clients \in Table
  BY DEF Call, TypeOK
<1>3. CASE call.op = "add"
  BY <1>2, <1>3, AddrAssumption
     DEF Notice, Effect, AddUpdate, EmptyTable, Mentions, Says, Table
<1>4. CASE call.op = "remove"
  BY <1>2, <1>4, AddrAssumption
     DEF Notice, Effect, RemoveUpdate, EmptyTable, Mentions, Says, Table
<1> QED
  BY <1>1, <1>3, <1>4

\* What register announces to the others is what it does to the table.
LEMMA AddSaysEntry ==
  ASSUME TypeOK, NEW x \in Peers, NEW a \in Addrs, NEW q \in Peers
  PROVE  IF Mentions(AddUpdate(x, a), q)
           THEN Says(AddUpdate(x, a), q) = [clients EXCEPT ![x] = a][q]
           ELSE [clients EXCEPT ![x] = a][q] = clients[q]
BY AddrAssumption DEF AddUpdate, EmptyTable, Mentions, Says, Table, TypeOK

\* The Full that register sends settles every other peer.
LEMMA FullSettles ==
  ASSUME TypeOK, NEW q \in Peers, NEW us \in Seq(Update), NEW known
  PROVE  AgreesAfter(known, Append(us, FullUpdate(clients)), q, clients[q])
<1>1. FullUpdate(clients) \in Update
  BY UpdatesTyped DEF TypeOK
<1>2. Mentions(FullUpdate(clients), q)
  BY DEF Mentions, FullUpdate
<1>3. Agrees(Says(FullUpdate(clients), q), clients[q])
  BY DEF Agrees, Says, FullUpdate
<1> QED
  BY <1>1, <1>2, <1>3, AppendSettles

\* A step that changes neither the table of the client, nor the entry, nor what is on
\* its way, keeps the agreement.
LEMMA SameAgreement ==
  ASSUME NoLostUpdate, NEW p \in Peers, NEW q \in Peers, q # p, Following(p),
         neigh'[p] = neigh[p], clients'[q] = clients[q], Pending(p)' = Pending(p)
  PROVE  AgreesAfter(neigh'[p][q], Pending(p)', q, clients'[q])
<1>1. AgreesAfter(neigh[p][q], Pending(p), q, clients[q])
  BY DEF NoLostUpdate
<1> QED
  BY <1>1, Zenon

\* A broadcast of what happens to an entry keeps the agreement.
LEMMA BroadcastAgreement ==
  ASSUME TypeOK, QueuesBounded, SessionsWellFormed, NoLostUpdate,
         NEW u \in Update, Broadcast(u), NEW p \in Peers, NEW q \in Peers, q # p,
         Following(p), ~gap'[sess[p]],
         sess'[p] = sess[p], neigh'[p] = neigh[p], inbox'[p] = inbox[p],
         stream'[sess[p]] = stream[sess[p]], held'[sess[p]] = held[sess[p]],
         IF Mentions(u, q) THEN Says(u, q) = clients'[q] ELSE clients'[q] = clients[q]
  PROVE  AgreesAfter(neigh'[p][q], Pending(p)', q, clients'[q])
<1>1. AgreesAfter(neigh[p][q], Pending(p), q, clients[q])
  BY DEF NoLostUpdate
<1>2. Pending(p)' = Append(Pending(p), u)
  BY BroadcastPending DEF Pending
<1>3. Pending(p) \in Seq(Update)
  BY PendingTyped DEF Following
<1>4. AgreesAfter(neigh[p][q], Append(Pending(p), u), q, clients'[q])
  BY <1>1, <1>3, AnnouncedChange
<1> QED
  BY <1>2, <1>4, Zenon
\* add_peer and remove_peer: announced where anyone follows.
LEMMA CallNoLost ==
  ASSUME TypeOK, QueuesBounded, SessionsWellFormed, NoLostUpdate, UNCHANGED restVars,
         NEW p \in Peers, NEW q \in Peers, q # p, Following(p)',
         FinishCall \/ \E call \in Call : StartCall(call)
  PROVE  AgreesAfter(neigh'[p][q], Pending(p)', q, clients'[q])
<1>1. /\ sess' = sess /\ neigh' = neigh /\ inbox' = inbox
  BY DEF restVars, clientVars
<1>2. ASSUME NEW call \in Call, StartCall(call)
      PROVE  AgreesAfter(neigh'[p][q], Pending(p)', q, clients'[q])
  <2>1. UNCHANGED <<open, gap, ring, held, stream>>
    BY <1>2 DEF StartCall, sessionVars
  <2>2. Following(p)
    BY <1>1, <2>1 DEF Following
  <2>3. sess[p] \in Sessions /\ sess[p] \in Receivers
    BY <2>2, PendingTyped DEF Following, SessionsWellFormed
  <2>4. clients' = clients
    BY <1>2, <2>3 DEF StartCall
  <2>5. Pending(p)' = Pending(p)
    BY <1>1, <2>1 DEF Pending
  <2> QED
    BY <1>1, <2>2, <2>4, <2>5, SameAgreement
<1>3. ASSUME FinishCall
      PROVE  AgreesAfter(neigh'[p][q], Pending(p)', q, clients'[q])
  <2>1. UNCHANGED <<open, held, stream>>
    BY <1>3 DEF FinishCall
  <2>2. sess[p] \in Sessions /\ sess[p] \in Receivers
    BY <1>1, <2>1, PendingTyped DEF Following, SessionsWellFormed, TypeOK
  <2>3. busy \in Call /\ Broadcast(Notice(busy)) /\ clients' = Effect(busy)
    BY <1>3, <2>2 DEF FinishCall, TypeOK
  <2>4. ~gap'[sess[p]] /\ ~gap[sess[p]]
    BY <1>1, <2>2, <2>3 DEF Following, Broadcast
  <2>5. Following(p)
    BY <1>1, <2>1, <2>4 DEF Following
  <2>6. Notice(busy) \in Update
    BY <2>3, CallTyped
  <2>7. IF Mentions(Notice(busy), q) THEN Says(Notice(busy), q) = clients'[q]
                                     ELSE clients'[q] = clients[q]
    BY <2>3, NoticeSaysEffect
  <2> QED
    BY <1>1, <2>1, <2>3, <2>4, <2>5, <2>6, <2>7, BroadcastAgreement
<1> QED
  BY <1>2, <1>3

\* A forwarder passes on what it reads.
LEMMA ForwardNoLost ==
  ASSUME TypeOK, SessionsWellFormed, NoLostUpdate, UNCHANGED restVars,
         NEW p \in Peers, NEW q \in Peers, q # p, Following(p)',
         NEW s \in Sessions,
         ForwardCheck(s) \/ ForwardRecv(s) \/ ForwardSend(s) \/ DropStream(s)
  PROVE  AgreesAfter(neigh'[p][q], Pending(p)', q, clients'[q])
<1>1. sess' = sess /\ neigh' = neigh /\ inbox' = inbox
  BY DEF restVars, clientVars
<1>2. clients' = clients
  BY DEF ForwardCheck, ForwardRecv, ForwardSend, DropStream
<1> DEFINE t == sess[p]
<1>3. t # NoSession /\ open'[t] /\ ~gap'[t] /\ t \in Sessions
  BY <1>1 DEF Following, TypeOK
<1>4. Following(p)
  BY <1>3 DEF ForwardCheck, ForwardRecv, ForwardSend, DropStream, Following, TypeOK
<1>5. /\ inbox[p] \in Seq(Update) /\ stream[t] \in Seq(Update)
      /\ held[t] \in Seq(Update) /\ ring[t] \in Seq(Update)
  BY <1>3, PendingTyped
<1>6. CASE t # s \/ ForwardCheck(s) \/ DropStream(s)
  <2>1. ring'[t] = ring[t] /\ held'[t] = held[t] /\ stream'[t] = stream[t]
    BY <1>3, <1>4, <1>6
       DEF ForwardCheck, ForwardRecv, ForwardSend, DropStream, Following, TypeOK
  <2>2. Pending(p)' = Pending(p)
    BY <1>1, <2>1 DEF Pending
  <2> QED
    BY <1>1, <1>2, <1>4, <2>2, SameAgreement
<1>7. CASE t = s /\ ForwardRecv(s)
  <2>1. stream'[t] = stream[t] /\ held[t] = <<>>
    BY <1>3, <1>7 DEF ForwardRecv, SessionsWellFormed
  <2>2. Pending(p)' = Pending(p)
    <3>1. CASE lagged[s]
      BY <1>1, <1>7, <3>1 DEF ForwardRecv, Pending
    <3>2. CASE ~lagged[s]
      <4>1. /\ ring[t] # <<>> /\ ring'[t] = Tail(ring[t])
            /\ held'[t] = <<Head(ring[t])>>
        BY <1>3, <1>7, <3>2 DEF ForwardRecv, TypeOK
      <4>2. Pipe(inbox[p], stream[t], <<Head(ring[t])>>, Tail(ring[t]))
              = Pipe(inbox[p], stream[t], <<>>, ring[t])
        BY <1>5, <4>1, PipeRecv
      <4> QED
        BY <1>1, <2>1, <4>1, <4>2, Zenon DEF Pending
    <3> QED
      BY <3>1, <3>2
  <2> QED
    BY <1>1, <1>2, <1>4, <2>2, SameAgreement
<1>8. CASE t = s /\ ForwardSend(s)
  <2>1. ring'[t] = ring[t] /\ held'[t] = <<>> /\ stream'[t] = stream[t] \o held[t]
    BY <1>3, <1>4, <1>8 DEF ForwardSend, Following, TypeOK
  <2>2. Pipe(inbox[p], stream[t] \o held[t], <<>>, ring[t])
          = Pipe(inbox[p], stream[t], held[t], ring[t])
    BY <1>5, PipeSend
  <2>3. Pending(p)' = Pending(p)
    BY <1>1, <2>1, <2>2, Zenon DEF Pending
  <2> QED
    BY <1>1, <1>2, <1>4, <2>3, SameAgreement
<1> QED
  BY <1>6, <1>7, <1>8
\* A client passes on what it reads, and applies it.
LEMMA ClientNoLost ==
  ASSUME TypeOK, SessionsWellFormed, NoLostUpdate,
         NEW p \in Peers, NEW q \in Peers, q # p, Following(p)', NEW x \in Peers,
         \/ ReceiveUpdate(x) \/ LoseStream(x) \/ ClientRestart(x)
         \/ (ApplyUpdate(x) \/ TakePeerList(x)) /\ UNCHANGED <<serverVars, sess>>
  PROVE  AgreesAfter(neigh'[p][q], Pending(p)', q, clients'[q])
<1>1. UNCHANGED <<clients, open, gap, ring, held>>
  BY DEF ReceiveUpdate, LoseStream, ClientRestart, serverVars, sessionVars
<1>2. x = p => ~LoseStream(x) /\ ~ClientRestart(x)
  BY DEF LoseStream, ClientRestart, Following, TypeOK
<1>3. sess'[p] = sess[p]
  BY <1>2 DEF ReceiveUpdate, LoseStream, ClientRestart, TypeOK
<1> DEFINE t == sess[p]
<1>4. Following(p) /\ t # NoSession
  BY <1>1, <1>3 DEF Following
<1>5. /\ t \in Sessions
      /\ inbox[p] \in Seq(Update) /\ stream[t] \in Seq(Update)
      /\ held[t] \in Seq(Update) /\ ring[t] \in Seq(Update) /\ Pending(p) \in Seq(Update)
  BY <1>4, PendingTyped
<1>6. CASE x # p
  <2>1. inbox'[p] = inbox[p] /\ neigh'[p] = neigh[p]
    BY <1>6 DEF ReceiveUpdate, Enqueue, LoseStream, ClientRestart, ForgetAll, ApplyUpdate,
                TakePeerList, clientVars, TypeOK
  <2>2. sess[x] # t \/ sess[x] = NoSession
    BY <1>4, <1>6 DEF SessionsWellFormed
  <2>3. stream'[t] = stream[t]
    BY <1>4, <1>5, <2>2
       DEF ReceiveUpdate, LoseStream, ClientRestart, serverVars, sessionVars, TypeOK
  <2>4. Pending(p)' = Pending(p)
    BY <1>1, <1>3, <2>1, <2>3 DEF Pending
  <2> QED
    BY <1>1, <1>4, <2>1, <2>4, SameAgreement
<1>7. CASE x = p /\ ReceiveUpdate(x)
  <2>1. /\ stream[t] # <<>> /\ stream'[t] = Tail(stream[t])
        /\ inbox'[p] = Append(inbox[p], Head(stream[t])) /\ neigh' = neigh
    BY <1>5, <1>7 DEF ReceiveUpdate, Enqueue, TypeOK
  <2>2. Pipe(Append(inbox[p], Head(stream[t])), Tail(stream[t]), held[t], ring[t])
          = Pipe(inbox[p], stream[t], held[t], ring[t])
    BY <1>5, <2>1, PipeReceive
  <2>3. Pending(p)' = Pending(p)
    BY <1>1, <1>3, <2>1, <2>2, Zenon DEF Pending
  <2> QED
    BY <1>1, <1>4, <2>1, <2>3, SameAgreement
<1>8. CASE x = p /\ ApplyUpdate(x) /\ UNCHANGED <<serverVars, sess>>
  <2>1. /\ inbox[p] # <<>> /\ inbox'[p] = Tail(inbox[p])
        /\ neigh'[p] = Merge(p, neigh[p], Head(inbox[p]))
        /\ neigh[p] \in Table /\ Head(inbox[p]) \in Update
    BY <1>5, <1>8, HeadTailProperties DEF ApplyUpdate, TypeOK
  <2>2. stream' = stream
    BY <1>8 DEF serverVars, sessionVars
  <2>3. /\ Pending(p) # <<>> /\ Head(Pending(p)) = Head(inbox[p])
        /\ Tail(Pending(p)) = Pipe(Tail(inbox[p]), stream[t], held[t], ring[t])
    <3>1. Pending(p) = Pipe(inbox[p], stream[t], held[t], ring[t])
      BY DEF Pending
    <3>2. PICK i \in Seq(Update), st \in Seq(Update), h \in Seq(Update), r \in Seq(Update) :
            i = inbox[p] /\ st = stream[t] /\ h = held[t] /\ r = ring[t]
      BY <1>5
    <3>3. i # <<>>
      BY <2>1, <3>2
    <3>4. /\ Pipe(i, st, h, r) # <<>> /\ Head(Pipe(i, st, h, r)) = Head(i)
          /\ Tail(Pipe(i, st, h, r)) = Pipe(Tail(i), st, h, r)
      BY <3>3, PipeApply
    <3> QED
      BY <3>1, <3>2, <3>4, Zenon
  <2>4. Pending(p)' = Tail(Pending(p))
    BY <1>1, <1>3, <2>1, <2>2, <2>3 DEF Pending
  <2>5. AgreesAfter(neigh[p][q], Pending(p), q, clients[q])
    BY <1>4 DEF NoLostUpdate
  <2>6. neigh'[p][q] = IF Mentions(Head(Pending(p)), q) THEN Says(Head(Pending(p)), q)
                                                         ELSE neigh[p][q]
    BY <2>1, <2>3, MergeOther
  <2>7. AgreesAfter(IF Mentions(Head(Pending(p)), q) THEN Says(Head(Pending(p)), q)
                                                      ELSE neigh[p][q],
                    Tail(Pending(p)), q, clients[q])
    BY <1>5, <2>3, <2>5, ApplyHead
  <2> QED
    BY <1>1, <2>4, <2>6, <2>7
<1>9. CASE x = p /\ TakePeerList(x) /\ UNCHANGED <<serverVars, sess>>
  <2>1. inbox' = inbox /\ neigh' = neigh /\ stream' = stream
    BY <1>9 DEF TakePeerList, serverVars, sessionVars
  <2>2. Pending(p)' = Pending(p)
    BY <1>1, <1>3, <2>1 DEF Pending
  <2> QED
    BY <1>1, <1>4, <2>1, <2>2, SameAgreement
<1> QED
  BY <1>2, <1>6, <1>7, <1>8, <1>9

\* A client that registers is told everything, and the others its new address.
LEMMA RegisterNoLost ==
  ASSUME TypeOK, QueuesBounded, SessionsWellFormed, NoLostUpdate,
         NEW p \in Peers, NEW q \in Peers, q # p, Following(p)',
         NEW s \in Sessions, NEW x \in Peers, NEW a \in Addrs,
         ClientRegister(s, x, a) \/ LateRegister(s, x, a)
  PROVE  AgreesAfter(neigh'[p][q], Pending(p)', q, clients'[q])
<1>1. /\ Register(s, x, a) /\ inbox' = inbox /\ neigh' = neigh
  BY DEF ClientRegister, LateRegister, clientVars
<1>2. /\ pc[s] = "none" /\ held' = held
      /\ clients' = [clients EXCEPT ![x] = a] /\ clients \in Table
      /\ stream' = [stream EXCEPT ![s] = <<FullUpdate(clients)>>]
      /\ open' = [open EXCEPT ![s] = TRUE]
      /\ \/ clients[x] # a /\ Broadcast(AddUpdate(x, a))
         \/ clients[x] = a /\ UNCHANGED <<ring, lagged, gap>>
  BY <1>1 DEF Register, TypeOK
<1>3. FullUpdate(clients) \in Update /\ AddUpdate(x, a) \in Update
  BY <1>2, UpdatesTyped DEF Listed
<1>4. CASE sess'[p] = s
  <2>1. x = p /\ ClientRegister(s, x, a)
    <3>1. sess[p] # s
      BY <1>2, SessionAssumption DEF SessionsWellFormed
    <3> QED
      BY <1>4, <3>1 DEF ClientRegister, LateRegister, TypeOK
  <2>2. ring[s] = <<>> /\ held[s] = <<>> /\ s \notin Receivers
    BY <1>2 DEF SessionsWellFormed, Receivers
  <2>3. ring'[s] = <<>>
    BY <1>2, <2>2 DEF Broadcast
  <2>4. Pending(p)' = Pipe(inbox[p], <<FullUpdate(clients)>>, <<>>, <<>>)
    BY <1>1, <1>2, <1>4, <2>2, <2>3 DEF Pending, TypeOK
  <2>5. inbox[p] \in Seq(Update)
    BY DEF TypeOK
  <2>6. Pending(p)' = Append(inbox[p], FullUpdate(clients))
    BY <1>3, <2>4, <2>5, PipeRegister
  <2>7. clients'[q] = clients[q]
    BY <1>2, <2>1 DEF Table
  <2> QED
    BY <2>5, <2>6, <2>7, FullSettles
<1>5. CASE sess'[p] # s
  <2>1. sess'[p] = sess[p]
    BY <1>5 DEF ClientRegister, LateRegister, TypeOK
  <2>2. sess[p] \in Sessions /\ open[sess[p]] /\ ~gap'[sess[p]] /\ sess[p] # NoSession
    BY <1>2, <1>5, <2>1 DEF Following, TypeOK
  <2>3. stream'[sess[p]] = stream[sess[p]]
    BY <1>2, <1>5, <2>1, <2>2 DEF TypeOK
  <2>4. CASE clients[x] # a /\ Broadcast(AddUpdate(x, a))
    <3>1. ~gap[sess[p]]
      BY <2>2, <2>4 DEF Broadcast
    <3>2. Following(p)
      BY <2>2, <3>1 DEF Following
    <3>3. IF Mentions(AddUpdate(x, a), q) THEN Says(AddUpdate(x, a), q) = clients'[q]
                                           ELSE clients'[q] = clients[q]
      BY <1>2, AddSaysEntry
    <3> QED
      BY <1>1, <1>2, <1>3, <2>1, <2>2, <2>3, <2>4, <3>2, <3>3, BroadcastAgreement
  <2>5. CASE clients[x] = a /\ UNCHANGED <<ring, lagged, gap>>
    <3>1. clients' = clients
      BY <1>2, <2>5 DEF Table
    <3>2. Following(p)
      BY <2>2, <2>5 DEF Following
    <3>3. Pending(p)' = Pending(p)
      BY <1>1, <1>2, <2>1, <2>3, <2>5 DEF Pending
    <3> QED
      BY <1>1, <3>1, <3>2, <3>3, SameAgreement
  <2> QED
    BY <1>2, <2>4, <2>5
<1> QED
  BY <1>4, <1>5
\* Every step keeps the agreement of every client that follows the server.
LEMMA StepNoLost ==
  TypeOK /\ QueuesBounded /\ SessionsWellFormed /\ NoLostUpdate /\ [Next]_vars => NoLostUpdate'
<1> SUFFICES ASSUME TypeOK, QueuesBounded, SessionsWellFormed, NoLostUpdate, [Next]_vars,
                    NEW p \in Peers, NEW q \in Peers, Following(p)', q # p
             PROVE  AgreesAfter(neigh'[p][q], Pending(p)', q, clients'[q])
  BY DEF NoLostUpdate
<1>1. CASE /\ UNCHANGED restVars
           /\ FinishCall \/ \E call \in Call : StartCall(call)
  BY <1>1, CallNoLost
<1>2. CASE Restart /\ UNCHANGED restVars
  BY <1>2 DEF Restart, restVars, Following, TypeOK
<1>3. CASE \E s \in Sessions :
             /\ UNCHANGED restVars
             /\ ForwardCheck(s) \/ ForwardRecv(s) \/ ForwardSend(s) \/ DropStream(s)
  BY <1>3, ForwardNoLost
<1>4. CASE \E x \in Peers : ReceiveUpdate(x) \/ LoseStream(x) \/ ClientRestart(x)
  BY <1>4, ClientNoLost
<1>5. CASE \E x \in Peers : /\ UNCHANGED <<serverVars, sess>>
                            /\ ApplyUpdate(x) \/ TakePeerList(x)
  BY <1>5, ClientNoLost
<1>6. CASE \E s \in Sessions, x \in Peers, a \in Addrs :
             ClientRegister(s, x, a) \/ LateRegister(s, x, a)
  BY <1>6, RegisterNoLost
<1>7. CASE UNCHANGED vars
  <2>1. Following(p) /\ Pending(p)' = Pending(p) /\ neigh' = neigh /\ clients' = clients
    BY <1>7 DEF vars, serverVars, sessionVars, clientVars, Following, Pending
  <2> QED
    BY <2>1, SameAgreement
<1> QED
  BY <1>1, <1>2, <1>3, <1>4, <1>5, <1>6, <1>7, StepCases

----------------------------------------------------------------------------
(* The theorems. *)

\* The inductive invariant: that no update is lost depends on the queues of a session
\* being its own and in order, and both on the bounds of the queues.
MeshInv == TypeOK /\ QueuesBounded /\ SessionsWellFormed /\ NeverOwnNeighbour /\ NoLostUpdate

\* Nobody is registered and every queue is empty.
LEMMA InitMesh == Init => MeshInv
<1> SUFFICES ASSUME Init PROVE MeshInv
  OBVIOUS
<1>1. TypeOK
  BY InitTyped
<1>2. QueuesBounded
  BY EmptySeq, CapAssumption, QueueAssumption DEF Init, RegistryInit, ClientInit, QueuesBounded
<1>3. SessionsWellFormed
  BY DEF Init, RegistryInit, SessionsWellFormed
<1>4. NeverOwnNeighbour
  BY DEF Init, ClientInit, EmptyTable, NeverOwnNeighbour
<1>5. NoLostUpdate
  BY DEF Init, RegistryInit, Following, NoLostUpdate
<1> QED
  BY <1>1, <1>2, <1>3, <1>4, <1>5 DEF MeshInv

\* The invariant holds in every reachable state.
THEOREM MeshInvariant == Spec => []MeshInv
<1>1. MeshInv /\ [Next]_vars => MeshInv'
  BY StepTyped, StepBounded, StepWellFormed, StepOwn, StepNoLost DEF MeshInv
<1> QED
  BY InitMesh, <1>1, PTL DEF Spec

\* No queue outgrows its channel, whatever the capacities are.
THEOREM BoundsHold == Spec => []QueuesBounded
<1>1. MeshInv => QueuesBounded
  BY DEF MeshInv
<1> QED
  BY MeshInvariant, <1>1, PTL

\* Streams, forwarding tasks and clients stay paired as register paired them.
THEOREM SessionsHold == Spec => []SessionsWellFormed
<1>1. MeshInv => SessionsWellFormed
  BY DEF MeshInv
<1> QED
  BY MeshInvariant, <1>1, PTL

\* No client ever probes itself.
THEOREM OwnNeverListed == Spec => []NeverOwnNeighbour
<1>1. MeshInv => NeverOwnNeighbour
  BY DEF MeshInv
<1> QED
  BY MeshInvariant, <1>1, PTL

\* A client that follows the server misses no change of the server's table, for any
\* number of peers and addresses, any capacities and any interleaving.
THEOREM NothingLost == Spec => []NoLostUpdate
<1>1. MeshInv => NoLostUpdate
  BY DEF MeshInv
<1> QED
  BY MeshInvariant, <1>1, PTL

\* Once nothing is on its way, such a client holds what the server holds.
THEOREM SettledAgrees ==
  ASSUME NEW p \in Peers, NEW q \in Peers, q # p
  PROVE  Spec => [](Following(p) /\ Pending(p) = <<>> => Agrees(neigh[p][q], clients[q]))
<1>1. MeshInv => (Following(p) /\ Pending(p) = <<>> => Agrees(neigh[p][q], clients[q]))
  <2> SUFFICES ASSUME MeshInv, Following(p), Pending(p) = <<>>
               PROVE  Agrees(neigh[p][q], clients[q])
    OBVIOUS
  <2>1. AgreesAfter(neigh[p][q], <<>>, q, clients[q])
    BY DEF MeshInv, NoLostUpdate
  <2>2. DOMAIN <<>> = {}
    OBVIOUS
  <2> QED
    BY <2>1, <2>2, Zenon DEF AgreesAfter
<1> QED
  BY MeshInvariant, <1>1, PTL
==============================================================================
