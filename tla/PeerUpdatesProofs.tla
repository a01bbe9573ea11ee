-------------------------- MODULE PeerUpdatesProofs --------------------------
(***************************************************************************)
(* Lemmas about queues of updates: how an update moves from one queue to   *)
(* the next, and what AgreesAfter becomes when a queue grows at its end or *)
(* is applied at its head.                                                 *)
(***************************************************************************)
EXTENDS PeerUpdates, SequenceTheorems, FiniteSetTheorems, TLAPS

----------------------------------------------------------------------------
(* Sequences. *)

\* Appending to the second of two queues in a row appends to both in a row.
LEMMA ConcatAppend ==
  ASSUME NEW S, NEW s \in Seq(S), NEW t \in Seq(S), NEW u \in S
  PROVE  s \o Append(t, u) = Append(s \o t, u)
<1>1. <<u>> \in Seq(S) /\ s \o t \in Seq(S)
  BY ConcatProperties
<1>2. Append(t, u) = t \o <<u>> /\ Append(s \o t, u) = (s \o t) \o <<u>>
  BY <1>1, AppendIsConcat
<1> QED
  BY <1>1, <1>2, ConcatAssociative

\* The first of a queue is the queue without it, put back in front.
LEMMA HeadThenTail ==
  ASSUME NEW S, NEW s \in Seq(S), s # <<>>
  PROVE  <<Head(s)>> \o Tail(s) = s
<1>1. Head(s) \in S /\ Tail(s) \in Seq(S) /\ Len(Tail(s)) = Len(s) - 1
  BY HeadTailProperties
<1>2. \A i \in 1..Len(Tail(s)) : Tail(s)[i] = s[i + 1]
  BY HeadTailProperties
<1>3. <<Head(s)>> \in Seq(S) /\ Len(<<Head(s)>>) = 1 /\ <<Head(s)>>[1] = s[1]
  BY <1>1
<1>4. Len(s) \in Nat \ {0}
  BY EmptySeq
<1>5. /\ <<Head(s)>> \o Tail(s) \in Seq(S)
      /\ Len(<<Head(s)>> \o Tail(s)) = Len(s)
      /\ \A i \in 1..Len(s) : (<<Head(s)>> \o Tail(s))[i]
                                = IF i <= 1 THEN <<Head(s)>>[i] ELSE Tail(s)[i - 1]
  BY <1>1, <1>3, <1>4, ConcatProperties
<1>6. ASSUME NEW i \in 1..Len(s)
      PROVE  (<<Head(s)>> \o Tail(s))[i] = s[i]
  <2>1. CASE i = 1
    BY <2>1, <1>3, <1>5
  <2>2. CASE i # 1
    <3>1. i - 1 \in 1..Len(Tail(s)) /\ ~(i <= 1) /\ (i - 1) + 1 = i
      BY <2>2, <1>1, <1>4
    <3> QED
      BY <3>1, <1>2, <1>5
  <2> QED
    BY <2>1, <2>2
<1> QED
  BY <1>5, <1>6, SeqEqual

\* Taking the first of the first of two queues in a row takes the first of both.
LEMMA HeadOfConcat ==
  ASSUME NEW S, NEW s \in Seq(S), NEW t \in Seq(S), s # <<>>
  PROVE  /\ s \o t \in Seq(S)
         /\ s \o t # <<>>
         /\ Head(s \o t) = Head(s)
         /\ Tail(s \o t) = Tail(s) \o t
<1>1. /\ s \o t \in Seq(S)
      /\ Len(s \o t) = Len(s) + Len(t)
      /\ \A i \in 1..Len(s) + Len(t) :
           (s \o t)[i] = IF i <= Len(s) THEN s[i] ELSE t[i - Len(s)]
  BY ConcatProperties
<1>2. Len(s) \in Nat \ {0} /\ Len(t) \in Nat
  BY EmptySeq, LenProperties
<1>3. s \o t # <<>>
  BY <1>1, <1>2, EmptySeq
<1>4. /\ Tail(s) \in Seq(S) /\ Len(Tail(s)) = Len(s) - 1
      /\ \A i \in 1..Len(Tail(s)) : Tail(s)[i] = s[i + 1]
  BY HeadTailProperties
<1>5. /\ Tail(s \o t) \in Seq(S) /\ Len(Tail(s \o t)) = Len(s) + Len(t) - 1
      /\ \A i \in 1..Len(Tail(s \o t)) : Tail(s \o t)[i] = (s \o t)[i + 1]
  BY <1>1, <1>3, HeadTailProperties
<1>6. /\ Tail(s) \o t \in Seq(S)
      /\ Len(Tail(s) \o t) = Len(s) + Len(t) - 1
      /\ \A i \in 1..Len(Tail(s)) + Len(t) :
           (Tail(s) \o t)[i] = IF i <= Len(Tail(s)) THEN Tail(s)[i] ELSE t[i - Len(Tail(s))]
  BY <1>2, <1>4, ConcatProperties
<1>7. ASSUME NEW i \in 1..Len(Tail(s \o t))
      PROVE  Tail(s \o t)[i] = (Tail(s) \o t)[i]
  <2>1. i \in 1..Len(Tail(s)) + Len(t) /\ i + 1 \in 1..Len(s) + Len(t)
    BY <1>2, <1>4, <1>5
  <2>2. CASE i <= Len(Tail(s))
    <3>1. i \in 1..Len(Tail(s)) /\ i + 1 <= Len(s)
      BY <2>1, <2>2, <1>2, <1>4
    <3> QED
      BY <3>1, <2>1, <1>1, <1>4, <1>5, <1>6
  <2>3. CASE ~(i <= Len(Tail(s)))
    <3>1. ~(i + 1 <= Len(s)) /\ i + 1 - Len(s) = i - Len(Tail(s))
      BY <2>1, <2>3, <1>2, <1>4
    <3> QED
      BY <3>1, <2>1, <2>3, <1>1, <1>5, <1>6
  <2> QED
    BY <2>2, <2>3
<1>8. Tail(s \o t) = Tail(s) \o t
  BY <1>5, <1>6, <1>7, SeqEqual
<1>9. Head(s \o t) = Head(s)
  BY <1>1, <1>2
<1> QED
  BY <1>1, <1>3, <1>8, <1>9

----------------------------------------------------------------------------
(* The queues between the server and a client's table, the one next to the *)
(* table first: inbox i, stream st, held h, ring r.                        *)

\* Append, for the lemmas below: the provers can instantiate it only unexpanded.
Then(us, u) == Append(us, u)

\* Taking the first of a queue to the end of the one before moves nothing past another.
LEMMA MoveAcross ==
  \A i, st, x \in Seq(Update) :
    st # <<>> => Then(i, Head(st)) \o (Tail(st) \o x) = i \o (st \o x)
<1> SUFFICES ASSUME NEW i \in Seq(Update), NEW st \in Seq(Update), NEW x \in Seq(Update), st # <<>>
             PROVE  Then(i, Head(st)) \o (Tail(st) \o x) = i \o (st \o x)
  OBVIOUS
<1>1. Head(st) \in Update /\ Tail(st) \in Seq(Update)
  BY HeadTailProperties
<1>2. <<Head(st)>> \in Seq(Update) /\ Tail(st) \o x \in Seq(Update)
  BY <1>1, ConcatProperties
<1>3. Append(i, Head(st)) = i \o <<Head(st)>>
  BY <1>1, AppendIsConcat
<1>4. (i \o <<Head(st)>>) \o (Tail(st) \o x) = i \o (<<Head(st)>> \o (Tail(st) \o x))
  BY <1>2, ConcatAssociative
<1>5. (<<Head(st)>> \o Tail(st)) \o x = <<Head(st)>> \o (Tail(st) \o x)
  BY <1>1, <1>2, ConcatAssociative
<1>6. <<Head(st)>> \o Tail(st) = st
  BY HeadThenTail
<1> QED
  BY <1>3, <1>4, <1>5, <1>6, Zenon DEF Then

\* Four queues in a row are a queue.
LEMMA PipeTyped ==
  ASSUME NEW i \in Seq(Update), NEW st \in Seq(Update), NEW h \in Seq(Update), NEW r \in Seq(Update)
  PROVE  Pipe(i, st, h, r) \in Seq(Update)
<1>1. PICK hr \in Seq(Update) : hr = h \o r
  BY ConcatProperties
<1>2. PICK sr \in Seq(Update) : sr = st \o hr
  BY ConcatProperties
<1>3. i \o sr \in Seq(Update)
  BY ConcatProperties
<1> QED
  BY <1>1, <1>2, <1>3 DEF Pipe

\* A broadcast appends to the queues in a row.
LEMMA PipeBroadcast ==
  ASSUME NEW i \in Seq(Update), NEW st \in Seq(Update), NEW h \in Seq(Update), NEW r \in Seq(Update),
         NEW u \in Update
  PROVE  Pipe(i, st, h, Then(r, u)) = Then(Pipe(i, st, h, r), u)
<1>1. PICK hr \in Seq(Update) : hr = h \o r
  BY ConcatProperties
<1>2. PICK sr \in Seq(Update) : sr = st \o hr
  BY ConcatProperties
<1>3. h \o Append(r, u) = Append(hr, u)
  BY <1>1, ConcatAppend
<1>4. st \o Append(hr, u) = Append(sr, u)
  BY <1>2, ConcatAppend
<1>5. i \o Append(sr, u) = Append(i \o sr, u)
  BY ConcatAppend
<1> QED
  BY <1>1, <1>2, <1>3, <1>4, <1>5, Zenon DEF Pipe, Then

\* A forwarder that takes an update from its ring moves nothing past another.
LEMMA PipeRecv ==
  ASSUME NEW i, NEW st, NEW r \in Seq(Update), r # <<>>
  PROVE  Pipe(i, st, <<Head(r)>>, Tail(r)) = Pipe(i, st, <<>>, r)
<1>1. <<Head(r)>> \o Tail(r) = r
  BY HeadThenTail
<1>2. <<>> \o r = r
  BY ConcatEmptySeq
<1> QED
  BY <1>1, <1>2, Zenon DEF Pipe

\* Nor does a forwarder that sends it.
LEMMA PipeSend ==
  ASSUME NEW i, NEW st \in Seq(Update), NEW h \in Seq(Update), NEW r \in Seq(Update)
  PROVE  Pipe(i, st \o h, <<>>, r) = Pipe(i, st, h, r)
<1>1. (st \o h) \o r = st \o (h \o r)
  BY ConcatAssociative
<1>2. <<>> \o r = r
  BY ConcatEmptySeq
<1> QED
  BY <1>1, <1>2, Zenon DEF Pipe

\* Nor does a client that reads it from the stream.
LEMMA PipeReceive ==
  ASSUME NEW i \in Seq(Update), NEW st \in Seq(Update), NEW h \in Seq(Update),
         NEW r \in Seq(Update), st # <<>>
  PROVE  Pipe(Append(i, Head(st)), Tail(st), h, r) = Pipe(i, st, h, r)
<1>1. PICK hr \in Seq(Update) : hr = h \o r
  BY ConcatProperties
<1>2. Then(i, Head(st)) \o (Tail(st) \o hr) = i \o (st \o hr)
  BY MoveAcross, Zenon
<1> QED
  BY <1>1, <1>2, Zenon DEF Pipe, Then

\* A client that applies the first of its inbox applies the first of all.
LEMMA PipeApply ==
  ASSUME NEW i \in Seq(Update), NEW st \in Seq(Update), NEW h \in Seq(Update), NEW r \in Seq(Update),
         i # <<>>
  PROVE  /\ Pipe(i, st, h, r) # <<>>
         /\ Head(Pipe(i, st, h, r)) = Head(i)
         /\ Tail(Pipe(i, st, h, r)) = Pipe(Tail(i), st, h, r)
<1>1. PICK hr \in Seq(Update) : hr = h \o r
  BY ConcatProperties
<1>2. PICK sr \in Seq(Update) : sr = st \o hr
  BY ConcatProperties
<1>3. i \o sr # <<>> /\ Head(i \o sr) = Head(i) /\ Tail(i \o sr) = Tail(i) \o sr
  BY HeadOfConcat
<1> QED
  BY <1>1, <1>2, <1>3, Zenon DEF Pipe

\* The stream of a new session holds one update, and its other queues none.
LEMMA PipeRegister ==
  ASSUME NEW i \in Seq(Update), NEW u \in Update
  PROVE  Pipe(i, <<u>>, <<>>, <<>>) = Append(i, u)
<1>1. <<u>> \in Seq(Update) /\ <<>> \in Seq(Update)
  OBVIOUS
<1>2. <<>> \o <<>> = <<>> /\ <<u>> \o <<>> = <<u>>
  BY <1>1, ConcatEmptySeq
<1>3. Append(i, u) = i \o <<u>>
  BY AppendIsConcat
<1> QED
  BY <1>2, <1>3, Zenon DEF Pipe

----------------------------------------------------------------------------
(* Updates. *)

\* The three updates the server makes are updates.
LEMMA UpdatesTyped ==
  ASSUME NEW table \in Table, NEW p \in Peers, NEW a \in Listed \cup {Absent}
  PROVE  /\ FullUpdate(table) \in Update
         /\ AddUpdate(p, a) \in Update
         /\ RemoveUpdate(p, a) \in Update
<1>1. EmptyTable \in Table
  BY DEF EmptyTable, Table
<1>2. [EmptyTable EXCEPT ![p] = a] \in Table
  BY <1>1 DEF Table
<1>3. [q \in Peers |-> IF table[q] = NoAddr THEN Absent ELSE table[q]] \in Table
  BY DEF Table
<1> QED
  BY <1>2, <1>3 DEF Update, FullUpdate, AddUpdate, RemoveUpdate

\* An update turns a table into a table.
LEMMA MergeTyped ==
  ASSUME NEW p \in Peers, NEW table \in Table, NEW u \in Update
  PROVE  Merge(p, table, u) \in Table
<1>1. /\ u.peers \in Table
      /\ u.type = "Full" \/ u.type = "Add" \/ u.type = "Remove"
  BY DEF Update
<1>2. ReplaceAll(p, u) \in Table
  BY <1>1 DEF ReplaceAll, Table
<1>3. AddAll(p, table, u) \in Table
  BY <1>1 DEF AddAll, Table
<1>4. RemoveAll(table, u) \in Table
  BY <1>1 DEF RemoveAll, Table
<1>5. CASE u.type = "Full"
  BY <1>5, <1>2 DEF Merge
<1>6. CASE u.type = "Add"
  BY <1>6, <1>3 DEF Merge
<1>7. CASE u.type = "Remove"
  BY <1>7, <1>4 DEF Merge
<1> QED
  BY <1>1, <1>5, <1>6, <1>7

\* An address list is a bag of addresses.
LEMMA PeerListTyped ==
  ASSUME NEW table
  PROVE  PeerList(table) \in [Listed -> Nat]
<1>1. ASSUME NEW a \in Listed
      PROVE  Cardinality({q \in Peers : table[q] = a}) \in Nat
  <2>1. {q \in Peers : table[q] = a} \subseteq Peers
    OBVIOUS
  <2> QED
    BY <2>1, PeersAssumption, FS_Subset, FS_CardinalityType
<1> QED
  BY <1>1 DEF PeerList

\* A client applies to the entry of another peer what the update says of it.
LEMMA MergeOther ==
  ASSUME NEW p \in Peers, NEW q \in Peers, q # p,
         NEW table \in Table, NEW u \in Update
  PROVE  Merge(p, table, u)[q] = IF Mentions(u, q) THEN Says(u, q) ELSE table[q]
<1>1. /\ u.peers \in Table
      /\ u.type = "Full" \/ u.type = "Add" \/ u.type = "Remove"
  BY DEF Update
<1>2. CASE u.type = "Full"
  BY <1>1, <1>2 DEF Merge, ReplaceAll, Mentions, Says, Table
<1>3. CASE u.type = "Add"
  BY <1>1, <1>3 DEF Merge, AddAll, Mentions, Says, Table
<1>4. CASE u.type = "Remove"
  BY <1>1, <1>4 DEF Merge, RemoveAll, Mentions, Says, Table
<1> QED
  BY <1>1, <1>2, <1>3, <1>4

\* No update gives a client an entry for itself.
LEMMA MergeSelf ==
  ASSUME NEW p \in Peers, NEW table \in Table, table[p] = Absent, NEW u \in Update
  PROVE  Merge(p, table, u)[p] = Absent
<1>1. /\ u.peers \in Table
      /\ u.type = "Full" \/ u.type = "Add" \/ u.type = "Remove"
  BY DEF Update
<1>2. CASE u.type = "Full"
  BY <1>1, <1>2 DEF Merge, ReplaceAll, Table
<1>3. CASE u.type = "Add"
  BY <1>1, <1>3 DEF Merge, AddAll
<1>4. CASE u.type = "Remove"
  BY <1>1, <1>4 DEF Merge, RemoveAll
<1> QED
  BY <1>1, <1>2, <1>3, <1>4

\* An update that says what the server holds settles the matter, whatever is queued
\* before it.
LEMMA AppendSettles ==
  ASSUME NEW us \in Seq(Update), NEW u \in Update, NEW q \in Peers,
         NEW known, NEW actual,
         Mentions(u, q), Agrees(Says(u, q), actual)
  PROVE  AgreesAfter(known, Append(us, u), q, actual)
<1> DEFINE vs == Append(us, u)
           n  == Len(us) + 1
<1>1. /\ vs \in Seq(Update) /\ Len(vs) = n /\ vs[n] = u
  BY AppendProperties
<1>2. Len(us) \in Nat /\ DOMAIN vs = 1..n
  BY <1>1, LenProperties
<1>3. n \in DOMAIN vs /\ Mentions(vs[n], q)
  BY <1>1, <1>2
<1>4. ASSUME NEW i \in DOMAIN vs,
             \A j \in DOMAIN vs : j > i => ~Mentions(vs[j], q)
      PROVE  Agrees(Says(vs[i], q), actual)
  <2>1. i = n
    BY <1>2, <1>3, <1>4
  <2> QED
    BY <2>1, <1>1
<1> QED
  BY <1>3, <1>4 DEF AgreesAfter

\* An update of other peers does not change what the queue leads to.
LEMMA AppendIrrelevant ==
  ASSUME NEW us \in Seq(Update), NEW u \in Update, NEW q \in Peers,
         NEW known, NEW actual,
         ~Mentions(u, q), AgreesAfter(known, us, q, actual)
  PROVE  AgreesAfter(known, Append(us, u), q, actual)
<1> DEFINE vs == Append(us, u)
           n  == Len(us) + 1
<1>1. /\ vs \in Seq(Update) /\ Len(vs) = n /\ vs[n] = u
      /\ \A i \in 1..Len(us) : vs[i] = us[i]
  BY AppendProperties
<1>2. Len(us) \in Nat /\ DOMAIN vs = 1..n /\ DOMAIN us = 1..Len(us)
  BY <1>1, LenProperties
<1>3. \A i \in DOMAIN us : i \in DOMAIN vs /\ vs[i] = us[i]
  BY <1>1, <1>2
<1>4. ~Mentions(vs[n], q)
  BY <1>1
<1>5. (\A i \in DOMAIN vs : ~Mentions(vs[i], q)) => Agrees(known, actual)
  BY <1>3 DEF AgreesAfter
<1>6. ASSUME NEW i \in DOMAIN vs, Mentions(vs[i], q),
             \A j \in DOMAIN vs : j > i => ~Mentions(vs[j], q)
      PROVE  Agrees(Says(vs[i], q), actual)
  <2>1. i \in DOMAIN us
    BY <1>2, <1>4, <1>6
  <2>2. vs[i] = us[i] /\ \A j \in DOMAIN us : j > i => ~Mentions(us[j], q)
    BY <2>1, <1>3, <1>6
  <2> QED
    BY <2>1, <2>2, <1>6 DEF AgreesAfter
<1> QED
  BY <1>5, <1>6 DEF AgreesAfter

\* Applying the head of the queue leaves what the queue leads to as it was.
LEMMA ApplyHead ==
  ASSUME NEW us \in Seq(Update), us # <<>>, NEW q \in Peers,
         NEW known, NEW actual,
         AgreesAfter(known, us, q, actual)
  PROVE  AgreesAfter(IF Mentions(Head(us), q) THEN Says(Head(us), q) ELSE known,
                     Tail(us), q, actual)
<1> DEFINE vs == Tail(us)
           next == IF Mentions(Head(us), q) THEN Says(Head(us), q) ELSE known
<1>1. /\ vs \in Seq(Update) /\ Len(vs) = Len(us) - 1
      /\ \A i \in 1..Len(vs) : vs[i] = us[i + 1]
  BY HeadTailProperties
<1>2. /\ Len(us) \in Nat \ {0}
      /\ DOMAIN us = 1..Len(us) /\ DOMAIN vs = 1..Len(us) - 1
  BY <1>1, EmptySeq, LenProperties
<1>3. Head(us) = us[1] /\ 1 \in DOMAIN us
  BY <1>2
<1>4. \A i \in DOMAIN vs : i + 1 \in DOMAIN us /\ vs[i] = us[i + 1]
  BY <1>1, <1>2
<1>5. \A i \in DOMAIN us : i # 1 => i - 1 \in DOMAIN vs /\ us[i] = vs[i - 1]
  BY <1>1, <1>2
<1>6. ASSUME \A i \in DOMAIN vs : ~Mentions(vs[i], q)
      PROVE  Agrees(next, actual)
  <2>1. \A i \in DOMAIN us : i # 1 => ~Mentions(us[i], q)
    BY <1>5, <1>6
  <2>2. CASE Mentions(us[1], q)
    <3>1. \A j \in DOMAIN us : j > 1 => ~Mentions(us[j], q)
      BY <2>1
    <3>2. Agrees(Says(us[1], q), actual)
      BY <3>1, <2>2, <1>3 DEF AgreesAfter
    <3> QED
      BY <3>2, <2>2, <1>3
  <2>3. CASE ~Mentions(us[1], q)
    <3>1. \A i \in DOMAIN us : ~Mentions(us[i], q)
      BY <2>1, <2>3
    <3>2. Agrees(known, actual)
      BY <3>1 DEF AgreesAfter
    <3> QED
      BY <3>2, <2>3, <1>3
  <2> QED
    BY <2>2, <2>3
<1>7. ASSUME NEW i \in DOMAIN vs, Mentions(vs[i], q),
             \A j \in DOMAIN vs : j > i => ~Mentions(vs[j], q)
      PROVE  Agrees(Says(vs[i], q), actual)
  <2>1. i + 1 \in DOMAIN us /\ vs[i] = us[i + 1]
    BY <1>4
  <2>2. ASSUME NEW j \in DOMAIN us, j > i + 1
        PROVE  ~Mentions(us[j], q)
    <3>1. j # 1 /\ j - 1 > i
      BY <2>2, <1>2
    <3> QED
      BY <3>1, <1>5, <1>7
  <2> QED
    BY <2>1, <2>2, <1>7 DEF AgreesAfter
<1> QED
  BY <1>6, <1>7 DEF AgreesAfter
==============================================================================
