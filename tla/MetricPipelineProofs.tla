------------------------ MODULE MetricPipelineProofs ------------------------
(***************************************************************************)
(* The way of the metrics, for any number of batches, kinds, failures and  *)
(* any capacities of the channels: which connections there are, in which   *)
(* order the batches are on their way, and that each metric is in one      *)
(* place, from which it follows that MetricPipeline implements MetricStore.*)
(***************************************************************************)
EXTENDS MetricPipeline, SequenceTheorems, FiniteSetTheorems, TLAPS

----------------------------------------------------------------------------
(* Sequences and what is in them. *)

Increasing(s) == \A i, j \in 1..Len(s) : i < j => s[i] < s[j]
Distinct(s) == \A i, j \in 1..Len(s) : i # j => s[i] # s[j]

\* The members of a sequence.
LEMMA Members ==
  ASSUME NEW S, NEW s \in Seq(S)
  PROVE  /\ ToSet(s) \subseteq S
         /\ ToSet(s) = {s[i] : i \in 1..Len(s)}
         /\ Len(s) \in Nat
BY LenProperties DEF ToSet

\* The empty sequence has none.
LEMMA MembersEmpty ==
  ASSUME NEW S
  PROVE  /\ <<>> \in Seq(S) /\ Len(<<>>) = 0 /\ ToSet(<<>>) = {}
         /\ Increasing(<<>>) /\ Distinct(<<>>)
BY DEF ToSet, Increasing, Distinct

\* The sequence of one has one.
LEMMA MembersOne ==
  ASSUME NEW S, NEW x \in S
  PROVE  <<x>> \in Seq(S) /\ Len(<<x>>) = 1 /\ Head(<<x>>) = x /\ Tail(<<x>>) = <<>> /\ ToSet(<<x>>) = {x}
<1>1. <<x>> \in Seq(S) /\ Len(<<x>>) = 1 /\ <<x>>[1] = x /\ Head(<<x>>) = x /\ Tail(<<x>>) = <<>>
  OBVIOUS
<1>2. ToSet(<<x>>) = {<<x>>[i] : i \in 1..1}
  BY <1>1, Members
<1> QED
  BY <1>1, <1>2

\* One more at the end.
LEMMA MembersAppend ==
  ASSUME NEW S, NEW s \in Seq(S), NEW x \in S
  PROVE  /\ Append(s, x) \in Seq(S)
         /\ Append(s, x) # <<>>
         /\ Len(Append(s, x)) = Len(s) + 1
         /\ Append(s, x)[Len(s) + 1] = x
         /\ \A i \in 1..Len(s) : Append(s, x)[i] = s[i]
         /\ ToSet(Append(s, x)) = ToSet(s) \cup {x}
<1>1. PICK t : t = Append(s, x)
  OBVIOUS
<1>2. /\ t \in Seq(S) /\ t # <<>> /\ Len(t) = Len(s) + 1 /\ t[Len(s) + 1] = x
      /\ \A i \in 1..Len(s) : t[i] = s[i]
  BY <1>1, AppendProperties
<1>3. Len(s) \in Nat /\ ToSet(s) = {s[i] : i \in 1..Len(s)} /\ ToSet(t) = {t[i] : i \in 1..Len(t)}
  BY <1>2, Members
<1>4. ToSet(t) = ToSet(s) \cup {x}
  <2>1. ASSUME NEW y \in ToSet(t) PROVE y \in ToSet(s) \cup {x}
    <3>1. PICK i \in 1..Len(t) : y = t[i]
      BY <1>3, <2>1
    <3>2. CASE i = Len(s) + 1
      BY <1>2, <3>1, <3>2
    <3>3. CASE i \in 1..Len(s)
      BY <1>2, <1>3, <3>1, <3>3
    <3> QED
      BY <1>2, <1>3, <3>1, <3>2, <3>3
  <2>2. ASSUME NEW y \in ToSet(s) PROVE y \in ToSet(t)
    <3>1. PICK i \in 1..Len(s) : y = s[i]
      BY <1>3, <2>2
    <3>2. i \in 1..Len(t) /\ y = t[i]
      BY <1>2, <1>3, <3>1
    <3> QED
      BY <1>3, <3>2
  <2>3. x \in ToSet(t)
    <3>1. Len(s) + 1 \in 1..Len(t)
      BY <1>2, <1>3
    <3> QED
      BY <1>2, <1>3, <3>1
  <2> QED
    BY <2>1, <2>2, <2>3
<1> QED
  BY <1>1, <1>2, <1>4

\* The first one, and the others.
LEMMA MembersHead ==
  ASSUME NEW S, NEW s \in Seq(S), s # <<>>
  PROVE  /\ Head(s) \in S /\ Head(s) = s[1] /\ Tail(s) \in Seq(S)
         /\ Len(s) \in Nat \ {0} /\ Len(Tail(s)) = Len(s) - 1
         /\ \A i \in 1..Len(Tail(s)) : Tail(s)[i] = s[i + 1]
         /\ ToSet(s) = {Head(s)} \cup ToSet(Tail(s))
<1>1. PICK t : t = Tail(s)
  OBVIOUS
<1>2. PICK h : h = Head(s)
  OBVIOUS
<1>3. /\ h \in S /\ t \in Seq(S) /\ Len(t) = Len(s) - 1 /\ h = s[1]
      /\ \A i \in 1..Len(t) : t[i] = s[i + 1]
  BY <1>1, <1>2, HeadTailProperties
<1>4. Len(s) \in Nat \ {0}
  BY EmptySeq
<1>5. ToSet(s) = {s[i] : i \in 1..Len(s)} /\ ToSet(t) = {t[i] : i \in 1..Len(t)}
  BY <1>3, Members
<1>6. ASSUME NEW y \in ToSet(s) PROVE y \in {h} \cup ToSet(t)
  <2>1. PICK i \in 1..Len(s) : y = s[i]
    BY <1>5, <1>6
  <2>2. CASE i = 1
    BY <1>3, <2>1, <2>2
  <2>3. CASE i # 1
    <3>1. i - 1 \in 1..Len(t) /\ t[i - 1] = s[i]
      BY <1>3, <1>4, <2>3
    <3> QED
      BY <1>5, <2>1, <3>1
  <2> QED
    BY <2>2, <2>3
<1>7. ASSUME NEW y \in ToSet(t) PROVE y \in ToSet(s)
  <2>1. PICK i \in 1..Len(t) : y = t[i]
    BY <1>5, <1>7
  <2>2. i + 1 \in 1..Len(s) /\ y = s[i + 1]
    BY <1>3, <1>4, <2>1
  <2> QED
    BY <1>5, <2>2
<1>8. h \in ToSet(s)
  BY <1>3, <1>4, <1>5
<1> QED
  BY <1>1, <1>2, <1>3, <1>4, <1>6, <1>7, <1>8

\* A channel of one: its only message.
LEMMA MembersShort ==
  ASSUME NEW S, NEW s \in Seq(S), Len(s) <= 1, s # <<>>
  PROVE  Tail(s) = <<>> /\ ToSet(s) = {Head(s)}
<1>1. PICK t \in Seq(S) : t = Tail(s)
  BY MembersHead
<1>2. Len(s) \in Nat \ {0} /\ Len(t) = Len(s) - 1 /\ ToSet(s) = {Head(s)} \cup ToSet(t)
  BY <1>1, MembersHead
<1>3. Len(t) = 0
  BY <1>2
<1>4. t = <<>>
  BY <1>3, EmptySeq
<1> QED
  BY <1>1, <1>2, <1>4, MembersEmpty

\* A larger one at the end of an increasing sequence.
LEMMA IncreasingAppend ==
  ASSUME NEW s \in Seq(Nat), NEW x \in Nat, Increasing(s), \A y \in ToSet(s) : y < x
  PROVE  Increasing(Append(s, x))
<1>1. PICK t : t = Append(s, x)
  OBVIOUS
<1>2. t \in Seq(Nat) /\ Len(t) = Len(s) + 1 /\ t[Len(s) + 1] = x /\ \A i \in 1..Len(s) : t[i] = s[i]
  BY <1>1, MembersAppend
<1>3. Len(s) \in Nat /\ \A i \in 1..Len(s) : s[i] \in ToSet(s)
  BY Members
<1>4. ASSUME NEW i \in 1..Len(t), NEW j \in 1..Len(t), i < j PROVE t[i] < t[j]
  <2>1. i \in 1..Len(s) /\ t[i] = s[i]
    BY <1>2, <1>3, <1>4
  <2>2. CASE j = Len(s) + 1
    BY <1>2, <1>3, <2>1, <2>2
  <2>3. CASE j \in 1..Len(s)
    BY <1>2, <1>4, <2>1, <2>3 DEF Increasing
  <2> QED
    BY <1>2, <1>3, <2>2, <2>3
<1> QED
  BY <1>1, <1>4 DEF Increasing

\* The first of an increasing sequence is the smallest.
LEMMA IncreasingTail ==
  ASSUME NEW s \in Seq(Nat), s # <<>>, Increasing(s)
  PROVE  Increasing(Tail(s)) /\ \A y \in ToSet(Tail(s)) : Head(s) < y
<1>1. PICK t : t = Tail(s)
  OBVIOUS
<1>2. /\ t \in Seq(Nat) /\ Head(s) = s[1] /\ Len(s) \in Nat \ {0} /\ Len(t) = Len(s) - 1
      /\ \A i \in 1..Len(t) : t[i] = s[i + 1]
  BY <1>1, MembersHead
<1>3. Increasing(t)
  <2> SUFFICES ASSUME NEW i \in 1..Len(t), NEW j \in 1..Len(t), i < j PROVE t[i] < t[j]
    BY DEF Increasing
  <2>1. i + 1 \in 1..Len(s) /\ j + 1 \in 1..Len(s) /\ i + 1 < j + 1
    BY <1>2
  <2>2. s[i + 1] < s[j + 1]
    BY <2>1 DEF Increasing
  <2> QED
    BY <1>2, <2>2
<1>4. ASSUME NEW y \in ToSet(t) PROVE s[1] < y
  <2>1. PICK i \in 1..Len(t) : y = t[i]
    BY <1>2, <1>4, Members
  <2>2. i + 1 \in 1..Len(s) /\ 1 \in 1..Len(s) /\ 1 < i + 1
    BY <1>2
  <2>3. s[1] < s[i + 1]
    BY <2>2 DEF Increasing
  <2> QED
    BY <1>2, <2>1, <2>3
<1> QED
  BY <1>1, <1>2, <1>3, <1>4

\* One more that was not there.
LEMMA DistinctAppend ==
  ASSUME NEW S, NEW s \in Seq(S), NEW x \in S, Distinct(s), x \notin ToSet(s)
  PROVE  Distinct(Append(s, x))
<1>1. PICK t : t = Append(s, x)
  OBVIOUS
<1>2. Len(t) = Len(s) + 1 /\ t[Len(s) + 1] = x /\ \A i \in 1..Len(s) : t[i] = s[i]
  BY <1>1, MembersAppend
<1>3. Len(s) \in Nat /\ \A i \in 1..Len(s) : s[i] # x
  BY Members
<1>4. ASSUME NEW i \in 1..Len(t), NEW j \in 1..Len(t), i # j PROVE t[i] # t[j]
  <2>1. \A k \in 1..Len(t) : k = Len(s) + 1 \/ k \in 1..Len(s)
    BY <1>2, <1>3
  <2>2. CASE i = Len(s) + 1
    BY <1>2, <1>3, <1>4, <2>1, <2>2
  <2>3. CASE j = Len(s) + 1
    BY <1>2, <1>3, <1>4, <2>1, <2>3
  <2>4. CASE i \in 1..Len(s) /\ j \in 1..Len(s)
    BY <1>2, <1>4, <2>4 DEF Distinct
  <2> QED
    BY <2>1, <2>2, <2>3, <2>4
<1> QED
  BY <1>1, <1>4 DEF Distinct

\* The first is not among the others.
LEMMA DistinctTail ==
  ASSUME NEW S, NEW s \in Seq(S), s # <<>>, Distinct(s)
  PROVE  Distinct(Tail(s)) /\ Head(s) \notin ToSet(Tail(s))
<1>1. PICK t : t = Tail(s)
  OBVIOUS
<1>2. /\ t \in Seq(S) /\ Head(s) = s[1] /\ Len(s) \in Nat \ {0} /\ Len(t) = Len(s) - 1
      /\ \A i \in 1..Len(t) : t[i] = s[i + 1]
  BY <1>1, MembersHead
<1>3. Distinct(t)
  <2> SUFFICES ASSUME NEW i \in 1..Len(t), NEW j \in 1..Len(t), i # j PROVE t[i] # t[j]
    BY DEF Distinct
  <2>1. i + 1 \in 1..Len(s) /\ j + 1 \in 1..Len(s) /\ i + 1 # j + 1
    BY <1>2
  <2> QED
    BY <1>2, <2>1 DEF Distinct
<1>4. ASSUME NEW y \in ToSet(t) PROVE s[1] # y
  <2>1. PICK i \in 1..Len(t) : y = t[i]
    BY <1>2, <1>4, Members
  <2>2. i + 1 \in 1..Len(s) /\ 1 \in 1..Len(s) /\ 1 # i + 1
    BY <1>2
  <2> QED
    BY <1>2, <2>1, <2>2 DEF Distinct
<1> QED
  BY <1>1, <1>2, <1>3, <1>4

----------------------------------------------------------------------------
(* The connections. *)

\* Connections are made one after the other, and each but the last one is broken; the
\* last one is, too, when the next is made.  Every broken one had a fault of its own.
Linked ==
  /\ \A c \in Conns : /\ link[c] = "none" <=> c > conn
                      /\ c < conn => Broken(c)
                      /\ link[c] \in {"none", "made"} => wire[c] = <<>>
  /\ lpc \in {"offer", "call"} => link[conn] = "made"
  /\ lpc = "read" => link[conn] \in {"up", "cut", "gone"}
  /\ lpc \in {"lock", "get"} /\ conn > 0 => Broken(conn)
  /\ conn <= faults + 1
  /\ conn \in Conns /\ Broken(conn) => conn <= faults

\* The composer is given the channels of all connections, in their order.
Handed ==
  /\ offered \in {<<>>, <<sender + 1>>}
  /\ conn = sender + Len(offered) + (IF lpc = "offer" THEN 1 ELSE 0)
  /\ cpc = "swap" => link[sender] = "gone"
  /\ \A c \in Conns : c > sender => wire[c] = <<>> /\ chan[c] = <<>>


LinkInv == TypeOK /\ Linked /\ Handed

\* A batch is made: it concerns no connection.
LEMMA MakeBatchLinks ==
  ASSUME LinkInv, MakeBatch
  PROVE  LinkInv'
<1> USE BoundAssumption DEF LinkInv, TypeOK
<1>1. /\ LoopTypeOK' /\ LinkTypeOK' /\ ServerTypeOK'
      /\ faults' \in 0..MaxFaults /\ lost' \subseteq 1..MaxBatches /\ overlap' \in BOOLEAN
  BY SMTT(10) DEF MakeBatch, loopVars, LoopTypeOK, linkVars, LinkTypeOK, serverVars, ServerTypeOK, history
<1>2. ClientTypeOK'
  BY SMTT(10) DEF MakeBatch, ClientTypeOK
<1>3. Linked'
  BY SMTT(10) DEF MakeBatch, Linked, Broken, Conns, loopVars, linkVars, LoopTypeOK, LinkTypeOK
<1>4. Handed'
  BY SMTT(10) DEF MakeBatch, Handed, Linked, Broken, Conns, clientVars, loopVars, linkVars, ClientTypeOK, LoopTypeOK, LinkTypeOK
<1> QED
  BY <1>1, <1>2, <1>3, <1>4

\* The composer goes on to the next of the connections made.
LEMMA TakeSenderLinks ==
  ASSUME LinkInv, TakeSender
  PROVE  LinkInv'
<1> USE BoundAssumption DEF LinkInv, TypeOK
<1>1. /\ LoopTypeOK' /\ LinkTypeOK' /\ ServerTypeOK'
      /\ faults' \in 0..MaxFaults /\ lost' \subseteq 1..MaxBatches /\ overlap' \in BOOLEAN
  BY SMTT(10) DEF TakeSender, loopVars, LoopTypeOK, linkVars, LinkTypeOK, serverVars, ServerTypeOK, history
<1>2. ClientTypeOK'
  BY SMTT(10) DEF TakeSender, ClientTypeOK
<1>3. Linked'
  BY SMTT(10) DEF TakeSender, Linked, Broken, Conns, loopVars, linkVars, LoopTypeOK, LinkTypeOK
<1>4. Handed'
  <2>1. offered # <<>> /\ sender' = Head(offered) /\ offered' = Tail(offered)
    BY DEF TakeSender
  <2>2. offered = <<sender + 1>>
    BY <2>1 DEF Handed
  <2>3. sender \in Nat /\ Len(offered) = 1 /\ sender' = sender + 1 /\ offered' = <<>> /\ Len(offered') = 0
    BY <2>1, <2>2, MembersOne, MembersEmpty DEF ClientTypeOK, Conns
  <2>4. cpc' # "swap" /\ UNCHANGED <<wire, chan, conn, lpc>>
    BY DEF TakeSender, loopVars, linkVars
  <2>5. conn' = sender' + Len(offered') + (IF lpc' = "offer" THEN 1 ELSE 0)
    <3>1. PICK e \in 0..1 : e = IF lpc = "offer" THEN 1 ELSE 0
      OBVIOUS
    <3>2. conn = sender + Len(offered) + e
      BY <3>1 DEF Handed
    <3>3. conn' = sender' + Len(offered') + e
      BY <2>3, <2>4, <3>2
    <3> QED
      BY <2>4, <3>1, <3>3
  <2>6. \A c \in Conns : c > sender' => c > sender
    BY <2>3 DEF Conns
  <2>7. offered' \in {<<>>, <<sender' + 1>>}
    BY <2>3
  <2> QED
    BY <2>4, <2>5, <2>6, <2>7 DEF Handed
<1> QED
  BY <1>1, <1>2, <1>3, <1>4

\* The composer takes a batch, and keeps its connection.
LEMMA TakeBatchLinks ==
  ASSUME LinkInv, TakeBatch
  PROVE  LinkInv'
<1> USE BoundAssumption DEF LinkInv, TypeOK
<1>1. /\ LoopTypeOK' /\ LinkTypeOK' /\ ServerTypeOK'
      /\ faults' \in 0..MaxFaults /\ lost' \subseteq 1..MaxBatches /\ overlap' \in BOOLEAN
  BY SMTT(10) DEF TakeBatch, loopVars, LoopTypeOK, linkVars, LinkTypeOK, serverVars, ServerTypeOK, history
<1>2. ClientTypeOK'
  BY SMTT(10) DEF TakeBatch, ClientTypeOK
<1>3. Linked'
  BY SMTT(10) DEF TakeBatch, Linked, Broken, Conns, loopVars, linkVars, LoopTypeOK, LinkTypeOK
<1>4. Handed'
  BY SMTT(10) DEF TakeBatch, Handed, Linked, Broken, Conns, clientVars, loopVars, linkVars, ClientTypeOK, LoopTypeOK, LinkTypeOK
<1> QED
  BY <1>1, <1>2, <1>3, <1>4

\* A batch goes to the channel of a connection that is made and not yet gone.
LEMMA SendBatchLinks ==
  ASSUME LinkInv, SendBatch
  PROVE  LinkInv'
<1> USE BoundAssumption DEF LinkInv, TypeOK
<1>1. LoopTypeOK' /\ ServerTypeOK'
  BY SMTT(10) DEF SendBatch, loopVars, LoopTypeOK, serverVars, ServerTypeOK
<1>2. ClientTypeOK'
  BY SMTT(10) DEF SendBatch, ClientTypeOK
<1>3. LinkTypeOK'
  <2> hand \in 1..MaxBatches
    BY DEF SendBatch, ClientTypeOK
  <2>1. PICK s \in Seq(1..MaxBatches) : s = <<hand>> /\ Len(s) = 1
    BY MembersOne
  <2>2. sender \in Conns /\ UNCHANGED <<link, wire>>
    BY DEF SendBatch, ClientTypeOK
  <2>3. chan' = chan \/ chan' = [chan EXCEPT ![sender] = s]
    BY <2>1 DEF SendBatch
  <2>4. chan' \in [Conns -> Seq(1..MaxBatches)] /\ \A d \in Conns : chan'[d] \in {s, chan[d]}
    BY <2>1, <2>2, <2>3 DEF LinkTypeOK
  <2>5. \A d \in Conns : Len(chan'[d]) <= 1
    <3>1. \A d \in Conns : Len(chan[d]) <= 1
      BY DEF LinkTypeOK
    <3>2. Len(s) <= 1
      BY <2>1
    <3>3. ASSUME NEW d \in Conns PROVE Len(chan'[d]) <= 1
      <4>1. chan'[d] = s \/ chan'[d] = chan[d]
        BY <2>4
      <4> QED
        BY ONLY <3>1, <3>2, <4>1
    <3> QED
      BY <3>3
  <2> QED
    BY <2>2, <2>4, <2>5 DEF LinkTypeOK
<1>4. faults' \in 0..MaxFaults /\ lost' \subseteq 1..MaxBatches /\ overlap' \in BOOLEAN
  <2>1. hand \in 1..MaxBatches /\ UNCHANGED <<faults, overlap>>
    BY DEF SendBatch, ClientTypeOK
  <2>2. lost' = lost \/ lost' = lost \cup {hand}
    BY DEF SendBatch
  <2> QED
    BY <2>1, <2>2
<1>5. Linked'
  BY SMTT(10) DEF SendBatch, Linked, Broken, Conns, loopVars, linkVars, LoopTypeOK, LinkTypeOK
<1>6. Handed'
  <2>1. PICK s : s = <<hand>>
    OBVIOUS
  <2>2. chan' = chan \/ chan' = [chan EXCEPT ![sender] = s]
    BY <2>1 DEF SendBatch
  <2>3. \A c \in Conns : c > sender => chan'[c] = chan[c]
    BY <2>2 DEF Conns, ClientTypeOK, LinkTypeOK
  <2>4. cpc' # "swap" /\ UNCHANGED <<offered, sender, conn, lpc, wire>>
    BY DEF SendBatch, loopVars
  <2> QED
    BY <2>3, <2>4 DEF Handed
<1> QED
  BY <1>1, <1>2, <1>3, <1>4, <1>5, <1>6

\* The connection task takes the mutex only when its last connection is broken.
LEMMA LockForMetricsLinks ==
  ASSUME LinkInv, LockForMetrics
  PROVE  LinkInv'
<1> USE BoundAssumption DEF LinkInv, TypeOK
<1>1. /\ ClientTypeOK' /\ LinkTypeOK' /\ ServerTypeOK'
      /\ faults' \in 0..MaxFaults /\ lost' \subseteq 1..MaxBatches /\ overlap' \in BOOLEAN
  BY SMTT(10) DEF LockForMetrics, clientVars, ClientTypeOK, linkVars, LinkTypeOK, serverVars, ServerTypeOK, history
<1>2. LoopTypeOK'
  BY SMTT(10) DEF LockForMetrics, LoopTypeOK, Linked
<1>3. Linked'
  BY SMTT(10) DEF LockForMetrics, Linked, Broken, Conns, loopVars, linkVars, LoopTypeOK, LinkTypeOK
<1>4. Handed'
  BY SMTT(10) DEF LockForMetrics, Handed, Linked, Broken, Conns, clientVars, loopVars, linkVars, ClientTypeOK, LoopTypeOK, LinkTypeOK
<1> QED
  BY <1>1, <1>2, <1>3, <1>4

\* The next connection is made; as the one before is broken, there is one more to make.
LEMMA GetForMetricsLinks ==
  ASSUME LinkInv, GetForMetrics
  PROVE  LinkInv'
<1> USE BoundAssumption DEF LinkInv, TypeOK
<1>1. /\ ClientTypeOK' /\ ServerTypeOK'
      /\ faults' \in 0..MaxFaults /\ lost' \subseteq 1..MaxBatches /\ overlap' \in BOOLEAN
  BY SMTT(10) DEF GetForMetrics, clientVars, ClientTypeOK, serverVars, ServerTypeOK, history
<1>2. LoopTypeOK'
  BY DEF GetForMetrics, LoopTypeOK, Linked, Conns
<1>3. LinkTypeOK'
  <2>1. link' = [link EXCEPT ![conn + 1] = "made"] /\ UNCHANGED <<chan, wire>>
    BY DEF GetForMetrics
  <2> QED
    BY <2>1 DEF LinkTypeOK
<1>4. Linked'
  <2>1. conn + 1 \in Conns /\ conn \in Nat /\ conn' = conn + 1 /\ lpc = "get" /\ lpc' = "offer"
    BY DEF GetForMetrics, LoopTypeOK, Linked, Conns
  <2>2. \A d \in Conns : link'[d] = IF d = conn + 1 THEN "made" ELSE link[d]
    BY DEF GetForMetrics, LinkTypeOK
  <2>3. conn \in Conns => Broken(conn)
    BY <2>1 DEF Linked, Conns
  <2>4. wire' = wire /\ faults' = faults
    BY DEF GetForMetrics
  <2>5. wire[conn + 1] = <<>>
    BY <2>1 DEF Linked
  <2>6. ASSUME NEW c \in Conns
        PROVE  /\ link'[c] = "none" <=> c > conn'
               /\ c < conn' => link'[c] \in {"cut", "gone"}
               /\ link'[c] \in {"none", "made"} => wire'[c] = <<>>
    <3>1. c \in Nat
      BY DEF Conns
    <3> QED
      BY <2>1, <2>2, <2>3, <2>4, <2>5, <3>1 DEF Linked, Broken
  <2>7. conn + 1 <= faults + 1
    BY <2>1, <2>3 DEF Linked, Conns
  <2>8. link'[conn'] = "made"
    BY <2>1, <2>2
  <2> QED
    BY <2>1, <2>4, <2>6, <2>7, <2>8 DEF Linked, Broken
<1>5. Handed'
  BY SMTT(10) DEF GetForMetrics, Handed, Linked, Broken, Conns, clientVars, loopVars, linkVars, ClientTypeOK, LoopTypeOK, LinkTypeOK
<1> QED
  BY <1>1, <1>2, <1>3, <1>4, <1>5

\* The connection made last is the next one that the composer is given.
LEMMA OfferLinks ==
  ASSUME LinkInv, Offer
  PROVE  LinkInv'
<1> USE BoundAssumption DEF LinkInv, TypeOK
<1>1. /\ LinkTypeOK' /\ ServerTypeOK'
      /\ faults' \in 0..MaxFaults /\ lost' \subseteq 1..MaxBatches /\ overlap' \in BOOLEAN
  BY SMTT(10) DEF Offer, linkVars, LinkTypeOK, serverVars, ServerTypeOK, history
<1>2. ClientTypeOK'
  <2>1. conn \in Conns /\ offered' = <<conn>> /\ UNCHANGED <<made, meas, cpc, hand, sender>>
    BY DEF Offer, LoopTypeOK
  <2> QED
    BY <2>1 DEF ClientTypeOK
<1>3. LoopTypeOK'
  BY SMTT(10) DEF Offer, LoopTypeOK, Linked
<1>4. Linked'
  BY SMTT(10) DEF Offer, Linked, Broken, Conns, loopVars, linkVars, LoopTypeOK, LinkTypeOK
<1>5. Handed'
  BY SMTT(10) DEF Offer, Handed, Linked, Broken, Conns, clientVars, loopVars, linkVars, ClientTypeOK, LoopTypeOK, LinkTypeOK
<1> QED
  BY <1>1, <1>2, <1>3, <1>4, <1>5

\* The connection made last is up.
LEMMA CallAnsweredLinks ==
  ASSUME LinkInv, CallAnswered
  PROVE  LinkInv'
<1> USE BoundAssumption DEF LinkInv, TypeOK
<1>1. /\ ClientTypeOK' /\ ServerTypeOK'
      /\ faults' \in 0..MaxFaults /\ lost' \subseteq 1..MaxBatches /\ overlap' \in BOOLEAN
  BY SMTT(10) DEF CallAnswered, clientVars, ClientTypeOK, serverVars, ServerTypeOK, history
<1>2. LoopTypeOK'
  BY SMTT(10) DEF CallAnswered, LoopTypeOK, Linked
<1>3. LinkTypeOK'
  <2>1. link' = [link EXCEPT ![conn] = "up"] /\ UNCHANGED <<chan, wire>>
    BY DEF CallAnswered
  <2> QED
    BY <2>1 DEF LinkTypeOK
<1>4. Linked'
  BY SMTT(10) DEF CallAnswered, Linked, Broken, Conns, loopVars, linkVars, LoopTypeOK, LinkTypeOK
<1>5. Handed'
  BY SMTT(10) DEF CallAnswered, Handed, Linked, Broken, Conns, clientVars, loopVars, linkVars, ClientTypeOK, LoopTypeOK, LinkTypeOK
<1> QED
  BY <1>1, <1>2, <1>3, <1>4, <1>5

\* The connection made last is broken, for one more failure.
LEMMA CallFailsLinks ==
  ASSUME LinkInv, CallFails
  PROVE  LinkInv'
<1> USE BoundAssumption DEF LinkInv, TypeOK
<1>1. ClientTypeOK' /\ ServerTypeOK'
  BY SMTT(10) DEF CallFails, clientVars, ClientTypeOK, serverVars, ServerTypeOK
<1>2. LoopTypeOK'
  BY SMTT(10) DEF CallFails, LoopTypeOK, Linked
<1>3. LinkTypeOK'
  <2>1. link' = [link EXCEPT ![conn] = "gone"] /\ chan' = [chan EXCEPT ![conn] = <<>>] /\ wire' = wire
    BY DEF CallFails
  <2>2. PICK s \in Seq(1..MaxBatches) : s = <<>> /\ Len(s) = 0
    BY MembersEmpty
  <2>3. chan' = [chan EXCEPT ![conn] = s]
    BY <2>1, <2>2
  <2>4. conn \in Conns
    BY DEF CallFails, LoopTypeOK
  <2>5. chan' \in [Conns -> Seq(1..MaxBatches)] /\ \A d \in Conns : chan'[d] \in {s, chan[d]}
    BY <2>2, <2>3, <2>4 DEF LinkTypeOK
  <2>6. \A d \in Conns : Len(chan'[d]) <= 1
    BY <2>2, <2>5 DEF LinkTypeOK
  <2> QED
    BY <2>1, <2>5, <2>6 DEF LinkTypeOK
<1>4. faults' \in 0..MaxFaults /\ lost' \subseteq 1..MaxBatches /\ overlap' \in BOOLEAN
  <2>1. conn \in Conns /\ chan[conn] \in Seq(1..MaxBatches)
    BY DEF CallFails, LoopTypeOK, LinkTypeOK
  <2>2. Numbers(chan[conn]) \subseteq 1..MaxBatches
    BY <2>1, Members DEF Numbers
  <2>3. /\ lost' = lost \cup Numbers(chan[conn])
        /\ (faults' = faults \/ (faults' = faults + 1 /\ faults < MaxFaults))
    BY DEF CallFails
  <2>4. overlap' \in BOOLEAN
    BY DEF CallFails
  <2>5. faults' \in 0..MaxFaults
    BY <2>3
  <2> QED
    BY <2>2, <2>3, <2>4, <2>5
<1>5. Linked'
  <2>1. conn \in Conns /\ lpc = "call" /\ lpc' = "lock" /\ UNCHANGED <<conn, wire>> /\ faults' = faults + 1
    BY DEF CallFails, LoopTypeOK
  <2>2. \A d \in Conns : link'[d] = IF d = conn THEN "gone" ELSE link[d]
    BY DEF CallFails, LinkTypeOK
  <2>3. ASSUME NEW c \in Conns
        PROVE  /\ link'[c] = "none" <=> c > conn'
               /\ c < conn' => link'[c] \in {"cut", "gone"}
               /\ link'[c] \in {"none", "made"} => wire'[c] = <<>>
    <3>1. c \in Nat /\ conn \in Nat
      BY <2>1 DEF Conns
    <3> QED
      BY <2>1, <2>2, <3>1 DEF Linked, Broken
  <2>4. conn <= faults + 1 /\ conn \in Nat /\ faults \in Nat
    BY <2>1 DEF Linked, Conns
  <2> QED
    BY <2>1, <2>2, <2>3, <2>4 DEF Linked, Broken
<1>6. Handed'
  <2>1. \A d \in Conns : chan'[d] = IF d = conn THEN <<>> ELSE chan[d]
    BY DEF CallFails, LinkTypeOK
  <2>2. \A d \in Conns : link[d] = "gone" => link'[d] = "gone"
    BY DEF CallFails, LinkTypeOK
  <2>3. cpc = "swap" => sender \in Conns
    BY DEF ClientTypeOK
  <2>4. UNCHANGED <<cpc, offered, sender, conn, wire>> /\ (lpc' = "offer" <=> lpc = "offer")
    BY DEF CallFails, clientVars, loopVars
  <2> QED
    BY <2>1, <2>2, <2>3, <2>4 DEF Handed
<1> QED
  BY <1>1, <1>2, <1>3, <1>4, <1>5, <1>6

\* An answer is read: no connection changes.
LEMMA ReadAnswerLinks ==
  ASSUME LinkInv, ReadAnswer
  PROVE  LinkInv'
<1> USE BoundAssumption DEF LinkInv, TypeOK
<1>1. /\ ClientTypeOK' /\ LoopTypeOK' /\ LinkTypeOK'
      /\ faults' \in 0..MaxFaults /\ lost' \subseteq 1..MaxBatches /\ overlap' \in BOOLEAN
  BY SMTT(10) DEF ReadAnswer, clientVars, ClientTypeOK, loopVars, LoopTypeOK, linkVars, LinkTypeOK, history
<1>2. ServerTypeOK'
  <2>1. conn \in Conns /\ answers[conn] \in 0..1 /\ answers[conn] > 0
    BY DEF ReadAnswer, LoopTypeOK, ServerTypeOK
  <2>2. answers[conn] - 1 \in 0..1
    BY <2>1
  <2>3. answers' = [answers EXCEPT ![conn] = answers[conn] - 1] /\ UNCHANGED <<task, queue, store>>
    BY DEF ReadAnswer
  <2> QED
    BY <2>2, <2>3 DEF ServerTypeOK
<1>3. Linked'
  BY SMTT(10) DEF ReadAnswer, Linked, Broken, Conns, loopVars, linkVars, LoopTypeOK, LinkTypeOK
<1>4. Handed'
  BY SMTT(10) DEF ReadAnswer, Handed, Linked, Broken, Conns, clientVars, loopVars, linkVars, ClientTypeOK, LoopTypeOK, LinkTypeOK
<1> QED
  BY <1>1, <1>2, <1>3, <1>4

\* The connection task gives up its connection, which is broken.
LEMMA ResponsesEndLinks ==
  ASSUME LinkInv, ResponsesEnd
  PROVE  LinkInv'
<1> USE BoundAssumption DEF LinkInv, TypeOK
<1>1. /\ ClientTypeOK' /\ LinkTypeOK' /\ ServerTypeOK'
      /\ faults' \in 0..MaxFaults /\ lost' \subseteq 1..MaxBatches /\ overlap' \in BOOLEAN
  BY SMTT(10) DEF ResponsesEnd, clientVars, ClientTypeOK, linkVars, LinkTypeOK, serverVars, ServerTypeOK, history
<1>2. LoopTypeOK'
  BY SMTT(10) DEF ResponsesEnd, LoopTypeOK, Linked
<1>3. Linked'
  BY SMTT(10) DEF ResponsesEnd, Linked, Broken, Conns, loopVars, linkVars, LoopTypeOK, LinkTypeOK
<1>4. Handed'
  BY SMTT(10) DEF ResponsesEnd, Handed, Linked, Broken, Conns, clientVars, loopVars, linkVars, ClientTypeOK, LoopTypeOK, LinkTypeOK
<1> QED
  BY <1>1, <1>2, <1>3, <1>4

\* The registering task takes the mutex: no connection changes.
LEMMA LockForRegisterLinks ==
  ASSUME LinkInv, LockForRegister
  PROVE  LinkInv'
<1> USE BoundAssumption DEF LinkInv, TypeOK
<1>1. /\ ClientTypeOK' /\ LinkTypeOK' /\ ServerTypeOK'
      /\ faults' \in 0..MaxFaults /\ lost' \subseteq 1..MaxBatches /\ overlap' \in BOOLEAN
  BY SMTT(10) DEF LockForRegister, clientVars, ClientTypeOK, linkVars, LinkTypeOK, serverVars, ServerTypeOK, history
<1>2. LoopTypeOK'
  BY SMTT(10) DEF LockForRegister, LoopTypeOK, Linked
<1>3. Linked'
  BY SMTT(10) DEF LockForRegister, Linked, Broken, Conns, loopVars, linkVars, LoopTypeOK, LinkTypeOK
<1>4. Handed'
  BY SMTT(10) DEF LockForRegister, Handed, Linked, Broken, Conns, clientVars, loopVars, linkVars, ClientTypeOK, LoopTypeOK, LinkTypeOK
<1> QED
  BY <1>1, <1>2, <1>3, <1>4

\* The registering task gets a client: no connection changes.
LEMMA GetForRegisterLinks ==
  ASSUME LinkInv, GetForRegister
  PROVE  LinkInv'
<1> USE BoundAssumption DEF LinkInv, TypeOK
<1>1. /\ ClientTypeOK' /\ LinkTypeOK' /\ ServerTypeOK'
      /\ faults' \in 0..MaxFaults /\ lost' \subseteq 1..MaxBatches /\ overlap' \in BOOLEAN
  BY SMTT(10) DEF GetForRegister, clientVars, ClientTypeOK, linkVars, LinkTypeOK, serverVars, ServerTypeOK, history
<1>2. LoopTypeOK'
  BY SMTT(10) DEF GetForRegister, LoopTypeOK, Linked
<1>3. Linked'
  BY SMTT(10) DEF GetForRegister, Linked, Broken, Conns, loopVars, linkVars, LoopTypeOK, LinkTypeOK
<1>4. Handed'
  BY SMTT(10) DEF GetForRegister, Handed, Linked, Broken, Conns, clientVars, loopVars, linkVars, ClientTypeOK, LoopTypeOK, LinkTypeOK
<1> QED
  BY <1>1, <1>2, <1>3, <1>4

\* The registering task starts again: no connection changes.
LEMMA RegisterAgainLinks ==
  ASSUME LinkInv, RegisterAgain
  PROVE  LinkInv'
<1> USE BoundAssumption DEF LinkInv, TypeOK
<1>1. /\ ClientTypeOK' /\ LinkTypeOK' /\ ServerTypeOK'
      /\ faults' \in 0..MaxFaults /\ lost' \subseteq 1..MaxBatches /\ overlap' \in BOOLEAN
  BY SMTT(10) DEF RegisterAgain, clientVars, ClientTypeOK, linkVars, LinkTypeOK, serverVars, ServerTypeOK, history
<1>2. LoopTypeOK'
  BY SMTT(10) DEF RegisterAgain, LoopTypeOK, Linked
<1>3. Linked'
  BY SMTT(10) DEF RegisterAgain, Linked, Broken, Conns, loopVars, linkVars, LoopTypeOK, LinkTypeOK
<1>4. Handed'
  BY SMTT(10) DEF RegisterAgain, Handed, Linked, Broken, Conns, clientVars, loopVars, linkVars, ClientTypeOK, LoopTypeOK, LinkTypeOK
<1> QED
  BY <1>1, <1>2, <1>3, <1>4

\* The server comes into reach or out of it: no connection changes.
LEMMA ReachLinks ==
  ASSUME LinkInv, Reach
  PROVE  LinkInv'
<1> USE BoundAssumption DEF LinkInv, TypeOK
<1>1. /\ ClientTypeOK' /\ LinkTypeOK' /\ ServerTypeOK'
      /\ faults' \in 0..MaxFaults /\ lost' \subseteq 1..MaxBatches /\ overlap' \in BOOLEAN
  BY SMTT(10) DEF Reach, clientVars, ClientTypeOK, linkVars, LinkTypeOK, serverVars, ServerTypeOK, history
<1>2. LoopTypeOK'
  BY SMTT(10) DEF Reach, LoopTypeOK, Linked
<1>3. Linked'
  BY SMTT(10) DEF Reach, Linked, Broken, Conns, loopVars, linkVars, LoopTypeOK, LinkTypeOK
<1>4. Handed'
  BY SMTT(10) DEF Reach, Handed, Linked, Broken, Conns, clientVars, loopVars, linkVars, ClientTypeOK, LoopTypeOK, LinkTypeOK
<1> QED
  BY <1>1, <1>2, <1>3, <1>4

\* A batch goes from the channel of a connection that is up to its wire.
LEMMA TransmitLinks ==
  ASSUME LinkInv, NEW c0 \in Conns, Transmit(c0)
  PROVE  LinkInv'
<1> USE BoundAssumption DEF LinkInv, TypeOK
<1>1. /\ ClientTypeOK' /\ LoopTypeOK' /\ ServerTypeOK'
      /\ faults' \in 0..MaxFaults /\ lost' \subseteq 1..MaxBatches /\ overlap' \in BOOLEAN
  BY SMTT(10) DEF Transmit, clientVars, ClientTypeOK, loopVars, LoopTypeOK, serverVars, ServerTypeOK, history
<1>2. LinkTypeOK'
  BY SMTT(10) DEF Transmit, LinkTypeOK, Linked, Broken, Numbers
<1>3. Linked'
  <2>1. link[c0] = "up" /\ UNCHANGED <<link, conn, lpc, faults>>
    BY DEF Transmit, loopVars
  <2>2. \A d \in Conns : d # c0 => wire'[d] = wire[d]
    BY DEF Transmit, LinkTypeOK
  <2> QED
    BY <2>1, <2>2 DEF Linked, Broken
<1>4. Handed'
  <2>1. chan[c0] # <<>> /\ c0 \in Conns /\ UNCHANGED <<cpc, offered, sender, conn, lpc, link>>
    BY DEF Transmit, loopVars, clientVars
  <2>2. \A d \in Conns : d # c0 => wire'[d] = wire[d] /\ chan'[d] = chan[d]
    BY DEF Transmit, LinkTypeOK
  <2> QED
    BY <2>1, <2>2 DEF Handed
<1> QED
  BY <1>1, <1>2, <1>3, <1>4

\* The connection that is up, the last one, breaks for one more failure.
LEMMA BreakLinks ==
  ASSUME LinkInv, NEW c0 \in Conns, Break(c0)
  PROVE  LinkInv'
<1> USE BoundAssumption DEF LinkInv, TypeOK
<1>1. ClientTypeOK' /\ LoopTypeOK' /\ ServerTypeOK'
  BY SMTT(10) DEF Break, clientVars, ClientTypeOK, loopVars, LoopTypeOK, serverVars, ServerTypeOK
<1>2. LinkTypeOK'
  BY SMTT(10) DEF Break, LinkTypeOK, Linked, Broken, Numbers
<1>3. faults' \in 0..MaxFaults /\ lost' \subseteq 1..MaxBatches /\ overlap' \in BOOLEAN
  <2>1. UNCHANGED <<lost, overlap>> /\ faults' = faults + 1 /\ faults < MaxFaults
    BY DEF Break, history
  <2> QED
    BY <2>1
<1>4. Linked'
  <2>1. link[c0] = "up" /\ UNCHANGED <<conn, wire, lpc>> /\ faults' = faults + 1
    BY DEF Break, loopVars
  <2>2. \A d \in Conns : link'[d] = IF d = c0 THEN "cut" ELSE link[d]
    BY DEF Break, LinkTypeOK
  <2>3. ASSUME NEW c \in Conns
        PROVE  /\ link'[c] = "none" <=> c > conn'
               /\ c < conn' => link'[c] \in {"cut", "gone"}
               /\ link'[c] \in {"none", "made"} => wire'[c] = <<>>
    BY <2>1, <2>2 DEF Linked, Broken
  <2>4. conn <= faults + 1 /\ conn \in Nat /\ faults \in Nat
    BY DEF Linked, LoopTypeOK
  <2>5. /\ lpc' \in {"offer", "call"} => link'[conn'] = "made"
        /\ lpc' = "read" => link'[conn'] \in {"up", "cut", "gone"}
        /\ lpc' \in {"lock", "get"} /\ conn' > 0 => link'[conn'] \in {"cut", "gone"}
    <3>1. conn > 0 => conn \in Conns
      BY DEF LoopTypeOK, Conns
    <3> QED
      BY <2>1, <2>2, <2>4, <3>1 DEF Linked, Broken, LoopTypeOK, Conns
  <2> QED
    BY <2>1, <2>3, <2>4, <2>5 DEF Linked, Broken
<1>5. Handed'
  BY SMTT(10) DEF Break, Handed, Linked, Broken, Conns, clientVars, loopVars, linkVars, ClientTypeOK, LoopTypeOK, LinkTypeOK
<1> QED
  BY <1>1, <1>2, <1>3, <1>4, <1>5

\* A broken connection stays broken, and its channel is emptied.
LEMMA DropRequestLinks ==
  ASSUME LinkInv, NEW c0 \in Conns, DropRequest(c0)
  PROVE  LinkInv'
<1> USE BoundAssumption DEF LinkInv, TypeOK
<1>1. ClientTypeOK' /\ LoopTypeOK' /\ ServerTypeOK'
  BY SMTT(10) DEF DropRequest, clientVars, ClientTypeOK, loopVars, LoopTypeOK, serverVars, ServerTypeOK
<1>2. LinkTypeOK'
  <2>1. link' = [link EXCEPT ![c0] = "gone"] /\ chan' = [chan EXCEPT ![c0] = <<>>] /\ wire' = wire
    BY DEF DropRequest
  <2>2. PICK s \in Seq(1..MaxBatches) : s = <<>> /\ Len(s) = 0
    BY MembersEmpty
  <2>3. chan' = [chan EXCEPT ![c0] = s]
    BY <2>1, <2>2
  <2>4. c0 \in Conns
    BY DEF DropRequest, LoopTypeOK
  <2>5. chan' \in [Conns -> Seq(1..MaxBatches)] /\ \A d \in Conns : chan'[d] \in {s, chan[d]}
    BY <2>2, <2>3, <2>4 DEF LinkTypeOK
  <2>6. \A d \in Conns : Len(chan'[d]) <= 1
    BY <2>2, <2>5 DEF LinkTypeOK
  <2> QED
    BY <2>1, <2>5, <2>6 DEF LinkTypeOK
<1>3. faults' \in 0..MaxFaults /\ lost' \subseteq 1..MaxBatches /\ overlap' \in BOOLEAN
  <2>1. c0 \in Conns /\ chan[c0] \in Seq(1..MaxBatches)
    BY DEF DropRequest, LoopTypeOK, LinkTypeOK
  <2>2. Numbers(chan[c0]) \subseteq 1..MaxBatches
    BY <2>1, Members DEF Numbers
  <2>3. /\ lost' = lost \cup Numbers(chan[c0])
        /\ (faults' = faults \/ (faults' = faults + 1 /\ faults < MaxFaults))
    BY DEF DropRequest
  <2>4. overlap' \in BOOLEAN
    BY DEF DropRequest
  <2>5. faults' \in 0..MaxFaults
    BY <2>3
  <2> QED
    BY <2>2, <2>3, <2>4, <2>5
<1>4. Linked'
  BY SMTT(10) DEF DropRequest, Linked, Broken, Conns, loopVars, linkVars, LoopTypeOK, LinkTypeOK
<1>5. Handed'
  <2>1. \A d \in Conns : chan'[d] = IF d = c0 THEN <<>> ELSE chan[d]
    BY DEF DropRequest, LinkTypeOK
  <2>2. \A d \in Conns : link[d] = "gone" => link'[d] = "gone"
    BY DEF DropRequest, LinkTypeOK
  <2>3. cpc = "swap" => sender \in Conns
    BY DEF ClientTypeOK
  <2>4. UNCHANGED <<cpc, offered, sender, conn, wire>> /\ (lpc' = "offer" <=> lpc = "offer")
    BY DEF DropRequest, clientVars, loopVars
  <2> QED
    BY <2>1, <2>2, <2>3, <2>4 DEF Handed
<1> QED
  BY <1>1, <1>2, <1>3, <1>4, <1>5

\* A broken connection stays broken, and its wire is emptied.
LEMMA DropStreamLinks ==
  ASSUME LinkInv, NEW c0 \in Conns, DropStream(c0)
  PROVE  LinkInv'
<1> USE BoundAssumption DEF LinkInv, TypeOK
<1>1. ClientTypeOK' /\ LoopTypeOK' /\ ServerTypeOK'
  BY SMTT(10) DEF DropStream, clientVars, ClientTypeOK, loopVars, LoopTypeOK, serverVars, ServerTypeOK
<1>2. LinkTypeOK'
  BY SMTT(10) DEF DropStream, LinkTypeOK, Linked, Broken, Numbers
<1>3. faults' \in 0..MaxFaults /\ lost' \subseteq 1..MaxBatches /\ overlap' \in BOOLEAN
  <2>1. wire[c0] \in Seq(1..MaxBatches)
    BY DEF LinkTypeOK
  <2>2. Numbers(wire[c0]) \subseteq 1..MaxBatches
    BY <2>1, Members DEF Numbers
  <2> QED
    BY <2>2 DEF DropStream
<1>4. Linked'
  <2>1. UNCHANGED <<link, conn, lpc, faults>>
    BY DEF DropStream, loopVars
  <2>2. \A d \in Conns : wire'[d] = IF d = c0 THEN <<>> ELSE wire[d]
    BY DEF DropStream, LinkTypeOK
  <2> QED
    BY <2>1, <2>2 DEF Linked, Broken
<1>5. Handed'
  <2>1. UNCHANGED <<cpc, offered, sender, conn, lpc, link, chan>>
    BY DEF DropStream, loopVars, clientVars
  <2>2. \A d \in Conns : wire'[d] = IF d = c0 THEN <<>> ELSE wire[d]
    BY DEF DropStream, LinkTypeOK
  <2> QED
    BY <2>1, <2>2 DEF Handed
<1> QED
  BY <1>1, <1>2, <1>3, <1>4, <1>5

\* A batch leaves the wire: no connection changes.
LEMMA ReadMessageLinks ==
  ASSUME LinkInv, NEW c0 \in Conns, ReadMessage(c0)
  PROVE  LinkInv'
<1> USE BoundAssumption DEF LinkInv, TypeOK
<1>1. ClientTypeOK' /\ LoopTypeOK'
  BY SMTT(10) DEF ReadMessage, clientVars, ClientTypeOK, loopVars, LoopTypeOK
<1>2. LinkTypeOK'
  BY SMTT(10) DEF ReadMessage, LinkTypeOK, Linked, Broken, Numbers
<1>3. ServerTypeOK'
  BY SMTT(10) DEF ReadMessage, ServerTypeOK, LinkTypeOK
<1>4. faults' \in 0..MaxFaults /\ lost' \subseteq 1..MaxBatches /\ overlap' \in BOOLEAN
  BY SMTT(10) DEF ReadMessage
<1>5. Linked'
  <2>1. wire[c0] # <<>> /\ UNCHANGED <<link, conn, lpc, faults>>
    BY DEF ReadMessage, loopVars
  <2>2. \A d \in Conns : d # c0 => wire'[d] = wire[d]
    BY DEF ReadMessage, LinkTypeOK
  <2> QED
    BY <2>1, <2>2 DEF Linked, Broken
<1>6. Handed'
  <2>1. wire[c0] # <<>> /\ UNCHANGED <<cpc, offered, sender, conn, lpc, link, chan>>
    BY DEF ReadMessage, loopVars, clientVars
  <2>2. \A d \in Conns : d # c0 => wire'[d] = wire[d]
    BY DEF ReadMessage, LinkTypeOK
  <2> QED
    BY <2>1, <2>2 DEF Handed
<1> QED
  BY <1>1, <1>2, <1>3, <1>4, <1>5, <1>6

\* A metric is queued: no connection changes.
LEMMA QueueMetricLinks ==
  ASSUME LinkInv, NEW c0 \in Conns, QueueMetric(c0)
  PROVE  LinkInv'
<1> USE BoundAssumption DEF LinkInv, TypeOK
<1>1. /\ ClientTypeOK' /\ LoopTypeOK' /\ LinkTypeOK'
      /\ faults' \in 0..MaxFaults /\ lost' \subseteq 1..MaxBatches /\ overlap' \in BOOLEAN
  BY SMTT(10) DEF QueueMetric, clientVars, ClientTypeOK, loopVars, LoopTypeOK, linkVars, LinkTypeOK, history
<1>2. ServerTypeOK'
  BY SMTT(10) DEF QueueMetric, ServerTypeOK, LinkTypeOK
<1>3. Linked'
  BY SMTT(10) DEF QueueMetric, Linked, Broken, Conns, loopVars, linkVars, LoopTypeOK, LinkTypeOK
<1>4. Handed'
  BY SMTT(10) DEF QueueMetric, Handed, Linked, Broken, Conns, clientVars, loopVars, linkVars, ClientTypeOK, LoopTypeOK, LinkTypeOK
<1> QED
  BY <1>1, <1>2, <1>3, <1>4

\* An answer is given: no connection changes.
LEMMA AnswerLinks ==
  ASSUME LinkInv, NEW c0 \in Conns, Answer(c0)
  PROVE  LinkInv'
<1> USE BoundAssumption DEF LinkInv, TypeOK
<1>1. /\ ClientTypeOK' /\ LoopTypeOK' /\ LinkTypeOK'
      /\ faults' \in 0..MaxFaults /\ lost' \subseteq 1..MaxBatches /\ overlap' \in BOOLEAN
  BY SMTT(10) DEF Answer, clientVars, ClientTypeOK, loopVars, LoopTypeOK, linkVars, LinkTypeOK, history
<1>2. ServerTypeOK'
  <2>1. answers' = answers \/ answers' = [answers EXCEPT ![c0] = 1]
    BY DEF Answer
  <2>2. task' = [task EXCEPT ![c0] = NoTask] /\ UNCHANGED <<queue, store>>
    BY DEF Answer
  <2>3. answers' \in [Conns -> 0..1]
    BY <2>1 DEF ServerTypeOK
  <2> QED
    BY <2>2, <2>3 DEF ServerTypeOK
<1>3. Linked'
  BY SMTT(10) DEF Answer, Linked, Broken, Conns, loopVars, linkVars, LoopTypeOK, LinkTypeOK
<1>4. Handed'
  BY SMTT(10) DEF Answer, Handed, Linked, Broken, Conns, clientVars, loopVars, linkVars, ClientTypeOK, LoopTypeOK, LinkTypeOK
<1> QED
  BY <1>1, <1>2, <1>3, <1>4

\* A metric is stored: no connection changes.
LEMMA StoreMetricLinks ==
  ASSUME LinkInv, StoreMetric
  PROVE  LinkInv'
<1> USE BoundAssumption DEF LinkInv, TypeOK
<1>1. /\ ClientTypeOK' /\ LoopTypeOK' /\ LinkTypeOK'
      /\ faults' \in 0..MaxFaults /\ lost' \subseteq 1..MaxBatches /\ overlap' \in BOOLEAN
  BY SMTT(10) DEF StoreMetric, clientVars, ClientTypeOK, loopVars, LoopTypeOK, linkVars, LinkTypeOK, history
<1>2. ServerTypeOK'
  BY SMTT(10) DEF StoreMetric, ServerTypeOK, LinkTypeOK
<1>3. Linked'
  BY SMTT(10) DEF StoreMetric, Linked, Broken, Conns, loopVars, linkVars, LoopTypeOK, LinkTypeOK
<1>4. Handed'
  BY SMTT(10) DEF StoreMetric, Handed, Linked, Broken, Conns, clientVars, loopVars, linkVars, ClientTypeOK, LoopTypeOK, LinkTypeOK
<1> QED
  BY <1>1, <1>2, <1>3, <1>4

\* The connection that was up is broken, for one more failure.
LEMMA ServerRestartLinks ==
  ASSUME LinkInv, ServerRestart
  PROVE  LinkInv'
<1> USE BoundAssumption DEF LinkInv, TypeOK
<1>1. ClientTypeOK' /\ LoopTypeOK'
  BY SMTT(10) DEF ServerRestart, clientVars, ClientTypeOK, loopVars, LoopTypeOK
<1>2. LinkTypeOK'
  BY SMTT(10) DEF ServerRestart, LinkTypeOK, Linked, Broken, Numbers
<1>3. ServerTypeOK'
  BY SMTT(10) DEF ServerRestart, ServerTypeOK, LinkTypeOK
<1>4. faults' \in 0..MaxFaults /\ lost' \subseteq 1..MaxBatches /\ overlap' \in BOOLEAN
  <2>1. ASSUME NEW c \in Conns PROVE Numbers(wire[c]) \subseteq 1..MaxBatches
    <3>1. wire[c] \in Seq(1..MaxBatches)
      BY DEF LinkTypeOK
    <3> QED
      BY <3>1, Members DEF Numbers
  <2>2. UNION {Numbers(wire[c]) : c \in Conns} \subseteq 1..MaxBatches
    BY <2>1
  <2>3. /\ lost' = lost \cup UNION {Numbers(wire[c]) : c \in Conns}
        /\ faults' = faults + 1 /\ faults < MaxFaults
    BY DEF ServerRestart
  <2>4. overlap' \in BOOLEAN
    BY DEF ServerRestart
  <2>5. faults' \in 0..MaxFaults
    BY <2>3
  <2> QED
    BY <2>2, <2>3, <2>4, <2>5
<1>5. Linked'
  BY SMTT(10) DEF ServerRestart, Linked, Broken, Conns, loopVars, linkVars, LoopTypeOK, LinkTypeOK
<1>6. Handed'
  BY SMTT(10) DEF ServerRestart, Handed, Linked, Broken, Conns, clientVars, loopVars, linkVars, ClientTypeOK, LoopTypeOK, LinkTypeOK
<1> QED
  BY <1>1, <1>2, <1>3, <1>4, <1>5, <1>6

----------------------------------------------------------------------------
(* The order of batches. *)

\* What connection c has of the batches, and what the client has of those not yet sent.
Sent(c) == Numbers(wire[c]) \cup Numbers(chan[c])
Held == Numbers(meas) \cup ({hand} \ {0})

\* Batches are on their way in the order in which they were made.
Ordered ==
  /\ Increasing(meas) /\ \A y \in Numbers(meas) : hand < y /\ y <= made
  /\ hand <= made
  /\ \A c \in Conns :
       /\ Increasing(wire[c])
       /\ \A x \in Numbers(wire[c]), y \in Numbers(chan[c]) : x < y
       /\ \A x \in Sent(c) : x <= made
       /\ \A x \in Sent(c), y \in Held : x < y
  /\ \A c, d \in Conns : c < d => \A x \in Sent(c), y \in Sent(d) : x < y

----------------------------------------------------------------------------
(* Every metric is in one place. *)

\* The batches of which the server has read nothing.
Upstream == Held \cup UNION {Sent(c) : c \in Conns}

\* A batch that a task works on, and a metric in the queue, are nowhere else.
OnePlace ==
  /\ \A c \in Conns : task[c] # NoTask =>
       /\ task[c][1] \notin Upstream /\ task[c][1] <= made
       /\ \A d \in Conns : task[d] # NoTask /\ d # c => task[d][1] # task[c][1]
       /\ \A q \in ToSet(queue) : q[1] = task[c][1] => q[2] < task[c][2]
  /\ \A q \in ToSet(queue) : q[1] \notin Upstream /\ q[1] <= made
  /\ Distinct(queue)

\* A sequence of batches is a sequence of numbers.
LEMMA NatSeq ==
  ASSUME NEW s \in Seq(1..MaxBatches)
  PROVE  s \in Seq(Nat) /\ Numbers(s) \subseteq 1..MaxBatches
<1>1. MaxBatches \in Nat
  BY BoundAssumption
<1>2. Numbers(s) \subseteq 1..MaxBatches
  BY Members DEF Numbers
<1>3. s \in Seq(Nat)
  BY <1>1, 1..MaxBatches \subseteq Nat
<1> QED
  BY <1>2, <1>3

\* The types of what is on its way to the server.
LEMMA Typed ==
  ASSUME LinkInv
  PROVE  /\ made \in Nat /\ hand \in Nat /\ sender \in Nat /\ conn \in Nat
         /\ meas \in Seq(1..MaxBatches) /\ meas \in Seq(Nat) /\ Numbers(meas) \subseteq Nat
         /\ \A c \in Conns : /\ c \in Nat
                             /\ wire[c] \in Seq(1..MaxBatches) /\ wire[c] \in Seq(Nat)
                             /\ chan[c] \in Seq(1..MaxBatches) /\ chan[c] \in Seq(Nat)
                             /\ Numbers(wire[c]) \subseteq Nat /\ Numbers(chan[c]) \subseteq Nat
<1> USE BoundAssumption DEF LinkInv, TypeOK
<1>1. made \in Nat /\ hand \in Nat /\ sender \in Nat /\ conn \in Nat
  BY DEF ClientTypeOK, LoopTypeOK, Conns
<1>2. meas \in Seq(1..MaxBatches) /\ meas \in Seq(Nat) /\ Numbers(meas) \subseteq Nat
  BY NatSeq DEF ClientTypeOK
<1>3. ASSUME NEW c \in Conns
      PROVE  /\ c \in Nat
             /\ wire[c] \in Seq(1..MaxBatches) /\ wire[c] \in Seq(Nat)
             /\ chan[c] \in Seq(1..MaxBatches) /\ chan[c] \in Seq(Nat)
             /\ Numbers(wire[c]) \subseteq Nat /\ Numbers(chan[c]) \subseteq Nat
  <2>1. wire[c] \in Seq(1..MaxBatches) /\ chan[c] \in Seq(1..MaxBatches)
    BY DEF LinkTypeOK
  <2>2. c \in Nat
    BY DEF Conns
  <2> QED
    BY <2>1, <2>2, NatSeq
<1> QED
  BY <1>1, <1>2, <1>3

\* What is only lost or read leaves the others in their order.
LEMMA OrderedLess ==
  ASSUME Ordered, UNCHANGED <<made, meas, hand>>,
         \A c \in Conns : /\ Increasing(wire'[c])
                          /\ Numbers(wire'[c]) \subseteq Numbers(wire[c])
                          /\ Numbers(chan'[c]) \subseteq Numbers(chan[c])
  PROVE  Ordered' /\ Upstream' \subseteq Upstream
<1>1. \A c \in Conns : Sent(c)' \subseteq Sent(c)
  BY DEF Sent
<1>2. Held' = Held
  BY DEF Held
<1>3. /\ Increasing(meas') /\ \A y \in Numbers(meas') : hand' < y /\ y <= made'
      /\ hand' <= made'
  BY DEF Ordered
<1>4. ASSUME NEW c \in Conns
      PROVE  /\ Increasing(wire'[c])
             /\ \A x \in Numbers(wire'[c]), y \in Numbers(chan'[c]) : x < y
             /\ \A x \in Sent(c)' : x <= made'
             /\ \A x \in Sent(c)', y \in Held' : x < y
  BY <1>1, <1>2 DEF Ordered
<1>5. ASSUME NEW c \in Conns, NEW d \in Conns, c < d
      PROVE  \A x \in Sent(c)', y \in Sent(d)' : x < y
  BY <1>1, <1>5 DEF Ordered
<1>6. Upstream' \subseteq Upstream
  BY <1>1, <1>2 DEF Upstream
<1> QED
  BY <1>3, <1>4, <1>5, <1>6 DEF Ordered

\* So does what changes none of them.
LEMMA OrderedSame ==
  ASSUME Ordered, UNCHANGED <<made, meas, hand, wire, chan>>
  PROVE  Ordered' /\ Upstream' \subseteq Upstream
<1>1. \A c \in Conns : Increasing(wire'[c])
  BY DEF Ordered
<1> QED
  BY <1>1, OrderedLess

\* A new batch is the last one.
LEMMA MakeBatchOrdered ==
  ASSUME LinkInv, Ordered, MakeBatch
  PROVE  Ordered' /\ Upstream' = Upstream \cup {made + 1}
<1> DEFINE n == made + 1
<1>1. made' = n /\ meas' = Append(meas, n) /\ UNCHANGED <<hand, wire, chan>>
  BY DEF MakeBatch, linkVars
<1>2. /\ \A y \in Numbers(meas) : y \in Nat /\ hand < y /\ y <= made
      /\ hand <= made /\ hand \in Nat /\ made \in Nat /\ meas \in Seq(Nat) /\ Increasing(meas)
  BY Typed DEF Ordered
<1>3. \A y \in Numbers(meas) : y < n
  BY <1>2
<1>4. Increasing(meas') /\ Numbers(meas') = Numbers(meas) \cup {n}
  <2> n \in Nat
    BY <1>2
  <2> HIDE DEF n
  <2> QED
    BY <1>1, <1>2, <1>3, MembersAppend, IncreasingAppend DEF Numbers
<1>5. \A y \in Numbers(meas') : hand' < y /\ y <= made'
  BY <1>1, <1>2, <1>4
<1>6. \A c \in Conns : Sent(c)' = Sent(c) /\ \A x \in Sent(c) : x \in Nat /\ x <= made
  BY <1>1, Typed DEF Sent, Ordered
<1>7. Held' = Held \cup {n}
  BY <1>1, <1>4 DEF Held
<1>8. ASSUME NEW c \in Conns
      PROVE  /\ Increasing(wire'[c])
             /\ \A x \in Numbers(wire'[c]), y \in Numbers(chan'[c]) : x < y
             /\ \A x \in Sent(c)' : x <= made'
             /\ \A x \in Sent(c)', y \in Held' : x < y
  <2>1. \A x \in Sent(c)' : x <= made' /\ x < n
    BY <1>1, <1>2, <1>6
  <2>2. \A x \in Sent(c), y \in Held : x < y
    BY DEF Ordered
  <2>3. \A x \in Sent(c)', y \in Held' : x < y
    BY <1>6, <1>7, <2>1, <2>2
  <2> QED
    BY <1>1, <2>1, <2>3 DEF Ordered
<1>9. ASSUME NEW c \in Conns, NEW d \in Conns, c < d
      PROVE  \A x \in Sent(c)', y \in Sent(d)' : x < y
  BY <1>6, <1>9 DEF Ordered
<1>10. Upstream' = Upstream \cup {made + 1}
  BY <1>6, <1>7 DEF Upstream
<1> QED
  BY <1>1, <1>2, <1>4, <1>5, <1>8, <1>9, <1>10 DEF Ordered

\* The composer takes the first of the batches.
LEMMA TakeBatchOrdered ==
  ASSUME LinkInv, Ordered, TakeBatch
  PROVE  /\ Ordered' /\ Held' = Held /\ Upstream' = Upstream
<1>1. /\ meas # <<>> /\ hand' = Head(meas) /\ meas' = Tail(meas) /\ hand = 0
      /\ UNCHANGED <<made, wire, chan>>
  BY DEF TakeBatch, linkVars, LinkInv, TypeOK, ClientTypeOK
<1>2. /\ \A y \in Numbers(meas) : y \in Nat /\ hand < y /\ y <= made
      /\ made \in Nat /\ meas \in Seq(Nat) /\ Increasing(meas)
  BY Typed DEF Ordered
<1>3. /\ Numbers(meas) = {hand'} \cup Numbers(meas') /\ Increasing(meas')
      /\ \A y \in Numbers(meas') : hand' < y
  BY <1>1, <1>2, MembersHead, IncreasingTail DEF Numbers
<1>4. hand' > 0 /\ hand' \in Nat /\ hand' <= made'
  BY <1>1, <1>2, <1>3
<1>5. Held' = Held
  BY <1>1, <1>3, <1>4 DEF Held
<1>6. \A c \in Conns : Sent(c)' = Sent(c)
  BY <1>1 DEF Sent
<1>7. \A y \in Numbers(meas') : hand' < y /\ y <= made'
  BY <1>1, <1>2, <1>3
<1>8. Upstream' = Upstream
  BY <1>5, <1>6 DEF Upstream
<1> QED
  BY <1>1, <1>3, <1>4, <1>5, <1>6, <1>7, <1>8 DEF Ordered

\* The batch sent comes after all that the connections have; those after the
\* composer's have nothing.
LEMMA SendBatchOrdered ==
  ASSUME LinkInv, Ordered, SendBatch
  PROVE  /\ Ordered' /\ Upstream' \subseteq Upstream
<1>1. sender \in Conns /\ hand \in Nat /\ hand # 0 /\ hand' = 0 /\ UNCHANGED <<made, meas, sender, wire>>
  BY BoundAssumption DEF SendBatch, LinkInv, TypeOK, ClientTypeOK
<1>2. /\ \A y \in Numbers(meas) : y \in Nat /\ hand < y /\ y <= made
      /\ made \in Nat /\ Increasing(meas) /\ hand <= made
  BY Typed DEF Ordered
<1>3. Held = Held' \cup {hand} /\ Held' = Numbers(meas)
  BY <1>1 DEF Held
<1>4. \A y \in Numbers(meas') : hand' < y /\ y <= made'
  BY <1>1, <1>2
<1>5. CASE chan' = chan
  <2>1. \A c \in Conns : Sent(c)' = Sent(c)
    BY <1>1, <1>5 DEF Sent
  <2>2. Ordered'
    BY <1>1, <1>2, <1>3, <1>4, <1>5, <2>1 DEF Ordered
  <2> QED
    BY <1>3, <2>1, <2>2 DEF Upstream
<1>6. CASE chan[sender] = <<>> /\ chan' = [chan EXCEPT ![sender] = <<hand>>]
  <2>1. PICK s : s = <<hand>>
    OBVIOUS
  <2>2. Numbers(s) = {hand}
    BY <1>1, <2>1, MembersOne DEF Numbers
  <2>3. /\ Numbers(chan[sender]) = {} /\ Numbers(chan'[sender]) = {hand}
        /\ \A c \in Conns \ {sender} : chan'[c] = chan[c]
    BY <1>1, <1>6, <2>1, <2>2, MembersEmpty DEF Numbers, LinkInv, TypeOK, LinkTypeOK
  <2>4. \A c \in Conns : Sent(c)' = IF c = sender THEN Sent(c) \cup {hand} ELSE Sent(c)
    BY <1>1, <2>3 DEF Sent
  <2>5. \A c \in Conns : c > sender => Sent(c) = {}
    BY MembersEmpty DEF Sent, LinkInv, Handed, Numbers
  <2>6. \A c \in Conns : \A x \in Sent(c) : x \in Nat /\ x < hand
    BY <1>3, Typed DEF Sent, Ordered
  <2>7. ASSUME NEW c \in Conns
        PROVE  /\ Increasing(wire'[c])
               /\ \A x \in Numbers(wire'[c]), y \in Numbers(chan'[c]) : x < y
               /\ \A x \in Sent(c)' : x <= made'
               /\ \A x \in Sent(c)', y \in Held' : x < y
    <3>1. /\ Increasing(wire[c]) /\ \A x \in Numbers(wire[c]), y \in Numbers(chan[c]) : x < y
          /\ \A x \in Sent(c) : x <= made /\ \A y \in Held : x < y
      BY DEF Ordered
    <3>2. CASE c = sender
      <4>1. \A x \in Numbers(wire'[c]) : x < hand
        BY <1>1, <2>6 DEF Sent
      <4>2. \A x \in Sent(c)' : x <= made'
        BY <1>1, <1>2, <2>4, <3>1, <3>2
      <4>3. \A x \in Sent(c)', y \in Held' : x < y
        BY <1>2, <1>3, <2>4, <3>1, <3>2
      <4> QED
        BY <1>1, <2>3, <3>1, <3>2, <4>1, <4>2, <4>3
    <3>3. CASE c # sender
      BY <1>1, <1>3, <2>3, <2>4, <3>1, <3>3
    <3> QED
      BY <3>2, <3>3
  <2>8. ASSUME NEW c \in Conns, NEW d \in Conns, c < d
        PROVE  \A x \in Sent(c)', y \in Sent(d)' : x < y
    <3>1. \A x \in Sent(c), y \in Sent(d) : x < y
      BY <2>8 DEF Ordered
    <3>2. CASE d = sender
      <4>1. Sent(c)' = Sent(c) /\ Sent(d)' = Sent(d) \cup {hand}
        BY <2>4, <2>8, <3>2, Typed
      <4> QED
        BY <2>6, <3>1, <4>1
    <3>3. CASE c = sender
      <4>1. Sent(d)' = {}
        <5>1. d > sender /\ d # sender
          BY <2>8, <3>3, Typed
        <5> QED
          BY <2>4, <2>5, <5>1
      <4> QED
        BY <4>1
    <3>4. CASE c # sender /\ d # sender
      BY <2>4, <3>1, <3>4
    <3> QED
      BY <3>2, <3>3, <3>4
  <2>9. Ordered'
    BY <1>1, <1>2, <1>4, <2>7, <2>8 DEF Ordered
  <2> QED
    BY <1>1, <1>3, <2>4, <2>9 DEF Upstream
<1> QED
  BY <1>5, <1>6 DEF SendBatch

\* A batch goes from the channel to the wire.
LEMMA TransmitOrdered ==
  ASSUME LinkInv, Ordered, NEW c \in Conns, Transmit(c)
  PROVE  /\ Ordered' /\ \A d \in Conns : Sent(d)' = Sent(d)
         /\ Upstream' = Upstream
<1>1. /\ chan[c] # <<>> /\ UNCHANGED <<made, meas, hand>>
      /\ wire'[c] = Append(wire[c], Head(chan[c])) /\ chan'[c] = Tail(chan[c])
      /\ \A d \in Conns \ {c} : wire'[d] = wire[d] /\ chan'[d] = chan[d]
  BY DEF Transmit, clientVars, LinkInv, TypeOK, LinkTypeOK
<1>2. Len(chan[c]) <= 1
  BY DEF LinkInv, TypeOK, LinkTypeOK
<1>3. PICK h \in Nat : h = Head(chan[c])
  BY <1>1, Typed, MembersHead
<1>4. Numbers(chan[c]) = {h} /\ Numbers(chan'[c]) = {}
  BY <1>1, <1>2, <1>3, Typed, MembersShort, MembersEmpty DEF Numbers
<1>5. \A x \in Numbers(wire[c]) : x \in Nat /\ x < h
  BY <1>4, Typed DEF Ordered
<1>6. Increasing(wire'[c]) /\ Numbers(wire'[c]) = Numbers(wire[c]) \cup {h}
  <2>1. Increasing(wire[c]) /\ wire[c] \in Seq(Nat)
    BY Typed DEF Ordered
  <2> QED
    BY <1>1, <1>3, <1>5, <2>1, MembersAppend, IncreasingAppend DEF Numbers
<1>7. \A d \in Conns : Sent(d)' = Sent(d)
  BY <1>1, <1>4, <1>6 DEF Sent
<1>8. Held' = Held
  BY <1>1 DEF Held
<1>9. ASSUME NEW d \in Conns
      PROVE  /\ Increasing(wire'[d])
             /\ \A x \in Numbers(wire'[d]), y \in Numbers(chan'[d]) : x < y
             /\ \A x \in Sent(d)' : x <= made'
             /\ \A x \in Sent(d)', y \in Held' : x < y
  <2>1. /\ Increasing(wire'[d])
        /\ \A x \in Numbers(wire'[d]), y \in Numbers(chan'[d]) : x < y
    BY <1>1, <1>4, <1>6 DEF Ordered
  <2> QED
    BY <1>1, <1>7, <1>8, <2>1 DEF Ordered
<1>10. \A d, e \in Conns : d < e => \A x \in Sent(d)', y \in Sent(e)' : x < y
  BY <1>7 DEF Ordered
<1>11. /\ Increasing(meas') /\ \A y \in Numbers(meas') : hand' < y /\ y <= made'
       /\ hand' <= made'
  BY <1>1 DEF Ordered
<1>12. Upstream' = Upstream
  BY <1>7, <1>8 DEF Upstream
<1> QED
  BY <1>7, <1>9, <1>10, <1>11, <1>12 DEF Ordered

\* The server's task reads the first batch of its connection.
LEMMA ReadMessageOrdered ==
  ASSUME LinkInv, Ordered, NEW c \in Conns, ReadMessage(c)
  PROVE  /\ Ordered' /\ Upstream' \subseteq Upstream
         /\ task'[c][1] \in Upstream \ Upstream'
         /\ \A y \in Sent(c)' \cup Held : task'[c][1] < y
<1>1. /\ wire[c] # <<>> /\ UNCHANGED <<made, meas, hand, chan>>
      /\ wire'[c] = Tail(wire[c]) /\ \A d \in Conns \ {c} : wire'[d] = wire[d]
      /\ task'[c] = <<Head(wire[c]), 1>>
  BY DEF ReadMessage, clientVars, LinkInv, TypeOK, LinkTypeOK, ServerTypeOK
<1>2. PICK h \in Nat : h = Head(wire[c])
  BY <1>1, Typed, MembersHead
<1>3. /\ Numbers(wire[c]) = {h} \cup Numbers(wire'[c]) /\ Increasing(wire'[c])
      /\ \A y \in Numbers(wire'[c]) : h < y
  <2>1. Increasing(wire[c]) /\ wire[c] \in Seq(Nat)
    BY Typed DEF Ordered
  <2> QED
    BY <1>1, <1>2, <2>1, MembersHead, IncreasingTail DEF Numbers
<1>4. Ordered'
  <2>1. ASSUME NEW d \in Conns
        PROVE  /\ Increasing(wire'[d])
               /\ Numbers(wire'[d]) \subseteq Numbers(wire[d])
               /\ Numbers(chan'[d]) \subseteq Numbers(chan[d])
    BY <1>1, <1>3 DEF Ordered
  <2> QED
    BY <1>1, <2>1, OrderedLess
<1>5. /\ Held' = Held /\ h \in Sent(c)
      /\ \A d \in Conns : Sent(d)' \subseteq Sent(d)
  BY <1>1, <1>3 DEF Held, Sent
<1>6. \A y \in Sent(c)' \cup Held : y \in Nat /\ h < y
  <2>1. \A y \in Numbers(chan'[c]) : h < y
    BY <1>1, <1>3 DEF Ordered
  <2>2. \A y \in Held : h < y
    BY <1>5 DEF Ordered
  <2> QED
    BY <1>1, <1>3, <1>5, <2>1, <2>2, Typed DEF Sent, Held
<1>7. \A d \in Conns \ {c} : h \notin Sent(d)'
  <2> SUFFICES ASSUME NEW d \in Conns \ {c}, h \in Sent(d) PROVE FALSE
    BY <1>5
  <2>1. c \in Nat /\ d \in Nat /\ c # d
    BY Typed
  <2>2. c < d => h < h
    BY <1>5 DEF Ordered
  <2>3. d < c => h < h
    BY <1>5 DEF Ordered
  <2> QED
    BY <2>1, <2>2, <2>3
<1>8. h \in Upstream /\ h \notin Upstream' /\ Upstream' \subseteq Upstream
  <2>1. h \notin Held' /\ h \notin Sent(c)'
    BY <1>5, <1>6
  <2> QED
    BY <1>5, <1>7, <2>1 DEF Upstream
<1>9. task'[c][1] = h
  BY <1>1, <1>2
<1> QED
  BY <1>4, <1>6, <1>8, <1>9

\* A failed call, the end of a request or of a stream only lose batches.
LEMMA LossOrdered ==
  ASSUME LinkInv, Ordered, CallFails \/ (\E c \in Conns : DropRequest(c) \/ DropStream(c))
  PROVE  Ordered' /\ Upstream' \subseteq Upstream
<1>1. UNCHANGED <<made, meas, hand>>
  BY DEF CallFails, DropRequest, DropStream, clientVars
<1>2. CASE \E c \in Conns : wire' = wire /\ chan' = [chan EXCEPT ![c] = <<>>]
  <2>1. PICK c \in Conns : wire' = wire /\ chan' = [chan EXCEPT ![c] = <<>>]
    BY <1>2
  <2>2. \A d \in Conns : chan'[d] = <<>> \/ chan'[d] = chan[d]
    BY <2>1 DEF LinkInv, TypeOK, LinkTypeOK
  <2>3. \A d \in Conns : Numbers(chan'[d]) \subseteq Numbers(chan[d])
    BY <2>2, MembersEmpty DEF Numbers
  <2>4. \A d \in Conns : Increasing(wire'[d]) /\ Numbers(wire'[d]) \subseteq Numbers(wire[d])
    BY <2>1 DEF Ordered
  <2> QED
    BY <1>1, <2>3, <2>4, OrderedLess
<1>3. CASE \E c \in Conns : chan' = chan /\ wire' = [wire EXCEPT ![c] = <<>>]
  <2>1. PICK c \in Conns : chan' = chan /\ wire' = [wire EXCEPT ![c] = <<>>]
    BY <1>3
  <2>2. \A d \in Conns : wire'[d] = <<>> \/ wire'[d] = wire[d]
    BY <2>1 DEF LinkInv, TypeOK, LinkTypeOK
  <2>3. \A d \in Conns : Increasing(wire'[d]) /\ Numbers(wire'[d]) \subseteq Numbers(wire[d])
    BY <2>2, MembersEmpty DEF Numbers, Ordered
  <2>4. \A d \in Conns : Numbers(chan'[d]) \subseteq Numbers(chan[d])
    BY <2>1
  <2> QED
    BY <1>1, <2>3, <2>4, OrderedLess
<1>4. CASE CallFails
  <2>1. conn \in Conns /\ wire' = wire /\ chan' = [chan EXCEPT ![conn] = <<>>]
    BY <1>4 DEF CallFails, LinkInv, TypeOK, LoopTypeOK
  <2> QED
    BY <1>2, <2>1
<1>5. CASE \E c \in Conns : DropRequest(c)
  BY <1>2, <1>5 DEF DropRequest
<1>6. CASE \E c \in Conns : DropStream(c)
  BY <1>3, <1>6 DEF DropStream
<1> QED
  BY <1>4, <1>5, <1>6

\* A restart loses what the connections carry.
LEMMA RestartOrdered ==
  ASSUME LinkInv, Ordered, ServerRestart
  PROVE  Ordered' /\ Upstream' \subseteq Upstream
<1>1. UNCHANGED <<made, meas, hand, chan>> /\ \A c \in Conns : wire'[c] = <<>>
  BY DEF ServerRestart, clientVars
<1>2. \A c \in Conns : Increasing(wire'[c]) /\ Numbers(wire'[c]) \subseteq Numbers(wire[c])
  BY <1>1, MembersEmpty DEF Numbers
<1> QED
  BY <1>1, <1>2, OrderedLess

----------------------------------------------------------------------------
(* Every metric is in one place, step by step. *)

\* The types of what the server has.
LEMMA TypedServer ==
  ASSUME LinkInv
  PROVE  /\ Kinds \in Nat \ {0} /\ queue \in Seq((1..MaxBatches) \X (1..Kinds))
         /\ \A q \in ToSet(queue) : q[1] \in Nat \ {0} /\ q[2] \in 1..Kinds /\ q = <<q[1], q[2]>>
         /\ \A c \in Conns : task[c] # NoTask =>
              /\ task[c][1] \in 1..MaxBatches /\ task[c][1] \in Nat
              /\ task[c][2] \in 1..Kinds + 1 /\ task[c] = <<task[c][1], task[c][2]>>
<1> USE BoundAssumption DEF LinkInv, TypeOK
<1>1. Kinds \in Nat \ {0} /\ queue \in Seq((1..MaxBatches) \X (1..Kinds))
  BY DEF ServerTypeOK
<1>2. ASSUME NEW q \in ToSet(queue)
      PROVE  q[1] \in Nat \ {0} /\ q[2] \in 1..Kinds /\ q = <<q[1], q[2]>>
  <2>1. q \in (1..MaxBatches) \X (1..Kinds)
    BY <1>1, <1>2, Members
  <2> QED
    BY <2>1
<1>3. ASSUME NEW c \in Conns, task[c] # NoTask
      PROVE  /\ task[c][1] \in 1..MaxBatches /\ task[c][1] \in Nat
             /\ task[c][2] \in 1..Kinds + 1 /\ task[c] = <<task[c][1], task[c][2]>>
  <2>1. task[c] \in (1..MaxBatches) \X (1..Kinds + 1)
    BY <1>3 DEF ServerTypeOK
  <2> QED
    BY <2>1
<1> QED
  BY <1>1, <1>2, <1>3

\* What the server has stays in its place while no batch comes back from it.
LEMMA PlaceKept ==
  ASSUME LinkInv, OnePlace, UNCHANGED <<task, queue>>, made' \in Nat, made <= made',
         \A x \in Upstream' : x \in Upstream \/ x = made + 1
  PROVE  OnePlace'
<1>1. made \in Nat
  BY Typed
<1>2. ASSUME NEW c \in Conns, task[c] # NoTask
      PROVE  /\ task[c][1] \notin Upstream' /\ task[c][1] <= made'
             /\ \A d \in Conns : task[d] # NoTask /\ d # c => task[d][1] # task[c][1]
             /\ \A q \in ToSet(queue) : q[1] = task[c][1] => q[2] < task[c][2]
  <2>1. task[c][1] \in Nat
    BY <1>2, TypedServer
  <2>2. task[c][1] \notin Upstream /\ task[c][1] <= made
    BY <1>2 DEF OnePlace
  <2>3. task[c][1] \notin Upstream' /\ task[c][1] <= made'
    BY <1>1, <2>1, <2>2
  <2> QED
    BY <1>2, <2>3 DEF OnePlace
<1>3. ASSUME NEW q \in ToSet(queue) PROVE q[1] \notin Upstream' /\ q[1] <= made'
  <2>1. q[1] \in Nat
    BY <1>3, TypedServer
  <2>2. q[1] \notin Upstream /\ q[1] <= made
    BY <1>3 DEF OnePlace
  <2> QED
    BY <1>1, <2>1, <2>2
<1> QED
  BY <1>2, <1>3 DEF OnePlace

\* Nothing is on its way that was not made.
LEMMA UpstreamMade ==
  ASSUME LinkInv, Ordered
  PROVE  \A x \in Upstream : x \in Nat /\ x <= made
<1>1. \A x \in Held : x \in Nat /\ x <= made
  BY Typed DEF Held, Ordered
<1>2. \A c \in Conns : \A x \in Sent(c) : x \in Nat /\ x <= made
  BY Typed DEF Sent, Ordered
<1> QED
  BY <1>1, <1>2 DEF Upstream

\* The batch that is read leaves the wire for the task.
LEMMA ReadMessagePlace ==
  ASSUME LinkInv, Ordered, OnePlace, NEW c \in Conns, ReadMessage(c)
  PROVE  OnePlace'
<1>1. PICK h : h = task'[c][1]
  OBVIOUS
<1>2. h \in Upstream /\ h \notin Upstream' /\ Upstream' \subseteq Upstream
  BY <1>1, ReadMessageOrdered
<1>3. /\ task'[c] # NoTask /\ task[c] = NoTask /\ UNCHANGED <<made, queue>>
      /\ \A d \in Conns \ {c} : task'[d] = task[d]
  <2>1. wire[c] # <<>> /\ wire[c] \in Seq(1..MaxBatches)
    BY Typed DEF ReadMessage
  <2>2. PICK n \in 1..MaxBatches : n = Head(wire[c])
    BY <2>1, MembersHead
  <2>3. task'[c] = <<n, 1>>
    BY <2>2 DEF ReadMessage, LinkInv, TypeOK, ServerTypeOK
  <2> QED
    BY <2>2, <2>3 DEF ReadMessage, clientVars, NoTask, LinkInv, TypeOK, ServerTypeOK
<1>4. h <= made
  BY <1>2, UpstreamMade
<1>5. ASSUME NEW d \in Conns, task'[d] # NoTask
      PROVE  /\ task'[d][1] \notin Upstream' /\ task'[d][1] <= made'
             /\ \A e \in Conns : task'[e] # NoTask /\ e # d => task'[e][1] # task'[d][1]
             /\ \A q \in ToSet(queue') : q[1] = task'[d][1] => q[2] < task'[d][2]
  <2>1. \A e \in Conns \ {c} : task'[e] # NoTask => task'[e][1] \notin Upstream
    BY <1>3 DEF OnePlace
  <2>2. \A q \in ToSet(queue) : q[1] \notin Upstream
    BY DEF OnePlace
  <2>3. CASE d = c
    BY <1>1, <1>2, <1>3, <1>4, <2>1, <2>2, <2>3
  <2>4. CASE d # c
    BY <1>1, <1>2, <1>3, <1>5, <2>1, <2>4 DEF OnePlace
  <2> QED
    BY <2>3, <2>4
<1>6. \A q \in ToSet(queue') : q[1] \notin Upstream' /\ q[1] <= made'
  BY <1>2, <1>3 DEF OnePlace
<1> QED
  BY <1>3, <1>5, <1>6 DEF OnePlace

\* The task's metric goes to the end of the queue.
LEMMA QueueMetricPlace ==
  ASSUME LinkInv, OnePlace, NEW c \in Conns, QueueMetric(c)
  PROVE  /\ OnePlace'
         /\ ToSet(queue') = ToSet(queue) \cup {task[c]}
<1>1. PICK b \in 1..MaxBatches, k \in 1..Kinds : task[c] = <<b, k>>
  <2>1. task[c] # NoTask /\ task[c][2] <= Kinds
    BY DEF QueueMetric
  <2> QED
    BY <2>1, TypedServer
<1>2. /\ task'[c] = <<b, k + 1>> /\ task[c] # NoTask /\ task'[c] # NoTask
      /\ \A d \in Conns \ {c} : task'[d] = task[d]
  BY <1>1 DEF QueueMetric, LinkInv, TypeOK, ServerTypeOK, NoTask
<1>3. queue' = Append(queue, <<b, k>>) /\ UNCHANGED made /\ Upstream' = Upstream
  BY <1>1 DEF QueueMetric, clientVars, linkVars, Upstream, Held, Sent
<1>4. PICK m \in (1..MaxBatches) \X (1..Kinds) : m = <<b, k>>
  OBVIOUS
<1>5. ToSet(queue') = ToSet(queue) \cup {m}
  BY <1>3, <1>4, TypedServer, MembersAppend
<1>6. /\ b \notin Upstream /\ b <= made
      /\ \A d \in Conns : task[d] # NoTask /\ d # c => task[d][1] # b
      /\ \A q \in ToSet(queue) : q[1] = b => q[2] < k
  BY <1>1, <1>2 DEF OnePlace
<1>7. Distinct(queue')
  <2>1. m \notin ToSet(queue)
    BY <1>4, <1>6
  <2>2. Distinct(queue)
    BY DEF OnePlace
  <2> QED
    BY <1>3, <1>4, <2>1, <2>2, TypedServer, DistinctAppend
<1>8. ASSUME NEW d \in Conns, task'[d] # NoTask
      PROVE  /\ task'[d][1] \notin Upstream' /\ task'[d][1] <= made'
             /\ \A e \in Conns : task'[e] # NoTask /\ e # d => task'[e][1] # task'[d][1]
             /\ \A q \in ToSet(queue') : q[1] = task'[d][1] => q[2] < task'[d][2]
  <2>1. CASE d = c
    <3>1. \A q \in ToSet(queue') : q[1] = b => q[2] < k + 1
      BY <1>4, <1>5, <1>6, TypedServer
    <3>2. task'[d][1] = b /\ task'[d][2] = k + 1
      BY <1>2, <2>1
    <3>3. \A e \in Conns : task'[e] # NoTask /\ e # d => task'[e][1] # b
      BY <1>2, <1>6, <2>1
    <3> QED
      BY <1>3, <1>6, <3>1, <3>2, <3>3
  <2>2. CASE d # c
    <3>1. task'[d] = task[d] /\ task[d] # NoTask /\ task[d][1] # b
      BY <1>2, <1>6, <1>8, <2>2
    <3>2. /\ task[d][1] \notin Upstream /\ task[d][1] <= made
          /\ \A e \in Conns : task[e] # NoTask /\ e # d => task[e][1] # task[d][1]
          /\ \A q \in ToSet(queue) : q[1] = task[d][1] => q[2] < task[d][2]
      BY <3>1 DEF OnePlace
    <3>3. \A q \in ToSet(queue') : q[1] = task[d][1] => q[2] < task[d][2]
      BY <1>4, <1>5, <3>1, <3>2
    <3>4. \A e \in Conns : task'[e] # NoTask /\ e # d => task'[e][1] # task[d][1]
      BY <1>2, <3>1, <3>2
    <3> QED
      BY <1>3, <3>1, <3>2, <3>3, <3>4
  <2> QED
    BY <2>1, <2>2
<1>9. \A q \in ToSet(queue') : q[1] \notin Upstream' /\ q[1] <= made'
  BY <1>3, <1>4, <1>5, <1>6 DEF OnePlace
<1> QED
  BY <1>1, <1>4, <1>5, <1>7, <1>8, <1>9 DEF OnePlace

\* The task has done with its batch.
LEMMA AnswerPlace ==
  ASSUME OnePlace, LinkInv, NEW c \in Conns, Answer(c)
  PROVE  OnePlace'
<1>1. /\ UNCHANGED <<made, queue>> /\ Upstream' = Upstream
      /\ \A d \in Conns : task'[d] = IF d = c THEN NoTask ELSE task[d]
  BY DEF Answer, clientVars, linkVars, Upstream, Held, Sent, LinkInv, TypeOK, ServerTypeOK
<1> QED
  BY <1>1 DEF OnePlace

\* The first metric of the queue leaves it for the map.
LEMMA StoreMetricPlace ==
  ASSUME LinkInv, OnePlace, StoreMetric
  PROVE  /\ OnePlace'
         /\ ToSet(queue) = {Head(queue)} \cup ToSet(queue') /\ Head(queue) \notin ToSet(queue')
<1>1. /\ queue # <<>> /\ queue' = Tail(queue) /\ UNCHANGED <<made, task>> /\ Upstream' = Upstream
  BY DEF StoreMetric, clientVars, linkVars, Upstream, Held, Sent
<1>2. Distinct(queue)
  BY DEF OnePlace
<1>3. /\ ToSet(queue) = {Head(queue)} \cup ToSet(queue') /\ Head(queue) \notin ToSet(queue')
      /\ Distinct(queue')
  BY <1>1, <1>2, TypedServer, MembersHead, DistinctTail
<1> QED
  BY <1>1, <1>3 DEF OnePlace

\* A server that has nothing.
LEMMA RestartPlace ==
  ASSUME ServerRestart
  PROVE  OnePlace'
<1>1. queue' = <<>> /\ \A c \in Conns : task'[c] = NoTask
  BY DEF ServerRestart
<1>2. ToSet(queue') = {} /\ Distinct(queue')
  BY <1>1, MembersEmpty
<1> QED
  BY <1>1, <1>2 DEF OnePlace

----------------------------------------------------------------------------
(* What MetricStore promises, step by step. *)

\* The metrics that a task has not queued yet.
Rest(c) == {<<task[c][1], k>> : k \in IF task[c] = NoTask THEN {} ELSE task[c][2]..Kinds}

\* The invariant of the pipe, in its three parts.
PlaceInv == LinkInv /\ Ordered /\ OnePlace

\* The pipe: what the server has not read, its queue, and what its tasks have still to queue.
LEMMA PipeIs ==
  /\ InPipe = (Upstream \X (1..Kinds)) \cup ToSet(queue) \cup UNION {Rest(c) : c \in Conns}
  /\ InPipe' = (Upstream' \X (1..Kinds)) \cup ToSet(queue') \cup UNION {Rest(c)' : c \in Conns}
<1>1. InPipe = (Upstream \X (1..Kinds)) \cup ToSet(queue) \cup UNION {Rest(c) : c \in Conns}
  <2>1. UNION {Sent(c) : c \in Conns} = UNION {Numbers(chan[c]) \cup Numbers(wire[c]) : c \in Conns}
    BY DEF Sent
  <2> QED
    BY <2>1 DEF InPipe, Upstream, Held, Rest
<1>2. InPipe' = (Upstream' \X (1..Kinds)) \cup ToSet(queue') \cup UNION {Rest(c)' : c \in Conns}
  <2>1. UNION {Sent(c)' : c \in Conns} = UNION {Numbers(chan'[c]) \cup Numbers(wire'[c]) : c \in Conns}
    BY DEF Sent
  <2> QED
    BY <2>1 DEF InPipe, Upstream, Held, Rest
<1> QED
  BY <1>1, <1>2

\* A step that takes nothing back, and leaves the tasks and the queue alone, loses metrics
\* at most.
LEMMA LoseUpstream ==
  ASSUME Upstream' \subseteq Upstream, UNCHANGED <<made, task, queue, store>>
  PROVE  Promise!Next
<1>1. \A c \in Conns : Rest(c)' = Rest(c)
  BY DEF Rest
<1>2. InPipe' \subseteq InPipe
  BY <1>1, PipeIs
<1> QED
  BY <1>2 DEF Promise!Next, Promise!Lose

\* Such a step also leaves everything in its place.
LEMMA LoseStep ==
  ASSUME PlaceInv, LinkInv', Ordered', Upstream' \subseteq Upstream,
         UNCHANGED <<made, task, queue, store>>
  PROVE  PlaceInv' /\ Promise!Next
<1>1. made' \in Nat /\ made <= made'
  BY Typed DEF PlaceInv
<1>2. OnePlace'
  BY <1>1, PlaceKept DEF PlaceInv
<1> QED
  BY <1>2, LoseUpstream DEF PlaceInv

\* A step that moves no batch and no metric.
LEMMA QuietStep ==
  ASSUME PlaceInv, LinkInv', UNCHANGED <<made, meas, hand, wire, chan, task, queue, store>>
  PROVE  PlaceInv' /\ Promise!Next
<1>1. Ordered' /\ Upstream' \subseteq Upstream
  BY OrderedSame DEF PlaceInv
<1> QED
  BY <1>1, LoseStep

\* A new batch: Make.
LEMMA MakeStep ==
  ASSUME PlaceInv, MakeBatch
  PROVE  PlaceInv' /\ Promise!Next
<1>1. LinkInv' /\ Ordered' /\ Upstream' = Upstream \cup {made + 1}
  BY MakeBatchLinks, MakeBatchOrdered DEF PlaceInv
<1>2. /\ made < MaxBatches /\ made' = made + 1 /\ UNCHANGED <<task, queue, store>>
  BY DEF MakeBatch, serverVars
<1>3. OnePlace'
  <2>1. made' \in Nat /\ made <= made'
    BY <1>2, Typed DEF PlaceInv
  <2> QED
    BY <1>1, <1>2, <2>1, PlaceKept DEF PlaceInv
<1>4. InPipe' = InPipe \cup ({made + 1} \X (1..Kinds))
  <2>1. \A c \in Conns : Rest(c)' = Rest(c)
    BY <1>2 DEF Rest
  <2>2. Upstream' \X (1..Kinds) = (Upstream \X (1..Kinds)) \cup ({made + 1} \X (1..Kinds))
    BY <1>1
  <2> QED
    BY <1>2, <2>1, <2>2, PipeIs
<1>5. Promise!Make
  BY <1>2, <1>4 DEF Promise!Make, Promise!Metrics
<1> QED
  BY <1>1, <1>3, <1>5 DEF PlaceInv, Promise!Next

\* The batch that the composer takes stays in the pipe.
LEMMA TakeBatchStep ==
  ASSUME PlaceInv, TakeBatch
  PROVE  PlaceInv' /\ Promise!Next
<1>1. LinkInv' /\ Ordered' /\ Upstream' \subseteq Upstream
  BY TakeBatchLinks, TakeBatchOrdered DEF PlaceInv
<1>2. UNCHANGED <<made, task, queue, store>>
  BY DEF TakeBatch, serverVars
<1> QED
  BY <1>1, <1>2, LoseStep

\* A batch that is sent stays in the pipe; one that is not leaves it for good.
LEMMA SendBatchStep ==
  ASSUME PlaceInv, SendBatch
  PROVE  PlaceInv' /\ Promise!Next
<1>1. LinkInv' /\ Ordered' /\ Upstream' \subseteq Upstream
  BY SendBatchLinks, SendBatchOrdered DEF PlaceInv
<1>2. UNCHANGED <<made, task, queue, store>>
  BY DEF SendBatch, serverVars
<1> QED
  BY <1>1, <1>2, LoseStep

\* What a failed call, a dropped request or a dropped stream had leaves the pipe.
LEMMA LossStep ==
  ASSUME PlaceInv, CallFails \/ (\E c \in Conns : DropRequest(c) \/ DropStream(c))
  PROVE  PlaceInv' /\ Promise!Next
<1>1. LinkInv'
  BY CallFailsLinks, DropRequestLinks, DropStreamLinks DEF PlaceInv
<1>2. Ordered' /\ Upstream' \subseteq Upstream
  BY LossOrdered DEF PlaceInv
<1>3. UNCHANGED <<made, task, queue, store>>
  BY DEF CallFails, DropRequest, DropStream, clientVars, serverVars
<1> QED
  BY <1>1, <1>2, <1>3, LoseStep

\* A batch on the wire is still in the pipe.
LEMMA TransmitStep ==
  ASSUME PlaceInv, NEW c \in Conns, Transmit(c)
  PROVE  PlaceInv' /\ Promise!Next
<1>1. LinkInv' /\ Ordered' /\ Upstream' \subseteq Upstream
  BY TransmitLinks, TransmitOrdered DEF PlaceInv
<1>2. UNCHANGED <<made, task, queue, store>>
  BY DEF Transmit, clientVars, serverVars
<1> QED
  BY <1>1, <1>2, LoseStep

\* A batch that a task reads stays in the pipe.
LEMMA ReadMessageStep ==
  ASSUME PlaceInv, NEW c \in Conns, ReadMessage(c)
  PROVE  PlaceInv' /\ Promise!Next
<1>1. LinkInv' /\ Ordered' /\ OnePlace'
  BY ReadMessageLinks, ReadMessageOrdered, ReadMessagePlace DEF PlaceInv
<1>2. PICK h : h = Head(wire[c])
  OBVIOUS
<1>3. /\ task'[c] = <<h, 1>> /\ UNCHANGED <<made, queue, store>>
      /\ \A d \in Conns \ {c} : task'[d] = task[d]
  BY <1>2 DEF ReadMessage, clientVars, PlaceInv, LinkInv, TypeOK, ServerTypeOK
<1>4. h \in Upstream /\ Upstream' \subseteq Upstream
  BY <1>3, ReadMessageOrdered DEF PlaceInv
<1>5. \A d \in Conns \ {c} : Rest(d)' = Rest(d)
  BY <1>3 DEF Rest
<1>6. Rest(c)' \subseteq Upstream \X (1..Kinds)
  BY <1>3, <1>4 DEF Rest
<1>7. InPipe' \subseteq InPipe
  BY <1>3, <1>4, <1>5, <1>6, PipeIs
<1> QED
  BY <1>1, <1>3, <1>7 DEF PlaceInv, Promise!Next, Promise!Lose

\* A metric that is queued stays in the pipe.
LEMMA QueueMetricStep ==
  ASSUME PlaceInv, NEW c \in Conns, QueueMetric(c)
  PROVE  PlaceInv' /\ Promise!Next
<1>1. LinkInv' /\ OnePlace' /\ ToSet(queue') = ToSet(queue) \cup {task[c]}
  BY QueueMetricLinks, QueueMetricPlace DEF PlaceInv
<1>2. UNCHANGED <<made, meas, hand, wire, chan, store>>
  BY DEF QueueMetric, clientVars, linkVars
<1>3. Ordered' /\ Upstream' \subseteq Upstream
  BY <1>2, OrderedSame DEF PlaceInv
<1>4. PICK b \in Nat, k \in 1..Kinds : task[c] = <<b, k>> /\ task[c] # NoTask
  BY TypedServer DEF QueueMetric, PlaceInv
<1>5. task'[c] = <<b, k + 1>> /\ \A d \in Conns \ {c} : task'[d] = task[d]
  BY <1>4 DEF QueueMetric, PlaceInv, LinkInv, TypeOK, ServerTypeOK
<1>6. Rest(c) = {<<b, j>> : j \in k..Kinds} /\ Rest(c)' \subseteq {<<b, j>> : j \in k + 1..Kinds}
  BY <1>4, <1>5 DEF Rest
<1>7. Kinds \in Nat
  BY BoundAssumption
<1>8. Rest(c)' \cup {task[c]} \subseteq Rest(c)
  BY <1>4, <1>6, <1>7
<1>9. \A d \in Conns \ {c} : Rest(d)' = Rest(d)
  BY <1>5 DEF Rest
<1>10. InPipe' \subseteq InPipe
  BY <1>1, <1>3, <1>8, <1>9, PipeIs
<1> QED
  BY <1>1, <1>2, <1>3, <1>10 DEF PlaceInv, Promise!Next, Promise!Lose

\* An answer: the task has nothing left to queue.
LEMMA AnswerStep ==
  ASSUME PlaceInv, NEW c \in Conns, Answer(c)
  PROVE  PlaceInv' /\ Promise!Next
<1>1. LinkInv' /\ OnePlace'
  BY AnswerLinks, AnswerPlace DEF PlaceInv
<1>2. /\ UNCHANGED <<made, meas, hand, wire, chan, queue, store>>
      /\ \A d \in Conns : task'[d] = IF d = c THEN NoTask ELSE task[d]
  BY DEF Answer, clientVars, linkVars, PlaceInv, LinkInv, TypeOK, ServerTypeOK
<1>3. Ordered' /\ Upstream' \subseteq Upstream
  BY <1>2, OrderedSame DEF PlaceInv
<1>4. \A d \in Conns : Rest(d)' \subseteq Rest(d)
  BY <1>2 DEF Rest
<1>5. InPipe' \subseteq InPipe
  BY <1>2, <1>3, <1>4, PipeIs
<1> QED
  BY <1>1, <1>2, <1>3, <1>5 DEF PlaceInv, Promise!Next, Promise!Lose

\* A metric is stored: it was in the queue, and nowhere else.
LEMMA StoreMetricStep ==
  ASSUME PlaceInv, StoreMetric
  PROVE  PlaceInv' /\ Promise!Next
<1>1. /\ LinkInv' /\ OnePlace'
      /\ ToSet(queue) = {Head(queue)} \cup ToSet(queue') /\ Head(queue) \notin ToSet(queue')
  BY StoreMetricLinks, StoreMetricPlace DEF PlaceInv
<1>2. UNCHANGED <<made, meas, hand, wire, chan, task>>
  BY DEF StoreMetric, clientVars, linkVars
<1>3. Ordered' /\ Upstream' = Upstream
  BY <1>2, OrderedSame DEF PlaceInv, Upstream, Held, Sent
<1>4. PICK m : m = Head(queue)
  OBVIOUS
<1>5. m[1] \notin Upstream /\ m \in ToSet(queue)
  BY <1>1, <1>4 DEF PlaceInv, OnePlace
<1>6. \A c \in Conns : m \notin Rest(c) /\ Rest(c)' = Rest(c)
  <2> TAKE c \in Conns
  <2>1. ASSUME m \in Rest(c) PROVE FALSE
    <3>1. task[c] # NoTask /\ \E k \in task[c][2]..Kinds : m = <<task[c][1], k>>
      BY <2>1 DEF Rest
    <3>2. PICK k \in task[c][2]..Kinds : m = <<task[c][1], k>>
      BY <3>1
    <3>3. task[c][2] \in Nat /\ k >= task[c][2] /\ m[1] = task[c][1] /\ m[2] = k
      BY <3>1, <3>2, TypedServer DEF PlaceInv
    <3>4. m[2] < task[c][2]
      BY <1>5, <3>1, <3>3 DEF PlaceInv, OnePlace
    <3> QED
      BY <3>3, <3>4
  <2> QED
    BY <1>2, <2>1 DEF Rest
<1>7. InPipe' = InPipe \ {m}
  <2>1. \A x \in Upstream \X (1..Kinds) : x[1] \in Upstream
    OBVIOUS
  <2> QED
    BY <1>1, <1>3, <1>4, <1>5, <1>6, <2>1, PipeIs
<1>8. m \in InPipe
  BY <1>5, PipeIs
<1>9. Promise!Deliver(m)
  BY <1>2, <1>4, <1>7, <1>8 DEF Promise!Deliver, StoreMetric
<1> QED
  BY <1>1, <1>3, <1>8, <1>9 DEF PlaceInv, Promise!Next

\* A restart: what the server and the connections had is lost, and the map is empty.
LEMMA RestartStep ==
  ASSUME PlaceInv, ServerRestart
  PROVE  PlaceInv' /\ Promise!Next
<1>1. LinkInv' /\ Ordered' /\ OnePlace' /\ Upstream' \subseteq Upstream
  BY ServerRestartLinks, RestartOrdered, RestartPlace DEF PlaceInv
<1>2. /\ queue' = <<>> /\ UNCHANGED made /\ store' = [k \in 1..Kinds |-> 0]
      /\ \A c \in Conns : task'[c] = NoTask
  BY DEF ServerRestart, clientVars
<1>3. \A c \in Conns : Rest(c)' = {}
  BY <1>2 DEF Rest
<1>4. InPipe' \subseteq InPipe
  BY <1>1, <1>2, <1>3, PipeIs, MembersEmpty
<1> QED
  BY <1>1, <1>2, <1>4 DEF PlaceInv, Promise!Next, Promise!Restart, Promise!Empty

----------------------------------------------------------------------------
\* The first state.
LEMMA PlaceInit ==
  ASSUME Init
  PROVE  PlaceInv /\ Promise!Init
<1> USE BoundAssumption
<1>1. LinkInv
  <2>1. ClientTypeOK /\ LoopTypeOK
    BY DEF Init, ClientTypeOK, LoopTypeOK, Conns
  <2>2. LinkTypeOK
    <3>1. PICK s \in Seq(1..MaxBatches) : s = <<>> /\ Len(s) = 0
      BY MembersEmpty
    <3>2. chan = [c \in Conns |-> s] /\ wire = [c \in Conns |-> s] /\ link = [c \in Conns |-> "none"]
      BY <3>1 DEF Init
    <3> QED
      BY <3>1, <3>2 DEF LinkTypeOK
  <2>3. ServerTypeOK
    BY DEF Init, ServerTypeOK
  <2>4. faults \in 0..MaxFaults /\ lost \subseteq 1..MaxBatches /\ overlap \in BOOLEAN
    <3>1. faults \in 0..MaxFaults /\ lost = {}
      BY DEF Init
    <3>2. overlap \in BOOLEAN
      BY DEF Init
    <3> QED
      BY <3>1, <3>2
  <2>5. Linked
    BY DEF Init, Linked, Broken, Conns
  <2>6. Handed
    BY DEF Init, Handed
  <2> QED
    BY <2>1, <2>2, <2>3, <2>4, <2>5, <2>6 DEF LinkInv, TypeOK
<1>2. /\ made = 0 /\ meas = <<>> /\ hand = 0 /\ queue = <<>> /\ store = [k \in 1..Kinds |-> 0]
      /\ \A c \in Conns : wire[c] = <<>> /\ chan[c] = <<>> /\ task[c] = NoTask
  BY DEF Init
<1>3. Held = {} /\ \A c \in Conns : Sent(c) = {} /\ Rest(c) = {} /\ Increasing(wire[c])
  BY <1>2, MembersEmpty DEF Held, Sent, Rest, Numbers
<1>4. Ordered
  <2>1. Increasing(meas) /\ Numbers(meas) = {}
    BY <1>2, MembersEmpty DEF Numbers
  <2>2. \A c \in Conns : Numbers(wire[c]) = {}
    BY <1>3 DEF Sent
  <2> QED
    BY <1>2, <1>3, <2>1, <2>2 DEF Ordered
<1>5. OnePlace
  <2>1. ToSet(queue) = {} /\ Distinct(queue)
    BY <1>2, MembersEmpty
  <2> QED
    BY <1>2, <2>1 DEF OnePlace
<1>6. InPipe = {}
  <2>1. Upstream = {} /\ ToSet(queue) = {}
    BY <1>2, <1>3, MembersEmpty DEF Upstream
  <2> QED
    BY <1>3, <2>1, PipeIs
<1> QED
  BY <1>1, <1>2, <1>4, <1>5, <1>6 DEF PlaceInv, Promise!Init, Promise!Empty

\* Every step keeps the invariant, and is one of MetricStore or none.
LEMMA PlaceStep ==
  ASSUME PlaceInv, [Next]_vars
  PROVE  PlaceInv' /\ [Promise!Next]_(Promise!vars)
<1>1. CASE Composer
  <2>1. CASE MakeBatch
    BY <2>1, MakeStep
  <2>2. CASE TakeSender
    <3>1. UNCHANGED <<made, meas, hand, wire, chan, task, queue, store>>
      BY <2>2 DEF TakeSender, linkVars, serverVars
    <3> QED
      BY <2>2, <3>1, TakeSenderLinks, QuietStep DEF PlaceInv
  <2>3. CASE TakeBatch
    BY <2>3, TakeBatchStep
  <2>4. CASE SendBatch
    BY <2>4, SendBatchStep
  <2> QED
    BY <1>1, <2>1, <2>2, <2>3, <2>4 DEF Composer
<1>2. CASE Loops
  <2>1. CASE CallFails
    BY <2>1, LossStep
  <2>2. CASE ~CallFails
    <3>1. UNCHANGED <<made, meas, hand, wire, chan, task, queue, store>>
      BY <1>2, <2>2
         DEF Loops, LockForMetrics, GetForMetrics, Offer, CallAnswered, ReadAnswer, ResponsesEnd,
             LockForRegister, GetForRegister, RegisterAgain, clientVars, linkVars, serverVars
    <3>2. LinkInv'
      BY <1>2, <2>2, LockForMetricsLinks, GetForMetricsLinks, OfferLinks, CallAnsweredLinks,
         ReadAnswerLinks, ResponsesEndLinks, LockForRegisterLinks, GetForRegisterLinks,
         RegisterAgainLinks DEF Loops, PlaceInv
    <3> QED
      BY <3>1, <3>2, QuietStep
  <2> QED
    BY <2>1, <2>2
<1>3. CASE Network
  <2>1. CASE Reach
    <3>1. UNCHANGED <<made, meas, hand, wire, chan, task, queue, store>>
      BY <2>1 DEF Reach, clientVars, linkVars, serverVars
    <3> QED
      BY <2>1, <3>1, ReachLinks, QuietStep DEF PlaceInv
  <2>2. ASSUME NEW c \in Conns, Break(c) PROVE PlaceInv' /\ Promise!Next
    <3>1. UNCHANGED <<made, meas, hand, wire, chan, task, queue, store>>
      BY <2>2 DEF Break, clientVars, serverVars
    <3> QED
      BY <2>2, <3>1, BreakLinks, QuietStep DEF PlaceInv
  <2>3. ASSUME NEW c \in Conns, Transmit(c) \/ DropRequest(c) \/ DropStream(c)
        PROVE  PlaceInv' /\ Promise!Next
    BY <2>3, TransmitStep, LossStep
  <2> QED
    BY <1>3, <2>1, <2>2, <2>3 DEF Network
<1>4. CASE Server
  <2>1. CASE StoreMetric \/ ServerRestart
    BY <2>1, StoreMetricStep, RestartStep
  <2>2. ASSUME NEW c \in Conns, ReadMessage(c) \/ QueueMetric(c) \/ Answer(c)
        PROVE  PlaceInv' /\ Promise!Next
    BY <2>2, ReadMessageStep, QueueMetricStep, AnswerStep
  <2> QED
    BY <1>4, <2>1, <2>2 DEF Server
<1>5. CASE UNCHANGED vars
  <2>1. UNCHANGED <<made, meas, hand, wire, chan, task, queue, store>>
    BY <1>5 DEF vars, clientVars, linkVars, serverVars
  <2>2. LinkInv'
    BY <1>5 DEF PlaceInv, LinkInv, TypeOK, ClientTypeOK, LoopTypeOK, LinkTypeOK, ServerTypeOK,
                Linked, Handed, Broken, vars, clientVars, loopVars, linkVars, serverVars, history
  <2> QED
    BY <2>1, <2>2, QuietStep
<1> QED
  BY <1>1, <1>2, <1>3, <1>4, <1>5 DEF Next

\* The invariant of the pipe: the connections and the batches they have, the order of the
\* batches and the place of every metric.
THEOREM PlaceInvariant == Spec => []PlaceInv
<1>1. Init => PlaceInv
  BY PlaceInit
<1>2. PlaceInv /\ [Next]_vars => PlaceInv'
  BY PlaceStep
<1> QED
  BY <1>1, <1>2, PTL DEF Spec

\* Every variable has its type: no channel and no queue ever holds more than its capacity.
THEOREM PipeTypes == Spec => []TypeOK
<1>1. PlaceInv => TypeOK
  BY DEF PlaceInv, LinkInv
<1> QED
  BY <1>1, PlaceInvariant, PTL

\* Whatever happens to the connections and to the server, the pipe does what MetricStore
\* says: a metric is stored at most once, and none that was not made.
THEOREM PipeImplementsStore == Spec => StoredAtMostOnce
<1>1. Init => Promise!Init
  BY PlaceInit
<1>2. PlaceInv /\ [Next]_vars => [Promise!Next]_(Promise!vars)
  BY PlaceStep
<1> QED
  BY <1>1, <1>2, PlaceInvariant, PTL DEF Spec, StoredAtMostOnce, Promise!Spec
=============================================================================
