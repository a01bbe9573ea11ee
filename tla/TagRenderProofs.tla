-------------------------- MODULE TagRenderProofs --------------------------
(***************************************************************************)
(* What the cells of a rendering hold and which peers count in them, for   *)
(* any database and any metrics of it.                                     *)
(***************************************************************************)
EXTENDS TagRender, ConfigStoreProofs, FiniteSetTheorems

----------------------------------------------------------------------------
(* One cell. *)

\* The cell z summarises the fresh metrics f[x] of the pairs x in M.
Summary(z, M, f) ==
  /\ z.pl = Cardinality(M)
  /\ z.ts = Fresh <=> M # {}
  /\ z.hi \in {f[x].hi : x \in M} \cup {-1}
  /\ \A x \in M : z.hi >= f[x].hi
  /\ z.lo \in {f[x].lo : x \in M} \cup {-1}
  /\ (\A x \in M : f[x].lo > -1) => \A x \in M : -1 < z.lo /\ z.lo <= f[x].lo
  /\ z.dev = "nan" <=> \E x \in M : f[x].dev = "nan"
  /\ M = {} => z.dev = "none"
  /\ M # {} /\ z.dev = "none" => \E x \in M : f[x].dev = "none"

\* A metric comes into a cell that is not stale, field by field.
LEMMA FoldFields ==
  ASSUME NEW z \in Cell, NEW v \in Metric, NEW zero \in BOOLEAN, z.ts # Stale
  PROVE  /\ FoldInto(z, v, zero).ts = IF z.ts < v.ts THEN v.ts ELSE z.ts
         /\ FoldInto(z, v, zero).pl = z.pl + 1
         /\ FoldInto(z, v, zero).lo = IF z.lo = -1 \/ z.lo > v.lo THEN v.lo ELSE z.lo
         /\ FoldInto(z, v, zero).hi = IF z.hi = -1 \/ z.hi < v.hi THEN v.hi ELSE z.hi
         /\ FoldInto(z, v, zero).dev = JoinDeviation(z.dev, v.dev, zero)
BY DEF FoldInto

\* What becomes of a deviation: it is NaN if one of the two is, and missing only if that
\* of the metric is.
LEMMA DeviationJoined ==
  ASSUME NEW z \in {"none", "number", "nan"}, NEW v \in {"none", "number", "nan"},
         NEW zero \in BOOLEAN
  PROVE  /\ JoinDeviation(z, v, zero) \in {"none", "number", "nan"}
         /\ JoinDeviation(z, v, zero) = "nan" <=> z = "nan" \/ v = "nan"
         /\ JoinDeviation(z, v, zero) = "none" => v = "none"
<1>1. CASE zero
  BY <1>1 DEF JoinDeviation
<1>2. CASE ~zero
  BY <1>2 DEF JoinDeviation
<1> QED
  BY <1>1, <1>2

\* A cell stays a cell, and counts at most one more.
LEMMA FoldTyped ==
  ASSUME NEW z \in Cell, NEW v \in Metric, NEW zero \in BOOLEAN
  PROVE  /\ FoldInto(z, v, zero) \in Cell
         /\ FoldInto(z, v, zero).pl <= z.pl + 1
         /\ FoldInto(z, v, zero).ts = Stale => z.ts = Stale \/ v.ts = Stale
<1>1. z.dev \in {"none", "number", "nan"} /\ v.dev \in {"none", "number", "nan"}
  BY DEF Cell, Metric
<1>2. PICK d \in {"none", "number", "nan"} : d = JoinDeviation(z.dev, v.dev, zero)
  BY <1>1, DeviationJoined
<1> QED
  BY <1>2 DEF FoldInto, Cell, Metric, Stale, Fresh, Never

\* The summary of some metrics and a fresh one more is the summary of all of them.
LEMMA SummaryGrows ==
  ASSUME NEW z \in Cell, NEW v \in Metric, z.ts # Stale, v.ts = Fresh,
         v.lo >= -1, v.hi >= -1, NEW zero \in BOOLEAN,
         NEW M, IsFiniteSet(M), NEW x, x \notin M, NEW f, NEW g,
         \A y \in M : f[y] \in Metric /\ f[y].lo >= -1 /\ g[y] = f[y],
         g[x] = v,
         Summary(z, M, f)
  PROVE  Summary(FoldInto(z, v, zero), M \cup {x}, g)
<1>1. PICK n : n = FoldInto(z, v, zero)
  OBVIOUS
<1>2. /\ n.ts = IF z.ts < v.ts THEN v.ts ELSE z.ts
      /\ n.pl = z.pl + 1
      /\ n.lo = IF z.lo = -1 \/ z.lo > v.lo THEN v.lo ELSE z.lo
      /\ n.hi = IF z.hi = -1 \/ z.hi < v.hi THEN v.hi ELSE z.hi
      /\ n.dev = JoinDeviation(z.dev, v.dev, zero)
  BY <1>1, FoldFields
<1>3. /\ z.ts \in {Never, Fresh} /\ z.lo \in Int /\ z.hi \in Int /\ z.dev \in {"none", "number", "nan"}
      /\ v.lo \in Int /\ v.hi \in Int /\ v.dev \in {"none", "number", "nan"}
  BY DEF Cell, Metric
<1>4. \A y \in M : g[y] = f[y] /\ f[y].lo \in Int /\ f[y].hi \in Int /\ f[y].lo >= -1
  BY DEF Metric
<1>5. n.pl = Cardinality(M \cup {x})
  <2>1. z.pl = Cardinality(M)
    BY DEF Summary
  <2> QED
    <3>1. Cardinality(M \cup {x}) = Cardinality(M) + 1
      BY FS_AddElement
    <3> QED
      BY <1>2, <2>1, <3>1
<1>6. n.ts = Fresh
  BY <1>2, <1>3 DEF Fresh, Never
<1>7. n.hi \in {g[y].hi : y \in M \cup {x}} \cup {-1}
  <2>1. n.hi \in {z.hi, v.hi}
    BY <1>2
  <2>2. v.hi = g[x].hi
    OBVIOUS
  <2>3. z.hi # -1 => \E y \in M : z.hi = g[y].hi
    BY <1>4 DEF Summary
  <2> QED
    BY <2>1, <2>2, <2>3
<1>8. \A y \in M \cup {x} : n.hi >= g[y].hi
  <2>1. n.hi >= z.hi /\ n.hi >= v.hi
    BY <1>2, <1>3
  <2>2. \A y \in M : z.hi >= f[y].hi
    BY DEF Summary
  <2>3. n.hi \in Int
    BY <1>2, <1>3
  <2>4. \A y \in M : n.hi >= f[y].hi
    BY <1>3, <1>4, <2>1, <2>2, <2>3
  <2> QED
    BY <1>4, <2>1, <2>4
<1>9. n.lo \in {g[y].lo : y \in M \cup {x}} \cup {-1}
  <2>1. n.lo \in {z.lo, v.lo}
    BY <1>2
  <2>2. v.lo = g[x].lo
    OBVIOUS
  <2>3. z.lo # -1 => \E y \in M : z.lo = g[y].lo
    BY <1>4 DEF Summary
  <2> QED
    BY <2>1, <2>2, <2>3
<1>10. ASSUME \A y \in M \cup {x} : g[y].lo > -1
       PROVE  \A y \in M \cup {x} : -1 < n.lo /\ n.lo <= g[y].lo
  <2>1. v.lo > -1 /\ \A y \in M : f[y].lo > -1
    BY <1>4, <1>10
  <2>2. \A y \in M : -1 < z.lo /\ z.lo <= f[y].lo
    BY <2>1 DEF Summary
  <2>3. n.lo \in Int /\ n.lo > -1 /\ n.lo <= v.lo
    <3>1. CASE M = {}
      <4>1. z.lo = -1
        BY <3>1 DEF Summary
      <4> QED
        BY <4>1, <1>2, <1>3, <2>1
    <3>2. CASE M # {}
      <4>1. z.lo > -1
        BY <3>2, <2>2, <1>3
      <4> QED
        BY <4>1, <1>2, <1>3, <2>1
    <3> QED
      BY <3>1, <3>2
  <2>4. \A y \in M : n.lo <= z.lo
    <3> SUFFICES ASSUME NEW y \in M PROVE n.lo <= z.lo
      OBVIOUS
    <3>1. -1 < z.lo
      BY <2>2
    <3> QED
      BY <1>2, <1>3, <3>1
  <2>5. \A y \in M : n.lo <= f[y].lo
    BY <1>3, <1>4, <2>2, <2>3, <2>4
  <2> QED
    BY <1>4, <2>3, <2>5
<1>11. n.dev = "nan" <=> \E y \in M \cup {x} : g[y].dev = "nan"
  <2>1. z.dev = "nan" <=> \E y \in M : g[y].dev = "nan"
    BY <1>4 DEF Summary
  <2>2. n.dev = "nan" <=> z.dev = "nan" \/ v.dev = "nan"
    BY <1>2, <1>3, DeviationJoined
  <2> QED
    BY <2>1, <2>2
<1>12. n.dev = "none" => \E y \in M \cup {x} : g[y].dev = "none"
  <2>1. JoinDeviation(z.dev, v.dev, zero) = "none" => v.dev = "none"
    BY <1>3, DeviationJoined
  <2>2. n.dev = JoinDeviation(z.dev, v.dev, zero)
    BY <1>2
  <2> QED
    BY <2>1, <2>2
<1>13. M \cup {x} # {}
  OBVIOUS
<1> QED
  BY <1>1, <1>5, <1>6, <1>7, <1>8, <1>9, <1>10, <1>11, <1>12, <1>13 DEF Summary

----------------------------------------------------------------------------
(* The invariant. *)

\* Of a rendering that runs: it has read the peers in service at some time since it
\* began, and counts them only.
ServedOnly ==
  /\ step # "sleep" => \A p \in Peers : InService(p) => p \in served
  /\ \A x \in DOMAIN folded : {x[1], x[2]} \subseteq served

\* A rendering counts a metric at most once in a cell, and a cell is stale only because of
\* one of its metrics.
CountsOnce ==
  /\ IsFiniteSet(DOMAIN folded)
  /\ \A c \in DOMAIN levels :
       /\ levels[c].pl <= Cardinality(DOMAIN folded)
       /\ levels[c].ts = Stale => \E x \in Members(c) : folded[x].ts = Stale

RenderInv ==
  TypeOK /\ StoreInv /\ ServedOnly /\ CountsOnce /\ CellsSummarise

\* The first state: nothing has been read.
LEMMA InitRender == Init => RenderInv
<1> SUFFICES ASSUME Init PROVE RenderInv
  OBVIOUS
<1>1. StoreInv
  BY InitStore DEF Init
<1>2. DOMAIN levels = {} /\ DOMAIN folded = {}
  BY DEF Init, Nothing
<1>3. NoPeers \in [Peers -> PeerRows \cup {NoRow}] /\ NoTags \in [Ids -> TagRows \cup {NoRow}]
  BY DEF NoPeers, NoTags
<1>4. TypeOK
  <2>1. 0 \in 0..MaxChanges /\ FALSE \in BOOLEAN
    BY MetricAssumption
  <2>2. step = "sleep" /\ seenLinks = {} /\ out = {} /\ names = NoRow /\ served = {}
    BY DEF Init
  <2>3. changes \in 0..MaxChanges /\ began \in BOOLEAN
    BY <2>1 DEF Init
  <2>4. /\ seenPeers \in [Peers -> PeerRows \cup {NoRow}]
        /\ seenTags \in [Ids -> TagRows \cup {NoRow}]
    BY <1>3 DEF Init
  <2> QED
    BY <1>1, <1>2, <2>2, <2>3, <2>4 DEF TypeOK, StoreInv
<1>5. CountsOnce /\ CellsSummarise
  BY <1>2, FS_EmptySet DEF CountsOnce, CellsSummarise
<1>6. ServedOnly
  BY <1>2 DEF Init, ServedOnly
<1> QED
  BY <1>1, <1>4, <1>5, <1>6 DEF RenderInv

----------------------------------------------------------------------------
(* The steps. *)

\* Outside of "fold" a rendering has no cells.
LEMMA NoCells ==
  ASSUME DOMAIN levels' = {}, DOMAIN folded' = {}
  PROVE  /\ CountsOnce' /\ CellsSummarise'
         /\ \A x \in DOMAIN folded' : {x[1], x[2]} \subseteq served'
BY FS_EmptySet DEF CountsOnce, CellsSummarise

\* What the cells and their members depend on.
LEMMA SameCells ==
  ASSUME RenderInv, UNCHANGED <<levels, folded, seenTags, seenLinks>>
  PROVE  CountsOnce' /\ CellsSummarise'
<1>1. \A c : Members(c)' = Members(c)
  BY DEF Members, Into, TagsOf, SeenIds
<1> QED
  BY <1>1 DEF RenderInv, CountsOnce, CellsSummarise

\* What is not held while a rendering does not fold.
LEMMA Idle ==
  ASSUME RenderInv, step # "fold"
  PROVE  DOMAIN levels = {} /\ DOMAIN folded = {}
BY DEF RenderInv, TypeOK

\* peers: a rendering begins.
LEMMA ReadPeersKeeps ==
  ASSUME RenderInv, ReadPeers
  PROVE  RenderInv'
<1>1. /\ step = "sleep" /\ step' = "tags" /\ seenPeers' = peers
      /\ began' = TRUE /\ served' = Active
      /\ UNCHANGED <<peers, tags, peerTags, seenTags, seenLinks, levels, folded, group, out,
                     names, changes>>
  BY DEF ReadPeers, storeVars, fold
<1>2. DOMAIN levels' = {} /\ DOMAIN folded' = {}
  BY <1>1, Idle
<1>3. StoreInv'
  BY <1>1 DEF RenderInv, StoreInv, StoreTypeOK, Hierarchy, NoDangling, Stored, Used
<1>4. served' \subseteq Peers
  BY <1>1 DEF Active
<1>5. TypeOK'
  BY <1>1, <1>2, <1>3, <1>4 DEF RenderInv, TypeOK, StoreInv, StoreTypeOK
<1>6. CountsOnce' /\ CellsSummarise'
  BY <1>2, NoCells
<1>7. ServedOnly'
  BY <1>1, <1>2, NoCells DEF ServedOnly, InService, Active
<1> QED
  BY <1>3, <1>5, <1>6, <1>7 DEF RenderInv

\* tags: what was read is what is in use.
LEMMA ReadTagsKeeps ==
  ASSUME RenderInv, ReadTags
  PROVE  RenderInv'
<1>1. /\ step = "tags" /\ step' = "links" /\ seenTags' = tags
      /\ UNCHANGED <<peers, tags, peerTags, seenPeers, seenLinks, levels, folded, group, out,
                     names, changes, began, served>>
  BY DEF ReadTags, storeVars, fold, history
<1>2. DOMAIN levels' = {} /\ DOMAIN folded' = {}
  BY <1>1, Idle
<1>3. StoreInv'
  BY <1>1 DEF RenderInv, StoreInv, StoreTypeOK, Hierarchy, NoDangling, Stored, Used
<1>4. TypeOK'
  BY <1>1, <1>2, <1>3 DEF RenderInv, TypeOK, StoreInv, StoreTypeOK
<1>5. CountsOnce' /\ CellsSummarise'
  BY <1>2, NoCells
<1>6. ServedOnly'
  BY <1>1, <1>2, NoCells DEF RenderInv, ServedOnly, InService
<1> QED
  BY <1>3, <1>4, <1>5, <1>6 DEF RenderInv

\* peer_tags: an empty cell for every two tags with the same parent.
LEMMA ReadLinksKeeps ==
  ASSUME RenderInv, ReadLinks
  PROVE  RenderInv'
<1>1. /\ step = "links" /\ step' = "fold" /\ seenLinks' = peerTags
      /\ levels' = [c \in Cells |-> EmptyCell]
      /\ UNCHANGED <<peers, tags, peerTags, seenPeers, seenTags, folded, group, out,
                     names, changes, began, served>>
  BY DEF ReadLinks, storeVars, history
<1>2. DOMAIN folded = {} /\ DOMAIN levels' = Cells /\ \A c \in Cells : levels'[c] = EmptyCell
  BY <1>1, Idle
<1>3. StoreInv'
  BY <1>1 DEF RenderInv, StoreInv, StoreTypeOK, Hierarchy, NoDangling, Stored, Used
<1>4. SeenIds' = SeenIds /\ Cells' = Cells /\ Used' = Used
  BY <1>1 DEF SeenIds, Cells, Used
<1>5. EmptyCell \in Cell
  BY DEF EmptyCell, Cell
<1>6. TypeOK'
  BY <1>1, <1>2, <1>3, <1>4, <1>5 DEF RenderInv, TypeOK, StoreInv, StoreTypeOK
<1>7. \A c : Members(c)' = {}
  BY <1>1, <1>2 DEF Members
<1>8. /\ EmptyCell.pl = 0 /\ EmptyCell.ts = Never /\ Never # Stale /\ Never # Fresh
      /\ EmptyCell.hi = -1 /\ EmptyCell.lo = -1 /\ EmptyCell.dev = "none"
  BY DEF EmptyCell, Never, Stale, Fresh
<1>9. IsFiniteSet({}) /\ Cardinality({}) = 0
  BY FS_EmptySet
<1>10. CountsOnce'
  BY <1>1, <1>2, <1>8, <1>9 DEF CountsOnce
<1>11. CellsSummarise'
  BY <1>2, <1>7, <1>8, <1>9 DEF CellsSummarise
<1>12. ServedOnly'
  BY <1>1, <1>2 DEF RenderInv, ServedOnly, InService
<1> QED
  BY <1>3, <1>6, <1>10, <1>11, <1>12 DEF RenderInv

\* A failed query ends the rendering.
LEMMA ReadFailsKeeps ==
  ASSUME RenderInv, ReadFails
  PROVE  RenderInv'
<1>1. /\ step \in {"tags", "links"} /\ step' = "sleep"
      /\ seenPeers' = NoPeers /\ seenTags' = NoTags
      /\ UNCHANGED <<peers, tags, peerTags, seenLinks, levels, folded, group, out,
                     names, changes, began, served>>
  BY DEF ReadFails, storeVars, fold, history
<1>2. DOMAIN levels' = {} /\ DOMAIN folded' = {}
  BY <1>1, Idle
<1>3. StoreInv'
  BY <1>1 DEF RenderInv, StoreInv, StoreTypeOK, Hierarchy, NoDangling, Stored, Used
<1>4. NoPeers \in [Peers -> PeerRows \cup {NoRow}] /\ NoTags \in [Ids -> TagRows \cup {NoRow}]
  BY DEF NoPeers, NoTags
<1>5. TypeOK'
  BY <1>1, <1>2, <1>3, <1>4 DEF RenderInv, TypeOK, StoreInv
<1>6. CountsOnce' /\ CellsSummarise'
  BY <1>2, NoCells
<1>7. ServedOnly'
  BY <1>1, <1>2, NoCells DEF ServedOnly
<1> QED
  BY <1>3, <1>5, <1>6, <1>7 DEF RenderInv

\* The results are published, and the rendering ends.
LEMMA PublishKeeps ==
  ASSUME RenderInv, Publish
  PROVE  RenderInv'
<1>1. /\ step = "fold" /\ step' = "sleep"
      /\ out' = {c \in DOMAIN levels : HasJitter(levels[c])}
      /\ seenPeers' = NoPeers /\ seenTags' = NoTags /\ seenLinks' = {}
      /\ levels' = Nothing /\ folded' = Nothing
      /\ UNCHANGED <<peers, tags, peerTags, names, changes, began, served>>
  BY DEF Publish, storeVars, history
<1>2. DOMAIN levels' = {} /\ DOMAIN folded' = {}
  BY <1>1 DEF Nothing
<1>3. StoreInv'
  BY <1>1 DEF RenderInv, StoreInv, StoreTypeOK, Hierarchy, NoDangling, Stored, Used
<1>4. NoPeers \in [Peers -> PeerRows \cup {NoRow}] /\ NoTags \in [Ids -> TagRows \cup {NoRow}]
  BY DEF NoPeers, NoTags
<1>5. out' \subseteq SeenIds \X SeenIds /\ SeenIds \subseteq Ids
  BY <1>1 DEF RenderInv, TypeOK, Cells, SeenIds
<1>6. out' \subseteq Ids \X Ids
  BY <1>5
<1>7. TypeOK'
  BY <1>1, <1>2, <1>3, <1>4, <1>6 DEF RenderInv, TypeOK, StoreInv
<1>8. CountsOnce' /\ CellsSummarise'
  BY <1>2, NoCells
<1>9. ServedOnly'
  BY <1>1, <1>2, NoCells DEF ServedOnly
<1> QED
  BY <1>3, <1>7, <1>8, <1>9 DEF RenderInv

\* A page reads the names, or is printed.
LEMMA ReaderKeeps ==
  ASSUME RenderInv, ReadNames \/ PrintPage
  PROVE  RenderInv'
<1>1. UNCHANGED <<peers, tags, peerTags, step, seenPeers, seenTags, seenLinks, levels, folded,
                  group, out, changes, began, served>>
  BY DEF ReadNames, PrintPage, storeVars, seen, fold, history
<1>2. names' \in {Used, NoRow}
  BY DEF ReadNames, PrintPage
<1>3. names' \in (SUBSET Ids) \cup {NoRow}
  BY <1>2 DEF Used
<1>4. SeenIds' = SeenIds /\ Used' = Used /\ Cells' = Cells
  BY <1>1 DEF SeenIds, Used, Cells
<1>5. StoreInv'
  BY <1>1 DEF RenderInv, StoreInv, StoreTypeOK, Hierarchy, NoDangling, Stored, Used
<1>6. TypeOK'
  BY <1>1, <1>3, <1>4, <1>5 DEF RenderInv, TypeOK, StoreInv
<1>7. CountsOnce' /\ CellsSummarise'
  BY <1>1, SameCells
<1>8. ServedOnly'
  BY <1>1 DEF RenderInv, ServedOnly, InService
<1> QED
  BY <1>5, <1>6, <1>7, <1>8 DEF RenderInv

\* The administrator changes the database, never while metrics are folded.
LEMMA ChangeKeeps ==
  ASSUME RenderInv, Change
  PROVE  RenderInv'
<1>1. /\ step # "fold" /\ StoreNext /\ served' = served \cup Active'
      /\ IF ~began THEN changes' = changes ELSE changes < MaxChanges /\ changes' = changes + 1
      /\ UNCHANGED <<step, seenPeers, seenTags, seenLinks, levels, folded, group, out,
                     names, began>>
  BY DEF Change, seen, fold
<1>2. DOMAIN levels' = {} /\ DOMAIN folded' = {}
  BY <1>1, Idle
<1>3. StoreInv'
  BY <1>1, StoreStep DEF RenderInv
<1>4. served' \subseteq Peers
  BY <1>1 DEF RenderInv, TypeOK, Active
<1>5. changes' \in 0..MaxChanges
  BY <1>1, MetricAssumption DEF RenderInv, TypeOK
<1>6. TypeOK'
  BY <1>1, <1>2, <1>3, <1>4, <1>5 DEF RenderInv, TypeOK, StoreInv
<1>7. CountsOnce' /\ CellsSummarise'
  BY <1>2, NoCells
<1>8. ServedOnly'
  BY <1>1, <1>2, NoCells DEF RenderInv, ServedOnly, InService
<1> QED
  BY <1>3, <1>6, <1>7, <1>8 DEF RenderInv

\* The next metric comes into its cells.
LEMMA FoldMetricKeeps ==
  ASSUME RenderInv, NEW x \in Pairs, NEW v \in Values, NEW zeros, FoldMetric(x, v, zeros)
  PROVE  RenderInv'
<1>1. /\ step = "fold" /\ x \notin DOMAIN folded /\ InService(x[1]) /\ InService(x[2])
      /\ levels' = [c \in DOMAIN levels |-> IF Into(c, x) THEN FoldInto(levels[c], v, c \in zeros)
                                                           ELSE levels[c]]
      /\ folded' = [y \in DOMAIN folded \cup {x} |-> IF y = x THEN v ELSE folded[y]]
      /\ UNCHANGED <<peers, tags, peerTags, step, seenPeers, seenTags, seenLinks, out,
                     names, changes, began, served>>
  BY DEF FoldMetric, storeVars, seen, history
<1>2. /\ v \in Metric /\ v.lo >= -1 /\ v.hi >= -1 /\ x[1] \in Peers /\ x[2] \in Peers
      /\ \A y \in DOMAIN folded : folded[y] \in Metric /\ folded[y].lo >= -1
  BY MetricAssumption DEF RenderInv, TypeOK
<1>3. /\ DOMAIN levels = Cells /\ DOMAIN levels' = Cells
      /\ \A c \in Cells : levels[c] \in Cell
  BY <1>1 DEF RenderInv, TypeOK
<1>4. /\ DOMAIN folded' = DOMAIN folded \cup {x} /\ folded'[x] = v
      /\ \A y \in DOMAIN folded : folded'[y] = folded[y]
  BY <1>1
<1>5. SeenIds' = SeenIds /\ Cells' = Cells /\ Used' = Used
  BY <1>1 DEF SeenIds, Cells, Used
<1>6. \A c : /\ Into(c, x) => Members(c)' = Members(c) \cup {x}
             /\ ~Into(c, x) => Members(c)' = Members(c)
  BY <1>1, <1>4 DEF Members, Into, TagsOf, SeenIds
<1>7. StoreInv'
  BY <1>1 DEF RenderInv, StoreInv, StoreTypeOK, Hierarchy, NoDangling, Stored, Used
<1>8. \A c \in Cells : \E zero \in BOOLEAN :
        levels'[c] = IF Into(c, x) THEN FoldInto(levels[c], v, zero) ELSE levels[c]
  <2>1. \A c \in Cells :
          levels'[c] = IF Into(c, x) THEN FoldInto(levels[c], v, c \in zeros) ELSE levels[c]
    BY <1>1, <1>3
  <2>2. \A c : (c \in zeros) \in BOOLEAN
    OBVIOUS
  <2> QED
    BY <2>1, <2>2
<1>9. \A c \in Cells : levels'[c] \in Cell
  BY <1>2, <1>3, <1>8, FoldTyped
<1>10. DOMAIN folded' \subseteq Pairs /\ \A y \in DOMAIN folded' : folded'[y] \in Values
  BY <1>4 DEF RenderInv, TypeOK
<1>11. TypeOK'
  BY <1>1, <1>3, <1>5, <1>7, <1>9, <1>10 DEF RenderInv, TypeOK, StoreInv
<1>12. /\ IsFiniteSet(DOMAIN folded')
       /\ Cardinality(DOMAIN folded') = Cardinality(DOMAIN folded) + 1
       /\ Cardinality(DOMAIN folded) \in Nat
  BY <1>1, <1>4, FS_AddElement, FS_CardinalityType DEF RenderInv, CountsOnce
<1>13. CountsOnce'
  <2>1. \A c \in Cells : levels'[c].pl <= Cardinality(DOMAIN folded')
    <3> SUFFICES ASSUME NEW c \in Cells PROVE levels'[c].pl <= Cardinality(DOMAIN folded')
      OBVIOUS
    <3>1. levels[c].pl \in Nat /\ levels[c].pl <= Cardinality(DOMAIN folded)
      BY <1>3 DEF RenderInv, CountsOnce, Cell
    <3>2. levels'[c].pl \in Nat /\ levels'[c].pl <= levels[c].pl + 1
      BY <1>2, <1>3, <1>8, <1>9, <3>1, FoldTyped DEF Cell
    <3> QED
      BY <1>12, <3>1, <3>2
  <2>2. \A c \in Cells : levels'[c].ts = Stale => \E y \in Members(c)' : folded'[y].ts = Stale
    <3> SUFFICES ASSUME NEW c \in Cells, levels'[c].ts = Stale
                 PROVE  \E y \in Members(c)' : folded'[y].ts = Stale
      OBVIOUS
    <3>1. levels[c].ts = Stale \/ (Into(c, x) /\ v.ts = Stale)
      BY <1>2, <1>3, <1>8, FoldTyped
    <3>2. levels[c].ts = Stale => \E y \in Members(c) : folded[y].ts = Stale
      BY <1>3 DEF RenderInv, CountsOnce
    <3>3. Members(c) \subseteq DOMAIN folded
      BY DEF Members
    <3> QED
      BY <1>4, <1>6, <3>1, <3>2, <3>3
  <2> QED
    BY <1>3, <1>12, <2>1, <2>2 DEF CountsOnce
<1>14. CellsSummarise'
  <2> SUFFICES ASSUME NEW c \in Cells, \A y \in Members(c)' : folded'[y].ts = Fresh
               PROVE  Summary(levels'[c], Members(c)', folded')
    BY <1>3 DEF CellsSummarise, Summary
  <2>1. PICK M : M = Members(c)
    OBVIOUS
  <2>2. M \subseteq DOMAIN folded /\ IsFiniteSet(M) /\ x \notin M
    BY <1>1, <2>1, FS_Subset DEF Members, RenderInv, CountsOnce
  <2>3. M \subseteq Members(c)' /\ \A y \in M : folded[y].ts = Fresh /\ folded'[y] = folded[y]
    BY <1>4, <1>6, <2>1, <2>2
  <2>4. Summary(levels[c], M, folded)
    BY <1>3, <2>1, <2>3 DEF RenderInv, CellsSummarise, Summary
  <2>5. CASE ~Into(c, x)
    <3>1. levels'[c] = levels[c] /\ Members(c)' = M
      BY <1>6, <1>8, <2>1, <2>5
    <3>2. Summary(levels[c], M, folded')
      BY <2>3, <2>4 DEF Summary
    <3> QED
      BY <3>1, <3>2
  <2>6. CASE Into(c, x)
    <3>1. PICK zero \in BOOLEAN : levels'[c] = FoldInto(levels[c], v, zero)
      BY <1>8, <2>6
    <3>5. Members(c)' = M \cup {x}
      BY <1>6, <2>1, <2>6
    <3>2. v.ts = Fresh
      BY <1>4, <3>5
    <3>3. levels[c].ts # Stale
      BY <1>3, <2>1, <2>3 DEF RenderInv, CountsOnce, Fresh, Stale
    <3>4. Summary(FoldInto(levels[c], v, zero), M \cup {x}, folded')
      BY <1>2, <1>3, <1>4, <2>2, <2>3, <2>4, <3>2, <3>3, SummaryGrows
    <3> QED
      BY <3>1, <3>4, <3>5
  <2> QED
    BY <2>5, <2>6
<1>15. ServedOnly'
  <2>1. x[1] \in served /\ x[2] \in served
    BY <1>1, <1>2 DEF RenderInv, ServedOnly
  <2> QED
    BY <1>1, <1>4, <2>1 DEF RenderInv, ServedOnly, InService
<1> QED
  BY <1>7, <1>11, <1>13, <1>14, <1>15 DEF RenderInv

----------------------------------------------------------------------------
(* The theorems. *)

\* Every step keeps the invariant.
LEMMA NextKeeps == RenderInv /\ [Next]_vars => RenderInv'
<1> SUFFICES ASSUME RenderInv, [Next]_vars
             PROVE  RenderInv'
  OBVIOUS
<1>1. CASE ReadPeers
  BY <1>1, ReadPeersKeeps
<1>2. CASE ReadTags
  BY <1>2, ReadTagsKeeps
<1>3. CASE ReadLinks
  BY <1>3, ReadLinksKeeps
<1>4. CASE ReadFails
  BY <1>4, ReadFailsKeeps
<1>5. CASE Publish
  BY <1>5, PublishKeeps
<1>6. CASE \E x \in Pairs, v \in Values : \E zeros \in SUBSET Numbers(v) : FoldMetric(x, v, zeros)
  BY <1>6, FoldMetricKeeps
<1>7. CASE ReadNames \/ PrintPage
  BY <1>7, ReaderKeeps
<1>8. CASE Change
  BY <1>8, ChangeKeeps
<1>9. CASE UNCHANGED vars
  <2>1. UNCHANGED <<peers, tags, peerTags, step, seenPeers, seenTags, seenLinks, levels, folded,
                    group, out, names, changes, began, served>>
    BY <1>9 DEF vars, storeVars, seen, fold, history
  <2>2. SeenIds' = SeenIds /\ Used' = Used /\ Cells' = Cells
    BY <2>1 DEF SeenIds, Used, Cells
  <2>3. StoreInv'
    BY <2>1 DEF RenderInv, StoreInv, StoreTypeOK, Hierarchy, NoDangling, Stored, Used
  <2>4. TypeOK'
    BY <2>1, <2>2, <2>3 DEF RenderInv, TypeOK, StoreInv
  <2>5. CountsOnce' /\ CellsSummarise'
    BY <2>1, SameCells
  <2>6. ServedOnly'
    BY <2>1 DEF RenderInv, ServedOnly, InService
  <2> QED
    BY <2>3, <2>4, <2>5, <2>6 DEF RenderInv
<1> QED
  BY <1>1, <1>2, <1>3, <1>4, <1>5, <1>6, <1>7, <1>8, <1>9 DEF Next

\* The invariant holds in every reachable state.
THEOREM RenderInvariant == Spec => []RenderInv
<1> QED
  BY InitRender, NextKeeps, PTL DEF Spec

\* The renderer, its reader and the database keep their types.
THEOREM RenderTyped == Spec => []TypeOK
<1>1. RenderInv => TypeOK
  BY DEF RenderInv
<1> QED
  BY <1>1, RenderInvariant, PTL

\* For any number of peers, tags and metrics, in every order in which the hash maps may
\* give them: a cell without a stale metric says of its metrics what it should.
THEOREM CellsCorrect == Spec => []CellsSummarise
<1>1. RenderInv => CellsSummarise
  BY DEF RenderInv
<1> QED
  BY <1>1, RenderInvariant, PTL

\* However the database changes between the three reads: no peer counts that was out of
\* service all the time since the rendering began.
THEOREM OutOfServiceNotCounted == Spec => []OutStaysOut
<1>1. RenderInv => OutStaysOut
  <2> SUFFICES ASSUME RenderInv, NEW c \in DOMAIN levels
               PROVE  levels[c].pl <=
                        Cardinality({x \in DOMAIN folded : {x[1], x[2]} \subseteq served})
    BY DEF OutStaysOut
  <2>1. {x \in DOMAIN folded : {x[1], x[2]} \subseteq served} = DOMAIN folded
    BY DEF RenderInv, ServedOnly
  <2> QED
    BY <2>1 DEF RenderInv, CountsOnce
<1> QED
  BY <1>1, RenderInvariant, PTL
=============================================================================
