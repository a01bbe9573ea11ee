----------------------------- MODULE TagRender -----------------------------
(***************************************************************************)
(* The results by tag: render_results reads the three tables one after the *)
(* other, copies the metrics of the peers and folds them, in the order of  *)
(* two hash maps, into a cell for every two tags with the same parent; and *)
(* get_metrics reads the tags for their names before it reads the results  *)
(* (backend_manager.rs).  The administrator changes the database at any    *)
(* time (ConfigStore).                                                     *)
(*                                                                         *)
(* A metric is reduced to whether its time is stale and to its jitters;    *)
(* the lost probes of each are counted as one, so that the sum of a cell   *)
(* is the number of metrics in it.  A standard deviation is only known to  *)
(* be a number, NaN (that of no jitter at all) or missing (-1), which that *)
(* of a metric is until the second value of its first measurement is       *)
(* stored.                                                                 *)
(***************************************************************************)
EXTENDS ConfigStore

CONSTANTS Pairs,      \* <<local_id, peer_id>> of the metrics the server may have
          Values,     \* the metrics a pair may have
          MaxChanges  \* bound: changes of the database once the rendering has begun

\* The time of an empty cell, and the times of metrics: older than reconcile_time * 1.5
\* and younger.
Never == 0
Stale == 1
Fresh == 2

Metric == [ts : {Stale, Fresh}, lo : Int, hi : Int, dev : {"none", "number", "nan"}]

ASSUME MetricAssumption ==
  /\ Pairs \subseteq Peers \X Peers
  /\ Values \subseteq Metric
  /\ \A v \in Values : v.lo >= -1 /\ v.hi >= -1
  /\ MaxChanges \in Nat

VARIABLES
  step,       \* render_results: "sleep", "tags", "links" or "fold"
  seenPeers,  \* what it has read of the tables
  seenTags,
  seenLinks,
  levels,     \* the results it makes: levels[<<s, d>>] is a cell
  folded,     \* folded[x]: the metric of the pair x, for the pairs it has come to
  group,      \* the local_id that the outer loop is at
  out,        \* the cells of the published results that have a jitter to show
  names,      \* get_metrics: the ids of the tags it has read, or NoRow
  changes,    \* changes of the database since the first rendering began
  began,      \* history: whether a rendering has begun
  served      \* history: the peers in service at a time since the rendering began

seen == <<seenPeers, seenTags, seenLinks>>
fold == <<levels, folded, group>>
history == <<began, served>>
vars == <<storeVars, step, seen, fold, out, names, changes, history>>

EmptyCell == [ts |-> Never, pl |-> 0, lo |-> -1, hi |-> -1, dev |-> "none"]

\* What a rendering holds while there is none.
NoPeers == [p \in Peers |-> NoRow]
NoTags == [t \in Ids |-> NoRow]
Nothing == [x \in {} |-> EmptyCell]

Active == {p \in Peers : peers[p] = "active"}

----------------------------------------------------------------------------
(* Reading the database. *)

ReadPeers ==
  /\ step = "sleep"
  /\ step' = "tags"
  /\ seenPeers' = peers
  /\ began' = TRUE /\ served' = Active
  /\ UNCHANGED <<storeVars, seenTags, seenLinks, fold, out, names, changes>>

ReadTags ==
  /\ step = "tags"
  /\ step' = "links"
  /\ seenTags' = tags
  /\ UNCHANGED <<storeVars, seenPeers, seenLinks, fold, out, names, changes, history>>

\* The tags read, and the cells that _create_result_hashmap makes for them.
SeenIds == {t \in Ids : seenTags[t] # NoRow}
Cells == {c \in SeenIds \X SeenIds : seenTags[c[1]].parent = seenTags[c[2]].parent}

ReadLinks ==
  /\ step = "links"
  /\ step' = "fold"
  /\ seenLinks' = peerTags
  /\ levels' = [c \in Cells |-> EmptyCell]
  /\ UNCHANGED <<storeVars, seenPeers, seenTags, folded, group, out, names, changes, history>>

\* A query fails: nothing is published.
ReadFails ==
  /\ step \in {"tags", "links"}
  /\ step' = "sleep"
  /\ seenPeers' = NoPeers /\ seenTags' = NoTags
  /\ UNCHANGED <<storeVars, seenLinks, fold, out, names, changes, history>>

----------------------------------------------------------------------------
(* _parse_output_metrics. *)

\* z.jitter_stddev: the first metric replaces a missing one, and NaN remains.  The -1 of
\* a missing one is added like a number: to none, or to a deviation of zero, it makes -1.
JoinDeviation(z, v, zero) ==
  IF "nan" \in {z, v} THEN "nan"
  ELSE IF v = "none" /\ (z = "none" \/ zero) THEN "none" ELSE "number"

\* Mutant of FoldInto: the smallest jitter is looked for without a start.
FoldIntoSmaller(z, v, zero) ==
  IF z.ts = Stale THEN z
  ELSE [ts  |-> IF z.ts < v.ts THEN v.ts ELSE z.ts,
        pl  |-> z.pl + 1,
        lo  |-> IF z.lo > v.lo THEN v.lo ELSE z.lo,
        hi  |-> IF z.hi < v.hi THEN v.hi ELSE z.hi,
        dev |-> JoinDeviation(z.dev, v.dev, zero)]

\* The metric v comes into the cell z, unless what the cell has is stale; zero says
\* whether the deviation of z is 0 (or so near to it that -1 makes it -1).
FoldInto(z, v, zero) ==
  IF z.ts = Stale THEN z
  ELSE [ts  |-> IF z.ts < v.ts THEN v.ts ELSE z.ts,
        pl  |-> z.pl + 1,
        lo  |-> IF z.lo = -1 \/ z.lo > v.lo THEN v.lo ELSE z.lo,
        hi  |-> IF z.hi = -1 \/ z.hi < v.hi THEN v.hi ELSE z.hi,
        dev |-> JoinDeviation(z.dev, v.dev, zero)]

\* The tags of a peer; a row for a tag that was not read gives none.
TagsOf(p) == {t \in SeenIds : <<p, t>> \in seenLinks}

\* Mutant of InService: the list of the peers in maintenance is not asked.
IsStored(p) == seenPeers[p] # NoRow

\* Neither deleted nor in maintenance.
InService(p) == seenPeers[p] = "active"

\* Cell <<s, d>> takes the metric of the pair <<local, peer>> if the peer has the tag s
\* and the client that measured has d.
Into(c, x) == c[1] \in TagsOf(x[2]) /\ c[2] \in TagsOf(x[1])

\* Mutant of FoldMetric: a missing cell is made (or_insert), also for tags whose parents
\* differ.
FoldMetricInserting(x, v, zeros) ==
  /\ step = "fold"
  /\ x \notin DOMAIN folded
  /\ \A y \in DOMAIN folded : y[1] = x[1] => group = x[1]
  /\ InService(x[1]) /\ InService(x[2])
  /\ levels' = [c \in DOMAIN levels \cup {c \in SeenIds \X SeenIds : Into(c, x)} |->
                 LET z == IF c \in DOMAIN levels THEN levels[c] ELSE EmptyCell
                 IN  IF Into(c, x) THEN FoldInto(z, v, c \in zeros) ELSE z]
  /\ folded' = [y \in DOMAIN folded \cup {x} |-> IF y = x THEN v ELSE folded[y]]
  /\ group' = x[1]
  /\ UNCHANGED <<storeVars, step, seen, out, names, changes, history>>

\* The cells with a deviation for which it matters whether it is 0.
Numbers(v) == {c \in DOMAIN levels : v.dev = "none" /\ levels[c].dev = "number"}

\* The next pair of the inner loop, or of the outer one: in any order, but all pairs of
\* one local_id together.  A pair that is skipped changes nothing.  The deviations of the
\* cells in zeros are 0.
FoldMetric(x, v, zeros) ==
  /\ step = "fold"
  /\ x \notin DOMAIN folded
  /\ \A y \in DOMAIN folded : y[1] = x[1] => group = x[1]
  /\ InService(x[1]) /\ InService(x[2])
  /\ levels' = [c \in DOMAIN levels |-> IF Into(c, x) THEN FoldInto(levels[c], v, c \in zeros)
                                                       ELSE levels[c]]
  /\ folded' = [y \in DOMAIN folded \cup {x} |-> IF y = x THEN v ELSE folded[y]]
  /\ group' = x[1]
  /\ UNCHANGED <<storeVars, step, seen, out, names, changes, history>>

\* What get_metrics shows only under the names of the tags.
HasJitter(z) == z.lo > -1 \/ z.hi > -1 \/ z.dev = "number"

\* The metrics that the server had are those that were folded.
Publish ==
  /\ step = "fold"
  /\ step' = "sleep"
  /\ out' = {c \in DOMAIN levels : HasJitter(levels[c])}
  /\ seenPeers' = NoPeers /\ seenTags' = NoTags /\ seenLinks' = {}
  /\ levels' = Nothing /\ folded' = Nothing /\ group' = NoRow
  /\ UNCHANGED <<storeVars, names, changes, history>>

----------------------------------------------------------------------------
(* get_metrics. *)

\* Before the first rendering there is nothing to show.
ReadNames ==
  /\ names = NoRow /\ began
  /\ names' = Used
  /\ UNCHANGED <<storeVars, step, seen, fold, out, changes, history>>

\* tag_maps.get().unwrap() for each cell that has a jitter.
CanPrint == \A c \in out : {c[1], c[2]} \subseteq names

\* The answer, or a panic: the request ends.
PrintPage ==
  /\ names # NoRow
  /\ names' = NoRow
  /\ UNCHANGED <<storeVars, step, seen, fold, out, changes, history>>

----------------------------------------------------------------------------
\* The administrator.  What is changed while the metrics are folded could as well be
\* changed after, for nothing of it is read any more.
Change ==
  /\ step # "fold"
  /\ StoreNext /\ storeVars' # storeVars
  /\ IF ~began THEN UNCHANGED changes ELSE changes < MaxChanges /\ changes' = changes + 1
  /\ served' = served \cup Active'
  /\ UNCHANGED <<step, seen, fold, out, names, began>>

Init ==
  /\ StoreInit /\ step = "sleep" /\ out = {}
  /\ seenPeers = NoPeers /\ seenTags = NoTags /\ seenLinks = {}
  /\ levels = Nothing /\ folded = Nothing /\ group = NoRow
  /\ names = NoRow /\ changes = 0
  /\ began = FALSE /\ served = {}

Next ==
  \/ ReadPeers \/ ReadTags \/ ReadLinks \/ ReadFails \/ Publish
  \/ \E x \in Pairs, v \in Values : \E zeros \in SUBSET Numbers(v) : FoldMetric(x, v, zeros)
  \/ ReadNames \/ PrintPage \/ Change

Spec == Init /\ [][Next]_vars

----------------------------------------------------------------------------
(* Properties. *)

Cell == [ts : {Never, Stale, Fresh}, pl : Nat, lo : Int, hi : Int, dev : {"none", "number", "nan"}]

\* The types of the renderer and the reader; what a rendering holds, it holds while it
\* runs only.
TypeOK ==
  /\ StoreTypeOK
  /\ step \in {"sleep", "tags", "links", "fold"}
  /\ seenPeers \in [Peers -> PeerRows \cup {NoRow}]
  /\ seenTags \in [Ids -> TagRows \cup {NoRow}]
  /\ seenLinks \subseteq Peers \X Ids
  /\ DOMAIN folded \subseteq Pairs /\ \A x \in DOMAIN folded : folded[x] \in Values
  /\ IF step = "fold"
     THEN DOMAIN levels = Cells /\ \A c \in Cells : levels[c] \in Cell
     ELSE DOMAIN levels = {} /\ DOMAIN folded = {}
  /\ out \subseteq Ids \X Ids
  /\ names \in (SUBSET Ids) \cup {NoRow}
  /\ changes \in 0..MaxChanges /\ began \in BOOLEAN /\ served \subseteq Peers

\* The metrics that belong into the cell c, of those the rendering has come to.
Members(c) == {x \in DOMAIN folded : Into(c, x)}

\* In whatever order the hash maps give the pairs, a cell into which no stale metric
\* went has the sum and the largest jitter of its metrics, NaN exactly if one of them has
\* it, a deviation if all have one, and their smallest jitter if all have one: a metric
\* without starts the search for the smallest anew (backend_manager.rs:437-451).
CellsSummarise ==
  \A c \in DOMAIN levels :
    LET z == levels[c]
        M == Members(c)
    IN  (\A x \in M : folded[x].ts = Fresh) =>
          /\ z.pl = Cardinality(M)
          /\ z.ts = Fresh <=> M # {}
          /\ z.hi \in {folded[x].hi : x \in M} \cup {-1}
          /\ \A x \in M : z.hi >= folded[x].hi
          /\ z.lo \in {folded[x].lo : x \in M} \cup {-1}
          /\ (\A x \in M : folded[x].lo > -1) => \A x \in M : -1 < z.lo /\ z.lo <= folded[x].lo
          /\ z.dev = "nan" <=> \E x \in M : folded[x].dev = "nan"
          /\ M = {} => z.dev = "none"
          /\ M # {} /\ z.dev = "none" => \E x \in M : folded[x].dev = "none"

\* A peer that was deleted or in maintenance when a rendering began and has stayed so
\* counts in no cell, neither by its own metrics nor by those that others have of it,
\* whatever is changed between the reads of the three tables.
OutStaysOut ==
  \A c \in DOMAIN levels :
    levels[c].pl <= Cardinality({x \in DOMAIN folded : {x[1], x[2]} \subseteq served})

\* tag_maps.get(src).unwrap() (backend_manager.rs:107): the names that a request has read
\* are those of all tags that it shows jitters of, and it does not panic.
NamesFound == names # NoRow => CanPrint

\* "we skip stale metrics" (backend_manager.rs:431).
StaleSkipped ==
  \A c \in DOMAIN levels :
    levels[c].pl <= Cardinality({x \in Members(c) : folded[x].ts = Fresh})
=============================================================================
