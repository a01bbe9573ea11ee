---------------------------- MODULE MCTagRender ----------------------------
(* Instances of TagRender for TLC. *)
EXTENDS TagRender, TLC

Jitter(n) == [ts |-> Fresh, lo |-> n, hi |-> n, dev |-> "number"]
Silence == [ts |-> Fresh, lo |-> -1, hi |-> -1, dev |-> "nan"]
\* Of a first measurement the lost probes have been stored, and then the deviation.
Arriving == [ts |-> Fresh, lo |-> -1, hi |-> -1, dev |-> "none"]
Begun == [ts |-> Fresh, lo |-> -1, hi |-> -1, dev |-> "number"]
Old == [ts |-> Stale, lo |-> 1, hi |-> 1, dev |-> "number"]

MCValues == {Jitter(1), Jitter(2), Silence, Arriving, Begun, Old}
OneValue == {Jitter(1)}
MCPairs == {x \in Peers \X Peers : x[1] # x[2]}

\* The peers are interchangeable.
Symmetry == Permutations(Peers)
=============================================================================
