----------------------------- MODULE MCAdminApi -----------------------------
(* Instances of AdminApi for TLC. *)
EXTENDS AdminApi, TLC

\* Peers, names and requests are interchangeable.
Symmetry == Permutations(Peers) \cup Permutations(Names) \cup Permutations(Requests)
=============================================================================
