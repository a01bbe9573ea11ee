--------------------------- MODULE MCConfigStore ---------------------------
(* Instances of ConfigStore for TLC. *)
EXTENDS ConfigStore, TLC

\* Peers and names are interchangeable.
Symmetry == Permutations(Peers) \cup Permutations(Names)
=============================================================================
