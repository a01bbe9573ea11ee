----------------------------- MODULE MCPeerMesh -----------------------------
(* Instances of PeerMesh for TLC. *)
EXTENDS PeerMesh, TLC

\* Peers, addresses and sessions are interchangeable (no liveness in the runs that
\* use this).
Symmetry ==
  Permutations(Running) \cup Permutations(Peers \ Running) \cup Permutations(Addrs) \cup Permutations(Sessions)
=============================================================================
