---------------------------- MODULE MCProbeMeter ----------------------------
(* Instances of ProbeMeter for TLC. *)
EXTENDS ProbeMeter, TLC
=============================================================================
