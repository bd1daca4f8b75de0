--------------------------- MODULE MCUpstreamPool ---------------------------
(* Instances of UpstreamPool for TLC. *)
EXTENDS UpstreamPool, TLC

Symmetry == Permutations(Request)
=============================================================================
