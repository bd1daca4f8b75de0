----------------------------- MODULE MCCrowdSec -----------------------------
(* Instances of CrowdSec for TLC. *)
EXTENDS CrowdSec, TLC

\* The reload shortens the lifetime of cached decisions.
MCTTL == [g \in Gen |-> IF g = 1 THEN 2 ELSE 1]

Symmetry == Permutations(Request)
=============================================================================
