----------------------------- MODULE MCLLMGuard -----------------------------
(* Instances of LLMGuard for TLC. *)
EXTENDS LLMGuard, TLC

Symmetry == Permutations(Request)
=============================================================================
