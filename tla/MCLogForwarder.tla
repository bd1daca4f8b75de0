--------------------------- MODULE MCLogForwarder ---------------------------
(* Instances of LogForwarder for TLC. *)
EXTENDS LogForwarder

CONSTANTS small, medium, large, huge

\* large alone fills a batch by its bytes; huge is above the payload limit.
AllSizes == (small :> 1) @@ (medium :> 2) @@ (large :> 5) @@ (huge :> 6)

MCSize == [e \in Event |-> AllSizes[e]]
=============================================================================
