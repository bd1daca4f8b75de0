-------------------------- MODULE InferenceSession --------------------------
(***************************************************************************)
(* What the classifier promises the inference library: model runs of one   *)
(* session never overlap, and the session is destroyed at most once and    *)
(* never under a run.  This is the contract of hugotClassifier in          *)
(* services/synit-llm-guard/main.go (comments of Classify, infer, Close).  *)
(***************************************************************************)
CONSTANTS Caller, None

VARIABLES
  run,     \* the caller whose model run is executing, or None
  alive    \* the session has not been destroyed

Init == run = None /\ alive = TRUE

Start(r) ==
  /\ alive
  /\ run = None
  /\ run' = r
  /\ UNCHANGED alive

End ==
  /\ run # None
  /\ run' = None
  /\ UNCHANGED alive

Destroy ==
  /\ alive
  /\ run = None
  /\ alive' = FALSE
  /\ UNCHANGED run

Next == (\E r \in Caller : Start(r)) \/ End \/ Destroy

Spec == Init /\ [][Next]_<<run, alive>>
=============================================================================
