------------------------------ MODULE LLMGuard ------------------------------
(***************************************************************************)
(* The LLM guard service (services/synit-llm-guard/main.go): handleDetect  *)
(* admits a bounded number of requests, classifies a request's chunks      *)
(* batch by batch, and Classify runs each batch in a goroutine that owns   *)
(* the one-token channel slot until the model run has really ended, also   *)
(* when the caller has given up.  Close takes the slot before it destroys  *)
(* the inference session.                                                  *)
(*                                                                         *)
(* A request id stands for a connection that may send request after        *)
(* request; the goroutine an earlier one abandoned may still be running.   *)
(***************************************************************************)
EXTENDS Integers, FiniteSets

CONSTANTS
  Request,        \* connections
  MaxConcurrent,  \* MAX_CONCURRENT_REQUESTS, the capacity of admission
  MaxBatches,     \* batches of chunks a request can need
  Free, Closer    \* holders of the slot that are no request

ASSUME GuardAssumption ==
  /\ IsFiniteSet(Request)
  /\ MaxConcurrent \in Nat \ {0}
  /\ MaxBatches \in Nat \ {0}
  /\ Free \notin Request /\ Closer \notin Request /\ Free # Closer

VARIABLES
  pc,         \* request -> control of handleDetect and Classify
  left,       \* request -> batches still to be classified
  expired,    \* request -> its context is done
  result,     \* request -> what its done channel holds
  infer,      \* request -> state of the inference goroutine it started
  slot,       \* who holds the token of slot
  admission,  \* tokens in admission
  closer      \* control of run's shutdown and of Close

vars == <<pc, left, expired, result, infer, slot, admission, closer>>

Admitted == {"classify", "wait", "await"}
Running == {"running", "orphan"}   \* an orphan's caller has given up

Init ==
  /\ pc = [r \in Request |-> "idle"]
  /\ left = [r \in Request |-> 0]
  /\ expired = [r \in Request |-> FALSE]
  /\ result = [r \in Request |-> "none"]
  /\ infer = [r \in Request |-> "none"]
  /\ slot = Free
  /\ admission = 0
  /\ closer = "serving"

-----------------------------------------------------------------------------
\* handleDetect

\* The non-blocking send on admission.
CapacityLeft == admission < MaxConcurrent

\* The request has been read and validated (a request rejected there changes
\* nothing); n batches of chunks are to be classified.
Admit(r, n) ==
  /\ pc[r] = "idle"
  /\ closer = "serving"
  /\ CapacityLeft
  /\ admission' = admission + 1
  /\ left' = [left EXCEPT ![r] = n]
  /\ pc' = [pc EXCEPT ![r] = "classify"]
  /\ UNCHANGED <<expired, result, infer, slot, closer>>

\* "Inference capacity exhausted".
Reject(r) ==
  /\ pc[r] = "idle"
  /\ closer = "serving"
  /\ ~CapacityLeft
  /\ UNCHANGED vars

\* The deadline passes or the client goes away.
Expire(r) ==
  /\ pc[r] \in Admitted
  /\ ~expired[r]
  /\ expired' = [expired EXCEPT ![r] = TRUE]
  /\ UNCHANGED <<pc, left, result, infer, slot, admission, closer>>

\* (Mutant: a timed-out request keeps its token.)
LeaveKeepsToken(r) ==
  /\ pc' = [pc EXCEPT ![r] = "idle"]
  /\ left' = [left EXCEPT ![r] = 0]
  /\ expired' = [expired EXCEPT ![r] = FALSE]
  /\ result' = [result EXCEPT ![r] = "none"]
  /\ admission' = IF expired[r] THEN admission ELSE admission - 1

\* handleDetect returns: its deferred functions release admission and cancel
\* the context.
Leave(r) ==
  /\ pc' = [pc EXCEPT ![r] = "idle"]
  /\ left' = [left EXCEPT ![r] = 0]
  /\ expired' = [expired EXCEPT ![r] = FALSE]
  /\ result' = [result EXCEPT ![r] = "none"]
  /\ admission' = admission - 1

-----------------------------------------------------------------------------
\* Classify

ClassifyBegin(r) ==
  /\ pc[r] = "classify"
  /\ ~expired[r]
  /\ pc' = [pc EXCEPT ![r] = "wait"]
  /\ UNCHANGED <<left, expired, result, infer, slot, admission, closer>>

\* (Mutant: the wait for the slot ignores the context.)
GiveUpBeforeWaiting(r) ==
  /\ pc[r] = "classify"
  /\ expired[r]
  /\ Leave(r)
  /\ UNCHANGED <<infer, slot, closer>>

\* ctx.Err at the start, or ctx.Done while waiting for the slot.
GiveUpWaiting(r) ==
  /\ pc[r] \in {"classify", "wait"}
  /\ expired[r]
  /\ Leave(r)
  /\ UNCHANGED <<infer, slot, closer>>

SlotFree(r) == slot = Free

\* The slot is taken and the inference goroutine started.
TakeSlot(r) ==
  /\ pc[r] = "wait"
  /\ SlotFree(r)
  /\ slot' = r
  /\ infer' = [infer EXCEPT ![r] = "running"]
  /\ pc' = [pc EXCEPT ![r] = "await"]
  /\ UNCHANGED <<left, expired, result, admission, closer>>

\* ctx.Done while the model runs: the goroutine and the slot stay behind.
Abandon(r) ==
  /\ pc[r] = "await"
  /\ expired[r]
  /\ Leave(r)
  /\ infer' = [infer EXCEPT ![r] = IF @ = "running" THEN "orphan" ELSE @]
  /\ UNCHANGED <<slot, closer>>

\* The result arrives.  An error ends the request, the last batch answers it.
Receive(r) ==
  /\ pc[r] = "await"
  /\ result[r] # "none"
  /\ IF result[r] = "ok" /\ left[r] > 1
     THEN /\ pc' = [pc EXCEPT ![r] = "classify"]
          /\ left' = [left EXCEPT ![r] = @ - 1]
          /\ result' = [result EXCEPT ![r] = "none"]
          /\ UNCHANGED <<expired, admission>>
     ELSE Leave(r)
  /\ UNCHANGED <<infer, slot, closer>>

-----------------------------------------------------------------------------
\* The inference goroutine

\* (Mutant: one done channel per connection, not per call.)
InferEndShared(r, res) ==
  /\ infer[r] \in Running
  /\ infer' = [infer EXCEPT ![r] = "sent"]
  /\ result' = [result EXCEPT ![r] = res]
  /\ UNCHANGED <<pc, left, expired, slot, admission, closer>>

\* infer returns scores or an error, a recovered panic included; the send on
\* done never blocks.
InferEnd(r, res) ==
  /\ infer[r] \in Running
  /\ infer' = [infer EXCEPT ![r] = "sent"]
  /\ result' = IF infer[r] = "running" THEN [result EXCEPT ![r] = res] ELSE result
  /\ UNCHANGED <<pc, left, expired, slot, admission, closer>>

\* The deferred receive from slot.
Release(r) ==
  /\ infer[r] = "sent"
  /\ infer' = [infer EXCEPT ![r] = "none"]
  /\ slot' = Free
  /\ UNCHANGED <<pc, left, expired, result, admission, closer>>

-----------------------------------------------------------------------------
\* Shutdown

\* server.Shutdown lets handlers finish for a while; Close follows, also when
\* some have not.
Shutdown ==
  /\ closer = "serving"
  /\ closer' = "closing"
  /\ UNCHANGED <<pc, left, expired, result, infer, slot, admission>>

\* (Mutant: Close does not wait for the slot.)
ClosesAtOnce == TRUE

\* Close takes the slot and keeps it.
CloserMayTake == slot = Free

CloseTake ==
  /\ closer = "closing"
  /\ CloserMayTake
  /\ slot' = Closer
  /\ closer' = "holding"
  /\ UNCHANGED <<pc, left, expired, result, infer, admission>>

CloseTimeout ==
  /\ closer = "closing"
  /\ closer' = "gaveup"
  /\ UNCHANGED <<pc, left, expired, result, infer, slot, admission>>

Destroy ==
  /\ closer = "holding"
  /\ closer' = "destroyed"
  /\ UNCHANGED <<pc, left, expired, result, infer, slot, admission>>

-----------------------------------------------------------------------------
HandlerStep(r) ==
  ClassifyBegin(r) \/ GiveUpWaiting(r) \/ TakeSlot(r) \/ Abandon(r) \/ Receive(r)

GoroutineStep(r) == (\E res \in {"ok", "err"} : InferEnd(r, res)) \/ Release(r)

CloseStep == CloseTake \/ CloseTimeout \/ Destroy

Next ==
  \/ \E r \in Request :
       \/ \E n \in 1..MaxBatches : Admit(r, n)
       \/ Reject(r) \/ Expire(r) \/ HandlerStep(r) \/ GoroutineStep(r)
  \/ Shutdown \/ CloseStep

Spec == Init /\ [][Next]_vars

\* Deadlines pass (every context has a timeout) and goroutines run.  A model run
\* may take for ever: InferEnd is not fair.
FairSpec ==
  /\ Spec
  /\ \A r \in Request : WF_vars(Expire(r)) /\ WF_vars(HandlerStep(r)) /\ WF_vars(Release(r))
  /\ WF_vars(CloseStep)

-----------------------------------------------------------------------------
\* The variables stay in their ranges.
TypeOK ==
  /\ pc \in [Request -> Admitted \cup {"idle"}]
  /\ left \in [Request -> 0..MaxBatches]
  /\ expired \in [Request -> BOOLEAN]
  /\ result \in [Request -> {"none", "ok", "err"}]
  /\ infer \in [Request -> Running \cup {"none", "sent"}]
  /\ slot \in Request \cup {Free, Closer}
  /\ admission \in 0..MaxConcurrent
  /\ closer \in {"serving", "closing", "gaveup", "holding", "destroyed"}

\* Timed-out callers can leave at most one model run behind: two runs never
\* overlap.
OneInference ==
  \A r, q \in Request : infer[r] \in Running /\ infer[q] \in Running => r = q

\* The session is never destroyed under a model run, and none starts after.
NoRunAfterDestroy ==
  closer = "destroyed" => \A r \in Request : infer[r] \notin Running

\* Every return path of handleDetect gives its admission token back.
AdmissionExact ==
  admission = Cardinality({r \in Request : pc[r] \in Admitted})

\* A result reaches only the request that asked for it: one that awaits a
\* result has its own run under way, ended or its answer waiting, never that
\* of a run an earlier request abandoned.
OwnResult ==
  \A r \in Request :
    /\ result[r] # "none" => pc[r] = "await" /\ infer[r] \in {"none", "sent"}
    /\ pc[r] = "await" => result[r] # "none" \/ infer[r] = "running"

\* The runs of the model, as the contract sees them.
CurrentRun ==
  IF \E r \in Request : infer[r] \in Running
  THEN CHOOSE r \in Request : infer[r] \in Running
  ELSE Free

Session == INSTANCE InferenceSession
  WITH Caller <- Request, None <- Free, run <- CurrentRun, alive <- closer # "destroyed"

\* The guard implements the contract of the session.
SessionContract == Session!Spec

\* A request that was admitted is answered.
Answered == \A r \in Request : pc[r] \in Admitted ~> pc[r] = "idle"

\* Shutdown ends, with the session destroyed or left to its run.
CloseReturns == closer # "serving" ~> closer \in {"gaveup", "destroyed"}

\* A model run that never ends keeps neither a handler nor shutdown waiting for
\* ever: both waits for the slot have a deadline.
NobodyWaitsForever == Answered /\ CloseReturns
=============================================================================
